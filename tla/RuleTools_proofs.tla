---------------------------- MODULE RuleTools_proofs ----------------------------
(***************************************************************************)
(* Theorems about RuleTools, for any arguments a client may send, any      *)
(* messages and any documents, and about the two walks of JsonPath, for    *)
(* paths of any length.                                                    *)
(***************************************************************************)
EXTENDS RuleTools, TLAPS, NaturalsInduction, WellFoundedInduction, FiniteSetTheorems

-------------------------------------------------------------------------------
(* The walks of JsonPath.  Each is defined by a recursive function; that    *)
(* there is such a function is proved part by part.                         *)

\* A set of numbers with 0, and with each of its members the next, has them all.
LEMMA AllNumbers ==
  ASSUME NEW T \in SUBSET Nat, 0 \in T, \A n \in T : n + 1 \in T
  PROVE  T = Nat
<1> DEFINE R == OpToRel(<, Nat)
<1>1. SUFFICES ASSUME Nat \ T # {} PROVE FALSE
  OBVIOUS
<1>2. IsWellFoundedOn(R, Nat)
  BY NatLessThanWellFounded
<1> HIDE DEF R
<1>3. PICK x \in Nat \ T : \A y \in Nat \ T : ~ (<<y, x>> \in R)
  <2>1. Nat \ T \subseteq Nat
    OBVIOUS
  <2> QED
    BY <1>1, <1>2, <2>1, WFMin
<1>4. x # 0 /\ x - 1 \in Nat /\ x - 1 < x /\ (x - 1) + 1 = x
  OBVIOUS
<1>5. <<x - 1, x>> \in R
  BY <1>4 DEF R, OpToRel
<1> QED
  BY <1>3, <1>4, <1>5

\* The walk that reads goes one part further each time.
LEMMA FoundIs ==
  ASSUME NEW doc, NEW path \in Seq(STRING)
  PROVE  /\ Found(doc, path)[0] = doc
         /\ \A i \in 1..Len(path) :
              Found(doc, path)[i] = Step(Found(doc, path)[i - 1], path[i])
<1> DEFINE Is(g, n) == g = [i \in 0..n |-> IF i = 0 THEN doc ELSE Step(g[i - 1], path[i])]
           T == {n \in Nat : \E g : Is(g, n)}
<1>1. 0 \in T
  <2>1. Is([i \in 0..0 |-> doc], 0)
    OBVIOUS
  <2> QED
    BY <2>1
<1>2. ASSUME NEW n \in T PROVE n + 1 \in T
  <2>1. PICK g : Is(g, n)
    OBVIOUS
  <2> DEFINE h == [i \in 0..(n + 1) |-> IF i = n + 1 THEN Step(g[n], path[n + 1]) ELSE g[i]]
  <2>2. ASSUME NEW i \in 0..(n + 1)
        PROVE  h[i] = IF i = 0 THEN doc ELSE Step(h[i - 1], path[i])
    <3>1. CASE i = n + 1
      BY <3>1
    <3>2. CASE i # n + 1
      BY <2>1, <3>2
    <3> QED
      BY <3>1, <3>2
  <2>3. Is(h, n + 1)
    BY <2>2
  <2>4. n + 1 \in Nat
    OBVIOUS
  <2> HIDE DEF Is
  <2> QED
    BY <2>3, <2>4
<1>3. Len(path) \in T
  <2>1. T \in SUBSET Nat
    OBVIOUS
  <2>2. \A n \in T : n + 1 \in T
    BY <1>2
  <2> HIDE DEF T
  <2>3. T = Nat
    BY <1>1, <2>1, <2>2, AllNumbers
  <2>4. Len(path) \in Nat
    OBVIOUS
  <2> QED
    BY <2>3, <2>4
<1> DEFINE f == Found(doc, path)
<1>4. Is(f, Len(path))
  BY <1>3 DEF Found
<1> HIDE DEF f
<1> QED
  BY <1>4 DEF f

\* The walk that sets goes from each cursor to its child.
LEMMA CursorsAre ==
  ASSUME NEW doc, NEW path \in Seq(STRING), path # <<>>
  PROVE  /\ Cursors(doc, path)[0] = doc
         /\ \A i \in 1..(Len(path) - 1) :
              Cursors(doc, path)[i] = Child(Cursors(doc, path)[i - 1], path[i], path[i + 1])
<1> DEFINE Is(g, n) ==
             g = [i \in 0..n |-> IF i = 0 THEN doc ELSE Child(g[i - 1], path[i], path[i + 1])]
           T == {n \in Nat : \E g : Is(g, n)}
<1>1. 0 \in T
  <2>1. Is([i \in 0..0 |-> doc], 0)
    OBVIOUS
  <2> QED
    BY <2>1
<1>2. ASSUME NEW n \in T PROVE n + 1 \in T
  <2>1. PICK g : Is(g, n)
    OBVIOUS
  <2> DEFINE h == [i \in 0..(n + 1) |->
                     IF i = n + 1 THEN Child(g[n], path[n + 1], path[n + 2]) ELSE g[i]]
  <2>2. ASSUME NEW i \in 0..(n + 1)
        PROVE  h[i] = IF i = 0 THEN doc ELSE Child(h[i - 1], path[i], path[i + 1])
    <3>1. CASE i = n + 1
      <4>1. n \in 0..(n + 1) /\ n # n + 1 /\ i - 1 = n /\ i + 1 = n + 2 /\ i # 0
        BY <3>1
      <4> QED
        BY <3>1, <4>1
    <3>2. CASE i # n + 1
      BY <2>1, <3>2
    <3> QED
      BY <3>1, <3>2
  <2>3. Is(h, n + 1)
    BY <2>2
  <2>4. n + 1 \in Nat
    OBVIOUS
  <2> HIDE DEF Is
  <2> QED
    BY <2>3, <2>4
<1>3. Len(path) - 1 \in T
  <2>1. T \in SUBSET Nat
    OBVIOUS
  <2>2. \A n \in T : n + 1 \in T
    BY <1>2
  <2> HIDE DEF T
  <2>3. T = Nat
    BY <1>1, <2>1, <2>2, AllNumbers
  <2>4. Len(path) - 1 \in Nat
    OBVIOUS
  <2> QED
    BY <2>3, <2>4
<1> DEFINE f == Cursors(doc, path)
<1>4. Is(f, Len(path) - 1)
  BY <1>3 DEF Cursors
<1> HIDE DEF f
<1> QED
  BY <1>4 DEF f

\* The containers are set one after the other, from the last to the first.
LEMMA BuiltIs ==
  ASSUME NEW cursors, NEW path \in Seq(STRING), NEW value
  PROVE  /\ Built(cursors, path, value)[0] = value
         /\ \A k \in 1..Len(path) :
              Built(cursors, path, value)[k] =
                SetPart(cursors[Len(path) - k], path[Len(path) - k + 1],
                        Built(cursors, path, value)[k - 1])
<1> DEFINE Up(g, k) == SetPart(cursors[Len(path) - k], path[Len(path) - k + 1], g[k - 1])
           Is(g, n) == g = [k \in 0..n |-> IF k = 0 THEN value ELSE Up(g, k)]
           T == {n \in Nat : \E g : Is(g, n)}
<1>1. 0 \in T
  <2>1. Is([i \in 0..0 |-> value], 0)
    OBVIOUS
  <2> QED
    BY <2>1
<1>2. ASSUME NEW n \in T PROVE n + 1 \in T
  <2>1. PICK g : Is(g, n)
    OBVIOUS
  <2> DEFINE h == [k \in 0..(n + 1) |-> IF k = n + 1 THEN Up(g, n + 1) ELSE g[k]]
  <2>2. ASSUME NEW k \in 0..(n + 1)
        PROVE  h[k] = IF k = 0 THEN value ELSE Up(h, k)
    <3>1. CASE k = n + 1
      <4>1. n \in 0..(n + 1) /\ n # n + 1 /\ k - 1 = n /\ k # 0
        BY <3>1
      <4>2. h[k] = Up(g, k) /\ h[k - 1] = g[k - 1]
        BY <3>1, <4>1
      <4> QED
        BY <4>1, <4>2
    <3>2. CASE k # n + 1
      <4>1. k \in 0..n /\ (k # 0 => k - 1 \in 0..(n + 1) /\ k - 1 # n + 1)
        BY <3>2
      <4>2. h[k] = g[k] /\ (k # 0 => h[k - 1] = g[k - 1])
        BY <4>1, <3>2
      <4>3. g[k] = IF k = 0 THEN value ELSE Up(g, k)
        BY <2>1, <4>1
      <4> QED
        BY <4>2, <4>3
    <3> QED
      BY <3>1, <3>2
  <2>3. Is(h, n + 1)
    <3> HIDE DEF Up
    <3> QED
      BY <2>2
  <2>4. n + 1 \in Nat
    OBVIOUS
  <2> HIDE DEF Is
  <2> QED
    BY <2>3, <2>4
<1>3. Len(path) \in T
  <2>1. T \in SUBSET Nat
    OBVIOUS
  <2>2. \A n \in T : n + 1 \in T
    BY <1>2
  <2> HIDE DEF T
  <2>3. T = Nat
    BY <1>1, <2>1, <2>2, AllNumbers
  <2>4. Len(path) \in Nat
    OBVIOUS
  <2> QED
    BY <2>3, <2>4
<1> DEFINE f == Built(cursors, path, value)
<1>4. Is(f, Len(path))
  BY <1>3 DEF Built
<1> HIDE DEF f
<1> QED
  BY <1>4 DEF f

\* To set a part that a container takes leaves its kind and all its other parts, and
\* the part is read back.
LEMMA SetPartIs ==
  ASSUME NEW doc, NEW part, NEW child, Takes(doc, part)
  PROVE  /\ Step(SetPart(doc, part, child), part) = child
         /\ SetPart(doc, part, child).is = doc.is
         /\ Container(doc)
         /\ Aside(SetPart(doc, part, child), part) = Aside(doc, part)
<1> DEFINE new == SetPart(doc, part, child)
<1>1. CASE doc.is = "obj"
  <2>1. /\ new.is = "obj" /\ DOMAIN new.fields = DOMAIN doc.fields \cup {part}
        /\ \A key \in DOMAIN doc.fields \cup {part} :
             new.fields[key] = IF key = part THEN child ELSE doc.fields[key]
    BY <1>1 DEF SetPart, SetField, Obj
  <2> HIDE DEF new
  <2>2. Step(new, part) = child
    BY <2>1 DEF Step
  <2>3. Aside(new, part) = [key \in DOMAIN new.fields \ {part} |-> new.fields[key]]
    BY <2>1 DEF Aside
  <2>4. Aside(doc, part) = [key \in DOMAIN doc.fields \ {part} |-> doc.fields[key]]
    BY <1>1 DEF Aside
  <2>5. DOMAIN new.fields \ {part} = DOMAIN doc.fields \ {part}
    BY <2>1
  <2>6. Aside(new, part) = Aside(doc, part)
    BY <2>1, <2>3, <2>4, <2>5
  <2> QED
    BY <1>1, <2>1, <2>2, <2>6 DEF Container, new
<1>2. CASE doc.is = "arr"
  <2>1. HasElem(doc, part)
    BY <1>2 DEF Takes
  <2>2. /\ new.is = "arr" /\ DOMAIN new.elems = DOMAIN doc.elems
        /\ new.elems[Place(part)] = child
        /\ \A i \in DOMAIN doc.elems \ {Place(part)} : new.elems[i] = doc.elems[i]
    BY <1>2, <2>1 DEF SetPart, SetElem, Arr, HasElem
  <2> HIDE DEF new
  <2>3. Step(new, part) = child
    BY <2>1, <2>2 DEF Step, HasElem
  <2>4. Aside(new, part) = [i \in DOMAIN new.elems \ {Place(part)} |-> new.elems[i]]
    BY <2>2 DEF Aside
  <2>5. Aside(doc, part) = [i \in DOMAIN doc.elems \ {Place(part)} |-> doc.elems[i]]
    BY <1>2 DEF Aside
  <2>6. Aside(new, part) = Aside(doc, part)
    BY <2>2, <2>4, <2>5
  <2> QED
    BY <1>2, <2>2, <2>3, <2>6 DEF Container, new
<1> QED
  BY <1>1, <1>2 DEF Takes

\* In what was built from cursors that take the parts of the path, the walk that
\* reads comes to each container that was set, and at last to the value.
LEMMA FoundInBuilt ==
  ASSUME NEW cursors, NEW path \in Seq(STRING), NEW value, Walkable(cursors, path)
  PROVE  \A i \in 0..Len(path) :
           Found(Built(cursors, path, value)[Len(path)], path)[i] =
             Built(cursors, path, value)[Len(path) - i]
<1> DEFINE n == Len(path)
           up == Built(cursors, path, value)
           at == Found(up[n], path)
           T == {i \in Nat : i <= n => at[i] = up[n - i]}
<1>1. n \in Nat
  OBVIOUS
<1>2. at[0] = up[n] /\ \A i \in 1..n : at[i] = Step(at[i - 1], path[i])
  BY FoundIs
<1>3. \A k \in 1..n : up[k] = SetPart(cursors[n - k], path[n - k + 1], up[k - 1])
  BY BuiltIs
<1>4. \A i \in 1..n : Takes(cursors[i - 1], path[i])
  BY DEF Walkable
<1> HIDE DEF at, up, n
<1>5. 0 \in T
  BY <1>1, <1>2
<1>6. ASSUME NEW i \in T PROVE i + 1 \in T
  <2>1. SUFFICES ASSUME i + 1 <= n PROVE at[i + 1] = up[n - (i + 1)]
    OBVIOUS
  <2>2. i \in Nat /\ i + 1 \in 1..n /\ n - i \in 1..n /\ i <= n
    BY <1>1, <2>1
  <2>3. n - (n - i) = i /\ n - (n - i) + 1 = i + 1 /\ (n - i) - 1 = n - (i + 1) /\ (i + 1) - 1 = i
    BY <1>1, <2>2
  <2>4. at[i] = up[n - i]
    BY <2>2
  <2>5. up[n - i] = SetPart(cursors[i], path[i + 1], up[n - (i + 1)])
    BY <1>3, <2>2, <2>3
  <2>6. Takes(cursors[i], path[i + 1])
    BY <1>4, <2>2, <2>3
  <2>7. Step(up[n - i], path[i + 1]) = up[n - (i + 1)]
    BY <2>5, <2>6, SetPartIs
  <2> QED
    BY <1>2, <2>2, <2>3, <2>4, <2>7
<1>7. T = Nat
  <2>1. T \in SUBSET Nat /\ \A i \in T : i + 1 \in T
    BY <1>6
  <2> HIDE DEF T
  <2> QED
    BY <1>5, <2>1, AllNumbers
<1>8. \A i \in 0..n : i \in Nat /\ i <= n
  BY <1>1
<1>9. \A i \in 0..n : at[i] = up[n - i]
  BY <1>7, <1>8
<1> QED
  BY <1>9 DEF at, up, n

\* The cursors of the walk that sets are what the other walk finds, as long as it
\* finds containers; where it does not, they are empty.
LEMMA CursorsFollow ==
  ASSUME NEW doc, NEW path \in Seq(STRING), path # <<>>
  PROVE  \A i \in 0..(Len(path) - 1) :
           \/ Cursors(doc, path)[i] = Found(doc, path)[i]
           \/ ~Container(Found(doc, path)[i]) /\ Cursors(doc, path)[i] \in {Obj(<<>>), Arr(<<>>)}
<1> DEFINE n == Len(path)
           at == Found(doc, path)
           cur == Cursors(doc, path)
           OK(i) == cur[i] = at[i] \/ (~Container(at[i]) /\ cur[i] \in {Obj(<<>>), Arr(<<>>)})
           T == {i \in Nat : i <= n - 1 => OK(i)}
<1>1. n \in Nat /\ n # 0
  OBVIOUS
<1>2. at[0] = doc /\ \A i \in 1..n : at[i] = Step(at[i - 1], path[i])
  BY FoundIs
<1>3. cur[0] = doc /\ \A i \in 1..(n - 1) : cur[i] = Child(cur[i - 1], path[i], path[i + 1])
  BY CursorsAre
<1> HIDE DEF at, cur, n
<1>4. 0 \in T
  BY <1>2, <1>3
<1>5. ASSUME NEW i \in T PROVE i + 1 \in T
  <2>1. SUFFICES ASSUME i + 1 <= n - 1 PROVE OK(i + 1)
    OBVIOUS
  <2>2. i + 1 \in 1..(n - 1) /\ i + 1 \in 1..n /\ (i + 1) - 1 = i /\ i <= n - 1
    BY <1>1, <2>1
  <2> DEFINE p == path[i + 1]
             q == path[(i + 1) + 1]
  <2>3. at[i + 1] = Step(at[i], p) /\ cur[i + 1] = Child(cur[i], p, q)
    BY <1>2, <1>3, <2>2
  <2> HIDE DEF p, q
  <2>4. New(q) \in {Obj(<<>>), Arr(<<>>)}
    BY DEF New
  <2>5. OK(i)
    BY <2>2
  <2>6. CASE cur[i] = at[i]
    BY <2>3, <2>4, <2>6 DEF Child
  <2>7. CASE ~Container(at[i]) /\ cur[i] \in {Obj(<<>>), Arr(<<>>)}
    <3>1. at[i + 1] = Missing
      BY <2>3, <2>7 DEF Container, Step
    <3>2. Step(cur[i], p) = Missing
      BY <2>7 DEF Step, Obj, Arr, HasElem
    <3>3. ~Container(Missing)
      BY DEF Container, Missing
    <3> QED
      BY <2>3, <2>4, <3>1, <3>2, <3>3 DEF Child
  <2> QED
    BY <2>5, <2>6, <2>7
<1>6. T = Nat
  <2>1. T \in SUBSET Nat /\ \A i \in T : i + 1 \in T
    BY <1>5
  <2> HIDE DEF T
  <2> QED
    BY <1>4, <2>1, AllNumbers
<1>7. \A i \in 0..(n - 1) : i \in Nat /\ i <= n - 1
  BY <1>1
<1>8. \A i \in 0..(n - 1) : OK(i)
  BY <1>6, <1>7
<1> QED
  BY <1>8 DEF at, cur, n

SameKind(c, d) == c.is = d.is

\* What a patch that was carried out has done: the value is at the path, and each
\* container on the way is as it was but for the path's next part.
LEMMA PatchedIs ==
  ASSUME NEW doc, NEW path \in Seq(STRING), NEW value, Patched(doc, path, value) # Unwalkable
  PROVE  LET new == Patched(doc, path, value) IN
         /\ Found(new, path)[Len(path)] = value
         /\ \A i \in 1..Len(path) :
              /\ Container(Found(new, path)[i - 1])
              /\ Container(Found(doc, path)[i - 1]) =>
                   SameKind(Found(new, path)[i - 1], Found(doc, path)[i - 1])
              /\ Aside(Found(new, path)[i - 1], path[i]) = Aside(Found(doc, path)[i - 1], path[i])
<1> DEFINE n == Len(path)
           cur == Cursors(doc, path)
           up == Built(cur, path, value)
           old == Found(doc, path)
           new == Patched(doc, path, value)
           at == Found(new, path)
<1>1. Walkable(cur, path) /\ new = up[n]
  BY DEF Patched
<1>2. \A i \in 0..n : at[i] = up[n - i]
  BY <1>1, FoundInBuilt
<1>3. up[0] = value /\ \A k \in 1..n : up[k] = SetPart(cur[n - k], path[n - k + 1], up[k - 1])
  BY BuiltIs
<1>4. \A i \in 1..n : Takes(cur[i - 1], path[i])
  BY <1>1 DEF Walkable
<1>5. n \in Nat
  OBVIOUS
<1>6. path # <<>> => \A i \in 0..(n - 1) :
        cur[i] = old[i] \/ (~Container(old[i]) /\ cur[i] \in {Obj(<<>>), Arr(<<>>)})
  BY CursorsFollow
<1>7. n # 0 => path # <<>>
  OBVIOUS
<1> HIDE DEF n, cur, up, old, at, new
<1>8. at[n] = value
  <2>1. n \in 0..n /\ n - n = 0
    BY <1>5
  <2> QED
    BY <1>2, <1>3, <2>1
<1>9. ASSUME NEW i \in 1..n
      PROVE  /\ Container(at[i - 1])
             /\ Container(old[i - 1]) => SameKind(at[i - 1], old[i - 1])
             /\ Aside(at[i - 1], path[i]) = Aside(old[i - 1], path[i])
  <2> DEFINE c == cur[i - 1]
             s == SetPart(c, path[i], up[n - i])
  <2>1. i - 1 \in 0..n /\ i - 1 \in 0..(n - 1) /\ n - (i - 1) \in 1..n /\ n # 0
    BY <1>5
  <2>2. n - (n - (i - 1)) = i - 1 /\ n - (n - (i - 1)) + 1 = i /\ (n - (i - 1)) - 1 = n - i
    BY <1>5
  <2>3. at[i - 1] = s
    BY <1>2, <1>3, <2>1, <2>2
  <2>4. Takes(c, path[i])
    BY <1>4
  <2>5. s.is = c.is /\ Container(c) /\ Aside(s, path[i]) = Aside(c, path[i])
    BY <2>4, SetPartIs
  <2>6. c = old[i - 1] \/ (~Container(old[i - 1]) /\ c \in {Obj(<<>>), Arr(<<>>)})
    BY <1>6, <1>7, <2>1
  <2>7. Container(s)
    BY <2>5 DEF Container
  <2> HIDE DEF c, s
  <2>8. CASE c = old[i - 1]
    BY <2>3, <2>5, <2>7, <2>8 DEF SameKind
  <2>9. CASE ~Container(old[i - 1]) /\ c \in {Obj(<<>>), Arr(<<>>)}
    <3>1. c = Obj(<<>>)
      BY <2>4, <2>9 DEF Takes, Arr, HasElem
    <3>2. Aside(c, path[i]) = <<>>
      BY <3>1 DEF Aside, Obj
    <3>3. Aside(old[i - 1], path[i]) = <<>>
      BY <2>9 DEF Aside, Container
    <3> QED
      BY <2>3, <2>5, <2>7, <2>9, <3>2, <3>3
  <2> QED
    BY <2>6, <2>8, <2>9
<1> QED
  BY <1>8, <1>9 DEF n, old, at, new

\* A string that was set is read back at the same path.
LEMMA StringReadBack ==
  ASSUME NEW doc, NEW path \in Seq(STRING), NEW value, NEW new,
         new = Patched(doc, path, value), new # Unwalkable, value.is = "str"
  PROVE  Extracted(new, path) = value
<1>1. Found(new, path)[Len(path)] = value
  BY PatchedIs
<1> QED
  BY <1>1 DEF Extracted

\* The document made for a path: objects on the way, the leaf at its end.
LEMMA ChainIs ==
  ASSUME NEW path \in Seq(STRING), path # <<>>, NEW leaf
  PROVE  /\ Chain(path, leaf).is = "obj"
         /\ Found(Chain(path, leaf), path)[Len(path)] = leaf
         /\ \A i \in 0..(Len(path) - 1) : Found(Chain(path, leaf), path)[i].is = "obj"
<1> DEFINE n == Len(path)
           c == [i \in 0..(n - 1) |-> Obj(<<>>)]
           up == Built(c, path, leaf)
           at == Found(up[n], path)
<1>1. n \in Nat /\ n # 0 /\ Chain(path, leaf) = up[n]
  BY DEF Chain
<1>2. \A i \in 0..(n - 1) : c[i].is = "obj"
  BY DEF Obj
<1>3. \A i \in 1..n : i - 1 \in 0..(n - 1)
  BY <1>1
<1>4. Walkable(c, path)
  BY <1>2, <1>3 DEF Walkable, Takes
<1>5. \A i \in 0..n : at[i] = up[n - i]
  BY <1>4, FoundInBuilt
<1>6. up[0] = leaf /\ \A k \in 1..n : up[k] = SetPart(c[n - k], path[n - k + 1], up[k - 1])
  <2> HIDE DEF c
  <2> QED
    BY BuiltIs
<1> HIDE DEF n, c, up, at
<1>7. ASSUME NEW k \in 1..n PROVE up[k].is = "obj"
  <2>1. n - k \in 0..(n - 1)
    BY <1>1
  <2> QED
    BY <1>2, <1>6, <2>1, SetPartIs DEF Takes
<1>8. at[n] = leaf
  <2>1. n \in 0..n /\ n - n = 0
    BY <1>1
  <2> QED
    BY <1>5, <1>6, <2>1
<1>9. \A i \in 0..(n - 1) : at[i].is = "obj"
  <2>1. \A i \in 0..(n - 1) : i \in 0..n /\ n - i \in 1..n
    BY <1>1
  <2> QED
    BY <1>5, <1>7, <2>1
<1>10. up[n].is = "obj"
  <2>1. n \in 1..n
    BY <1>1
  <2> QED
    BY <1>7, <2>1
<1> QED
  BY <1>1, <1>8, <1>9, <1>10 DEF at, n

\* Such a document takes a patch at that path, and is another one after it.
LEMMA ChainPatched ==
  ASSUME NEW path \in Seq(STRING), path # <<>>, NEW leaf, NEW value, value # leaf
  PROVE  /\ Patched(Chain(path, leaf), path, value) # Unwalkable
         /\ Patched(Chain(path, leaf), path, value) # Chain(path, leaf)
<1> DEFINE n == Len(path)
           doc == Chain(path, leaf)
           cur == Cursors(doc, path)
           up == Built(cur, path, value)
           old == Found(doc, path)
           new == Patched(doc, path, value)
<1>1. n \in Nat /\ n # 0
  OBVIOUS
<1>2. old[n] = leaf /\ \A i \in 0..(n - 1) : old[i].is = "obj"
  BY ChainIs
<1>3. \A i \in 0..(n - 1) :
        cur[i] = old[i] \/ (~Container(old[i]) /\ cur[i] \in {Obj(<<>>), Arr(<<>>)})
  BY CursorsFollow
<1>4. new = IF Walkable(cur, path) THEN up[n] ELSE Unwalkable
  BY DEF Patched
<1>5. \A k \in 1..n : up[k] = SetPart(cur[n - k], path[n - k + 1], up[k - 1])
  BY BuiltIs
<1>6. new # Unwalkable => Found(new, path)[n] = value
  BY PatchedIs
<1>7. Walkable(cur, path) <=> \A i \in 1..n : Takes(cur[i - 1], path[i])
  BY DEF Walkable
<1> HIDE DEF n, cur, up, old, new
<1>8. \A i \in 0..(n - 1) : cur[i].is = "obj"
  BY <1>2, <1>3 DEF Container
<1>9. Walkable(cur, path)
  <2>1. \A i \in 1..n : i - 1 \in 0..(n - 1)
    BY <1>1
  <2> QED
    BY <1>7, <1>8, <2>1 DEF Takes
<1>10. new.is = "obj"
  <2>1. n \in 1..n /\ n - n = 0 /\ 0 \in 0..(n - 1)
    BY <1>1
  <2> QED
    BY <1>4, <1>5, <1>8, <1>9, <2>1, SetPartIs DEF Takes
<1>11. new # Unwalkable
  BY <1>10 DEF Unwalkable
<1>12. new # doc
  BY <1>2, <1>6, <1>11 DEF old
<1> QED
  BY <1>11, <1>12 DEF new

-------------------------------------------------------------------------------
(* The hook.                                                                *)

LEMMA AcceptedRule ==
  ASSUME NEW r \in AcceptedRules
  PROVE  /\ r.kind \in Kinds /\ r.side \in Sides /\ r.side \in SidesOf(r.kind)
         /\ ValidStatus(r) /\ r.arg \in ArgsOf(r.kind)
         /\ Unbounded(r) \/ r.kind \in {"tag", "comment"}
BY DEF AcceptedRules

\* The headers of an accepted mock are a dict, if it has any.
LEMMA MockHeaders ==
  ASSUME NEW r \in AcceptedRules, r.kind = "mock"
  PROVE  r.arg.names # NoDict
<1>1. r.arg \in ArgsOf("mock")
  BY AcceptedRule
<1>2. r.arg.names \subseteq HeaderNames \/ r.arg.names = NoNames
  BY <1>1 DEF ArgsOf
<1>3. "no dict" \notin HeaderNames /\ "no dict" \notin NoNames
  BY DEF HeaderNames, NoNames, None
<1> QED
  BY <1>2, <1>3 DEF NoDict

\* An accepted rule that does not count leaves the message; one that does keeps its
\* fields, and a patch that counts has set what the walk sets.
LEMMA EffectIs ==
  ASSUME NEW r \in AcceptedRules, NEW m, NEW t
  PROVE  LET effect == Effect(r, m, t) IN
         /\ ~effect.hit => effect.msg = m
         /\ DOMAIN effect.msg = DOMAIN m
         /\ r.kind = "patch_field" /\ effect.hit /\ "body" \in DOMAIN m =>
              LET text == effect.msg.body.payload IN
              text # Unwalkable /\ text = Patched(m.body.payload, r.arg.path, r.arg.value)
<1> DEFINE Fine(e) == (~e.hit => e.msg = m) /\ DOMAIN e.msg = DOMAIN m
           effect == Effect(r, m, t)
<1>1. Fine(Untouched(m, t))
  BY DEF Untouched
<1>2. ASSUME NEW new, NEW u, DOMAIN new = DOMAIN m PROVE Fine(Becomes(new, u))
  BY <1>2 DEF Becomes
<1>3. \A name, value : DOMAIN SetHeader(m, name, value) = DOMAIN m
  BY DEF SetHeader
<1>4. Fine(RegexReplaceBody(r, m, t))
  <2>1. \A b : DOMAIN [m EXCEPT !.body = b] = DOMAIN m
    OBVIOUS
  <2> HIDE DEF Fine
  <2> QED
    BY <1>1, <1>2, <2>1 DEF RegexReplaceBody
<1>5. Fine(PatchMultipartPart(r, m, t))
  <2> DEFINE named == {i \in DOMAIN m.body.parts : m.body.parts[i].name = r.arg.name}
             first == CHOOSE i \in named : \A j \in named : i <= j
             new == [m EXCEPT !.body.parts[first] = Part(r.arg.name, "replaced")]
  <2>1. DOMAIN new = DOMAIN m
    OBVIOUS
  <2>2. PatchMultipartPart(r, m, t) \in {Becomes(new, t), Untouched(m, t)}
    BY DEF PatchMultipartPart
  <2> HIDE DEF new, Fine
  <2> QED
    BY <1>1, <1>2, <2>1, <2>2
<1>6. r.kind = "mock" => Fine(Mock(r, m, t))
  <2> DEFINE named == IF r.arg.names = NoNames THEN {} ELSE r.arg.names
             coded == IF r.arg.code = NoBound THEN m ELSE [m EXCEPT !.code = r.arg.code]
             headed == [coded EXCEPT !.headers =
                          [n \in DOMAIN @ \cup named |-> IF n \in named THEN "set" ELSE @[n]]]
             new == IF r.arg.body = NotGiven THEN headed
                    ELSE [headed EXCEPT !.body = Text(r.arg.body.doc)]
  <2>1. DOMAIN coded = DOMAIN m
    OBVIOUS
  <2>2. DOMAIN headed = DOMAIN coded
    OBVIOUS
  <2>3. DOMAIN new = DOMAIN headed
    OBVIOUS
  <2>4. r.kind = "mock" => Mock(r, m, t) \in {Becomes(new, t), Untouched(m, t)}
    BY MockHeaders DEF Mock, Raised, Untouched
  <2> HIDE DEF named, coded, headed, new, Fine
  <2> QED
    BY <1>1, <1>2, <2>1, <2>2, <2>3, <2>4
<1> DEFINE patched == Patched(m.body.payload, r.arg.path, r.arg.value)
           text == [m EXCEPT !.body = Text(patched)]
<1>7. /\ DOMAIN text = DOMAIN m
      /\ "body" \in DOMAIN m => text.body.payload = patched
  BY DEF Text
<1>8. \/ PatchJsonBody(r, m, t) = Untouched(m, t)
      \/ PatchJsonBody(r, m, t) = Becomes(text, t) /\ patched # Unwalkable
  BY DEF PatchJsonBody
<1>9. \A a : DOMAIN [m EXCEPT !.note = a] = DOMAIN m /\ DOMAIN [m EXCEPT !.body = a] = DOMAIN m
  OBVIOUS
<1>10. r.kind = "patch_field" => effect = PatchJsonBody(r, m, t)
  BY DEF Effect
<1> HIDE DEF patched, text, Fine
<1>11. Fine(PatchJsonBody(r, m, t))
  BY <1>1, <1>2, <1>7, <1>8
<1>12. Fine(effect)
  <2>1. \A new, u : DOMAIN new = DOMAIN m => Fine(Becomes(new, u))
    BY <1>2
  <2>2. \/ effect \in {Untouched(m, t), RegexReplaceBody(r, m, t), PatchMultipartPart(r, m, t),
                       PatchJsonBody(r, m, t)}
        \/ r.kind = "mock" /\ effect = Mock(r, m, t)
        \/ \E new, u : DOMAIN new = DOMAIN m /\ effect = Becomes(new, u)
    BY <1>3, <1>9 DEF Effect
  <2> QED
    BY <1>1, <1>4, <1>5, <1>6, <1>11, <2>1, <2>2
<1>13. r.kind = "patch_field" /\ effect.hit /\ "body" \in DOMAIN m =>
         effect.msg.body.payload # Unwalkable /\ effect.msg.body.payload = patched
  BY <1>7, <1>8, <1>10 DEF Becomes, Untouched
<1> QED
  BY <1>12, <1>13 DEF Fine, patched

-------------------------------------------------------------------------------
(* What the tools accept.                                                   *)

\* A rule with no status bounds is accepted if its side, its pattern and its argument are.
LEMMA PlainRule ==
  ASSUME NEW kind \in Kinds, NEW side \in SidesOf(kind), NEW p \in Patterns \cup {NoPattern},
         Compiles(p), NEW arg \in ArgsOf(kind)
  PROVE  Rule(kind, side, p, arg) \in AcceptedRules
<1> DEFINE r == Rule(kind, side, p, arg)
           status == [min : Bounds \cup {NoBound}, max : Bounds \cup {NoBound}]
<1>1. r = [kind |-> kind, side |-> side, path |-> p, status |-> AnyStatus, arg |-> arg, over |-> FALSE]
  BY DEF Rule
<1>2. side \in Sides
  BY DEF SidesOf, Sides
<1>3. AnyStatus \in status
  BY DEF AnyStatus
<1>4. arg \in UNION {ArgsOf(k) : k \in Kinds}
  OBVIOUS
<1>5. AnyStatus.min = NoBound /\ AnyStatus.max = NoBound
  BY DEF AnyStatus
<1> HIDE DEF r
<1>6. Unbounded(r) /\ ValidStatus(r)
  BY <1>1, <1>5 DEF Unbounded, ValidStatus
<1> HIDE DEF status
<1>7. r \in [kind : Kinds, side : Sides, path : Patterns \cup {NoPattern}, status : status,
             arg : UNION {ArgsOf(k) : k \in Kinds}, over : BOOLEAN]
  BY <1>1, <1>2, <1>3, <1>4
<1> QED
  BY <1>1, <1>6, <1>7 DEF AcceptedRules, r, status

\* What is accepted does not depend on the size.
LEMMA SizesAccepted ==
  ASSUME NEW r \in AcceptedRules, NEW q \in Sizes(r)
  PROVE  q \in AcceptedRules
<1>1. PICK over \in {FALSE, MayBeOver(r)} : q = [r EXCEPT !.over = over]
  BY DEF Sizes
<1>2. MayBeOver(r) \in BOOLEAN
  BY DEF MayBeOver
<1>3. over \in BOOLEAN
  BY <1>1, <1>2
<1>4. /\ r \in [kind : Kinds, side : Sides, path : Patterns \cup {NoPattern},
               status : [min : Bounds \cup {NoBound}, max : Bounds \cup {NoBound}],
               arg : UNION {ArgsOf(kind) : kind \in Kinds}, over : BOOLEAN]
      /\ Compiles(r.path) /\ r.arg \in ArgsOf(r.kind)
  BY DEF AcceptedRules
<1>5. /\ q.kind = r.kind /\ q.side = r.side /\ q.path = r.path /\ q.status = r.status
      /\ q.arg = r.arg /\ q.over = over
  BY <1>1, <1>4
<1>6. q \in [kind : Kinds, side : Sides, path : Patterns \cup {NoPattern},
            status : [min : Bounds \cup {NoBound}, max : Bounds \cup {NoBound}],
            arg : UNION {ArgsOf(kind) : kind \in Kinds}, over : BOOLEAN]
  BY <1>1, <1>3, <1>4
<1>7. MayBeOver(q) <=> MayBeOver(r)
  BY <1>5 DEF MayBeOver
<1>8. q.over => MayBeOver(q)
  BY <1>1, <1>5, <1>7
<1>9. /\ q.side \in SidesOf(q.kind) /\ ValidStatus(q) /\ Compiles(q.path) /\ q.arg \in ArgsOf(q.kind)
      /\ Unbounded(q) \/ q.kind \in {"tag", "comment"}
  BY <1>4, <1>5, AcceptedRule DEF ValidStatus, Unbounded
<1> QED
  BY <1>6, <1>8, <1>9 DEF AcceptedRules

\* There is a message that a rule with these arguments changes, or whose token it stores.
Applies(r, m) ==
  /\ m.side = r.side /\ WithinBounds(r, m.code)
  /\ \E t \in {None, "secret"} :
       LET effect == Effect(r, m, t) IN effect.hit /\ (effect.msg # m \/ effect.token # t)

LEMMA MadeIs ==
  ASSUME NEW r, NEW code, NEW headers, NEW body
  PROVE  LET m == Made(r, code, headers, body) IN
         /\ m.side = r.side /\ m.code = code /\ m.headers = headers /\ m.body = body
         /\ m.note = None
         /\ DOMAIN m = {"side", "path", "code", "headers", "body", "note"}
         /\ Unbounded(r) => WithinBounds(r, m.code)
BY DEF Made, WithinBounds, Unbounded, AnyStatus

LEMMA AnnotationApplies ==
  ASSUME NEW r \in AcceptedRules, r.kind \in {"tag", "comment"}
  PROVE  Applies(r, Fitting(r))
<1> DEFINE m == Made(r, CodeFor(r), <<>>, Binary)
<1>1. Fitting(r) = m
  BY DEF Fitting
<1>2. r.arg = "red" /\ ValidStatus(r)
  BY AcceptedRule DEF ArgsOf
<1>3. m.side = r.side /\ m.code = CodeFor(r) /\ m.note = None /\ "note" \in DOMAIN m
  BY MadeIs
<1>4. WithinBounds(r, CodeFor(r))
  BY <1>2 DEF ValidStatus, WithinBounds, CodeFor, NoBound
<1> HIDE DEF m
<1> DEFINE new == [m EXCEPT !.note = r.arg]
<1>5. Effect(r, m, None) = Becomes(new, None)
  BY DEF Effect
<1>6. new.note = "red"
  BY <1>2, <1>3
<1>7. new # m
  BY <1>3, <1>6 DEF None
<1> HIDE DEF new
<1> QED
  BY <1>1, <1>3, <1>4, <1>5, <1>7 DEF Applies, Becomes

LEMMA EmptyDomain == DOMAIN <<>> = {}
BY SMT

\* What SetHeader gives to a message without headers is another message.
LEMMA HeaderIsSet ==
  ASSUME NEW r, NEW code, NEW body, NEW name, name # "", NEW value
  PROVE  SetHeader(Made(r, code, <<>>, body), name, value) # Made(r, code, <<>>, body)
<1> DEFINE m == Made(r, code, <<>>, body)
           new == SetHeader(m, name, value)
<1>1. m.headers = <<>> /\ "headers" \in DOMAIN m
  BY DEF Made
<1> HIDE DEF m
<1>2. new = [m EXCEPT !.headers = [n \in DOMAIN @ \cup {name} |-> IF n = name THEN value ELSE @[n]]]
  BY DEF SetHeader
<1>3. name \in DOMAIN new.headers
  BY <1>1, <1>2
<1>4. name \notin DOMAIN m.headers
  BY <1>1, EmptyDomain
<1> HIDE DEF new
<1>5. new # m
  BY <1>3, <1>4
<1> QED
  BY <1>5 DEF m, new

LEMMA HeaderApplies ==
  ASSUME NEW r \in AcceptedRules, r.kind \in {"inject_header", "relay_inject"}
  PROVE  Applies(r, Fitting(r))
<1> DEFINE m == Made(r, CodeFor(r), <<>>, Binary)
<1>1. Fitting(r) = m
  BY DEF Fitting
<1>2. r.arg.name # ""
  BY AcceptedRule DEF ArgsOf, HeaderAccepted
<1>3. m.side = r.side /\ WithinBounds(r, m.code)
  BY MadeIs, AcceptedRule
<1>4. \A value : SetHeader(m, r.arg.name, value) # m
  BY <1>2, HeaderIsSet
<1> HIDE DEF m
<1>5. CASE r.kind = "inject_header"
  <2>1. Effect(r, m, None) = Becomes(SetHeader(m, r.arg.name, r.arg.value), None)
    BY <1>5 DEF Effect
  <2> QED
    BY <1>1, <1>3, <1>4, <2>1 DEF Applies, Becomes
<1>6. CASE r.kind = "relay_inject"
  <2>1. Effect(r, m, "secret") = Becomes(SetHeader(m, r.arg.name, "secret"), "secret")
    BY <1>6 DEF Effect, None
  <2> QED
    BY <1>1, <1>3, <1>4, <2>1 DEF Applies, Becomes
<1> QED
  BY <1>5, <1>6

\* A message without a text becomes another one when it is given one.
LEMMA TextIsSet ==
  ASSUME NEW m, "body" \in DOMAIN m, m.body = Binary, NEW doc
  PROVE  [m EXCEPT !.body = Text(doc)] # m
<1>1. [m EXCEPT !.body = Text(doc)].body = Text(doc)
  OBVIOUS
<1>2. Text(doc).type = "text" /\ Binary.type = "binary"
  BY DEF Text, Binary
<1> QED
  BY <1>1, <1>2

LEMMA BodyApplies ==
  ASSUME NEW r \in AcceptedRules, r.kind = "replace_body"
  PROVE  Applies(r, Fitting(r))
<1> DEFINE m == Made(r, CodeFor(r), <<>>, Binary)
<1>1. Fitting(r) = m
  BY DEF Fitting
<1>2. m.side = r.side /\ WithinBounds(r, m.code) /\ "body" \in DOMAIN m /\ m.body = Binary
  BY MadeIs, AcceptedRule
<1> HIDE DEF m
<1>3. Effect(r, m, None) = Becomes([m EXCEPT !.body = Text(r.arg.doc)], None)
  BY DEF Effect
<1> QED
  BY <1>1, <1>2, <1>3, TextIsSet DEF Applies, Becomes

LEMMA MockApplies ==
  ASSUME NEW r \in AcceptedRules, r.kind = "mock"
  PROVE  Applies(r, Fitting(r))
<1> DEFINE code == IF r.arg.code = 100 THEN 200 ELSE 100
           m == Made(r, code, <<>>, Binary)
           named == IF r.arg.names = NoNames THEN {} ELSE r.arg.names
           coded == IF r.arg.code = NoBound THEN m ELSE [m EXCEPT !.code = r.arg.code]
           headed == [coded EXCEPT !.headers =
                        [n \in DOMAIN @ \cup named |-> IF n \in named THEN "set" ELSE @[n]]]
           new == IF r.arg.body = NotGiven THEN headed
                  ELSE [headed EXCEPT !.body = Text(r.arg.body.doc)]
<1>1. Fitting(r) = m
  BY DEF Fitting
<1>2. /\ StatusAccepted(r.arg.code) /\ r.arg.names \notin {{}, NoDict}
      /\ r.arg.code # NoBound \/ r.arg.body # NotGiven \/ r.arg.names # NoNames
  BY AcceptedRule, MockHeaders DEF ArgsOf
<1>3. /\ m.side = r.side /\ WithinBounds(r, m.code) /\ m.code = code /\ m.headers = <<>>
      /\ m.body = Binary /\ {"code", "headers", "body"} \subseteq DOMAIN m
  BY MadeIs, AcceptedRule
<1> HIDE DEF m
<1>4. Mock(r, m, None) = Becomes(new, None)
  BY <1>2 DEF Mock, StatusAccepted
<1>5. Effect(r, m, None) = Mock(r, m, None)
  BY DEF Effect
<1>6. /\ coded.code = IF r.arg.code = NoBound THEN code ELSE r.arg.code
      /\ coded.headers = <<>> /\ coded.body = Binary /\ DOMAIN coded = DOMAIN m
  BY <1>3
<1> HIDE DEF coded
<1>7. /\ headed.code = coded.code /\ DOMAIN headed.headers = named
      /\ headed.body = Binary /\ DOMAIN headed = DOMAIN m
  BY <1>3, <1>6
<1> HIDE DEF headed
<1>8. /\ new.code = coded.code /\ DOMAIN new.headers = named
      /\ r.arg.body # NotGiven => new.body = Text(r.arg.body.doc)
  BY <1>3, <1>7
<1> HIDE DEF new
<1>9. new # m
  <2>1. CASE r.arg.code # NoBound
    BY <1>3, <1>6, <1>8, <2>1
  <2>2. CASE r.arg.body # NotGiven
    <3>1. new.body.type # m.body.type
      BY <1>3, <1>8, <2>2 DEF Text, Binary
    <3> QED
      BY <3>1
  <2>3. CASE r.arg.names # NoNames
    <3>1. DOMAIN new.headers # {} /\ DOMAIN <<>> = {}
      BY <1>2, <1>8, <2>3
    <3> QED
      BY <1>3, <3>1
  <2> QED
    BY <1>2, <2>1, <2>2, <2>3
<1> QED
  BY <1>1, <1>3, <1>4, <1>5, <1>9 DEF Applies, Becomes

\* The paths of accepted rules.
LEMMA PathOfRule ==
  ASSUME NEW r \in AcceptedRules,
         r.kind = "patch_field" \/ (r.kind = "relay_extract" /\ r.arg.loc # "header")
  PROVE  r.arg.path \in Seq(STRING) /\ r.arg.path # <<>>
<1>1. r.arg \in ArgsOf(r.kind)
  BY AcceptedRule
<1>2. r.arg.path \in FieldPaths \ {<<>>}
  <2>1. CASE r.kind = "patch_field"
    BY <1>1, <2>1 DEF ArgsOf
  <2>2. CASE r.kind = "relay_extract" /\ r.arg.loc # "header"
    <3>1. r.arg # [loc |-> "header", path |-> <<"x-token">>]
      BY <2>2
    <3>2. r.arg \in [loc : {"json_body"}, path : FieldPaths \ {<<>>}]
      BY <1>1, <2>2, <3>1 DEF ArgsOf
    <3> QED
      BY <3>2
  <2> QED
    BY <2>1, <2>2
<1> QED
  BY <1>2, ToolsAssumption

LEMMA PatchApplies ==
  ASSUME NEW r \in AcceptedRules, r.kind = "patch_field"
  PROVE  Applies(r, Fitting(r))
<1> DEFINE path == r.arg.path
           value == r.arg.value
           leaf == IF value = Null THEN Str("") ELSE Null
           doc == Chain(path, leaf)
           m == Made(r, 100, <<>>, Text(doc))
           patched == Patched(doc, path, value)
           new == [m EXCEPT !.body = Text(patched)]
<1>1. Fitting(r) = m
  BY DEF Fitting
<1>2. path \in Seq(STRING) /\ path # <<>>
  BY PathOfRule
<1>3. leaf # value
  <2>1. Str("") # Null
    BY DEF Null, Str
  <2> QED
    BY <2>1
<1>4. m.side = r.side /\ WithinBounds(r, m.code) /\ "body" \in DOMAIN m /\ m.body = Text(doc)
  <2> HIDE DEF doc
  <2> QED
    BY MadeIs, AcceptedRule
<1> HIDE DEF path, value, leaf, m
<1>5. doc.is = "obj"
  BY <1>2, ChainIs
<1>6. patched # Unwalkable /\ patched # doc
  BY <1>2, <1>3, ChainPatched
<1> HIDE DEF doc, patched
<1>7. m.body.type = "text" /\ m.body.payload = doc /\ Container(doc)
  BY <1>4, <1>5 DEF Text, Container
<1>8. PatchJsonBody(r, m, None) = Becomes(new, None)
  BY <1>6, <1>7 DEF PatchJsonBody, patched, path, value
<1>9. Effect(r, m, None) = PatchJsonBody(r, m, None)
  BY DEF Effect
<1>10. new.body.payload = patched
  BY <1>4 DEF Text
<1>11. new # m
  BY <1>6, <1>7, <1>10
<1> HIDE DEF new
<1> QED
  BY <1>1, <1>4, <1>8, <1>9, <1>11 DEF Applies, Becomes

LEMMA ExtractApplies ==
  ASSUME NEW r \in AcceptedRules, r.kind = "relay_extract"
  PROVE  Applies(r, Fitting(r))
<1> DEFINE path == r.arg.path
           m == Fitting(r)
<1>1. m.side = r.side /\ WithinBounds(r, m.code) /\ TokenIn(r, m) = "secret"
  <2>1. CASE r.arg.loc = "header"
    <3> DEFINE h == [n \in {path[1]} |-> "secret"]
    <3>1. m = Made(r, 100, h, Binary)
      BY <2>1 DEF Fitting
    <3> HIDE DEF m
    <3>2. m.side = r.side /\ WithinBounds(r, m.code) /\ m.headers = h
      BY <3>1, MadeIs, AcceptedRule
    <3> QED
      BY <2>1, <3>2 DEF TokenIn
  <2>2. CASE r.arg.loc # "header"
    <3> DEFINE doc == Chain(path, Str("secret"))
    <3>1. m = Made(r, 100, <<>>, Text(doc))
      BY <2>2 DEF Fitting
    <3>2. path \in Seq(STRING) /\ path # <<>>
      BY <2>2, PathOfRule
    <3> HIDE DEF m
    <3>3. m.side = r.side /\ WithinBounds(r, m.code) /\ m.body = Text(doc)
      BY <3>1, MadeIs, AcceptedRule
    <3> HIDE DEF path
    <3>4. doc.is = "obj" /\ Found(doc, path)[Len(path)] = Str("secret")
      BY <3>2, ChainIs
    <3> HIDE DEF doc
    <3>5. Extracted(doc, path) = Str("secret")
      BY <3>4 DEF Extracted, Str
    <3>6. m.body.type = "text" /\ m.body.payload = doc /\ Container(doc)
      BY <3>3, <3>4 DEF Text, Container
    <3>7. Str("secret") # Null /\ Str("secret").value = "secret"
      BY DEF Str, Null
    <3> QED
      BY <2>2, <3>3, <3>5, <3>6, <3>7 DEF TokenIn, path
  <2> QED
    BY <2>1, <2>2
<1> HIDE DEF m
<1>2. Effect(r, m, None) = Becomes(m, "secret")
  BY <1>1 DEF Effect, None
<1>3. "secret" # None
  BY DEF None
<1> QED
  BY <1>1, <1>2, <1>3 DEF Applies, Becomes, m

LEMMA RegexApplies ==
  ASSUME NEW r \in AcceptedRules, r.kind = "regex_replace", Changes(r.arg) # {}
  PROVE  Applies(r, Fitting(r))
<1> DEFINE text == CHOOSE d \in Changes(r.arg) : TRUE
           m == Made(r, 100, <<>>, Text(text))
           new == [m EXCEPT !.body = Text(SubPattern[r.arg][text])]
<1>1. Fitting(r) = m
  BY DEF Fitting
<1>2. text \in DOMAIN SubPattern[r.arg] /\ SubPattern[r.arg][text] # text
  <2>1. text \in Changes(r.arg)
    OBVIOUS
  <2> QED
    BY <2>1 DEF Changes
<1> HIDE DEF text
<1>3. m.side = r.side /\ WithinBounds(r, m.code) /\ "body" \in DOMAIN m /\ m.body = Text(text)
  BY MadeIs, AcceptedRule
<1> HIDE DEF m
<1>4. m.body.type = "text" /\ m.body.payload = text
  BY <1>3 DEF Text
<1>5. Effect(r, m, None) = Becomes(new, None)
  BY <1>2, <1>4 DEF Effect, RegexReplaceBody
<1>6. new.body.payload = SubPattern[r.arg][text]
  BY <1>3 DEF Text
<1>7. new # m
  BY <1>2, <1>4, <1>6
<1> HIDE DEF new
<1> QED
  BY <1>1, <1>3, <1>5, <1>7 DEF Applies, Becomes

LEMMA MultipartApplies ==
  ASSUME NEW r \in AcceptedRules, r.kind = "patch_multipart", ~FileGone(r)
  PROVE  Applies(r, Fitting(r))
<1> DEFINE name == r.arg.name
           parts == <<Part(name, "own")>>
           m == Made(r, 100, <<>>, Multipart(parts))
           named == {i \in DOMAIN m.body.parts : m.body.parts[i].name = name}
           first == CHOOSE i \in named : \A j \in named : i <= j
           new == [m EXCEPT !.body.parts[first] = Part(name, "replaced")]
<1>1. Fitting(r) = m
  BY DEF Fitting
<1>2. /\ m.side = r.side /\ WithinBounds(r, m.code) /\ "body" \in DOMAIN m
      /\ m.body = Multipart(parts)
  BY MadeIs, AcceptedRule
<1> HIDE DEF m
<1>3. m.body.type = "multipart" /\ m.body.parts = parts /\ "parts" \in DOMAIN m.body
  BY <1>2 DEF Multipart
<1>4. DOMAIN parts = {1} /\ parts[1] = Part(name, "own")
  OBVIOUS
<1>5. Part(name, "own").name = name /\ Part(name, "own").content = "own"
  BY DEF Part
<1> HIDE DEF parts
<1>6. named = {1}
  BY <1>3, <1>4, <1>5
<1>7. first = 1
  <2> HIDE DEF named
  <2> QED
    BY <1>6
<1>8. Effect(r, m, None) = Becomes(new, None)
  <2>1. Effect(r, m, None) = PatchMultipartPart(r, m, None)
    BY DEF Effect
  <2> QED
    BY <1>3, <1>6, <2>1 DEF PatchMultipartPart
<1> HIDE DEF named, first
<1>9. new.body.parts[1] = Part(name, "replaced")
  BY <1>2, <1>3, <1>4, <1>7
<1>10. Part(name, "replaced").content = "replaced"
  BY DEF Part
<1>11. m.body.parts[1].content = "own"
  BY <1>3, <1>4, <1>5
<1>12. new # m
  BY <1>9, <1>10, <1>11
<1> HIDE DEF new
<1> QED
  BY <1>1, <1>2, <1>8, <1>12 DEF Applies, Becomes

LEMMA RuleApplies ==
  ASSUME NEW r \in AcceptedRules, r.kind # "block", ~Vain(r)
  PROVE  Applies(r, Fitting(r))
<1>1. r.kind = "regex_replace" => Changes(r.arg) # {}
  BY DEF Vain
<1>2. ~FileGone(r)
  BY DEF Vain
<1> QED
  BY <1>1, <1>2, AcceptedRule, AnnotationApplies, HeaderApplies, BodyApplies, MockApplies,
     PatchApplies, ExtractApplies, RegexApplies, MultipartApplies DEF Kinds

-------------------------------------------------------------------------------
(* Theorems.                                                                *)

\* Each tool installs accepted rules, or none.
LEMMA InstallsType ==
  ASSUME ToolsTypeOK, NEW accepted, NEW r, NEW ttl, Installs(accepted, r, ttl),
         accepted /\ EngineAccepts(r, ttl) => r \in AcceptedRules
  PROVE  /\ ToolsTypeOK' /\ UNCHANGED <<msg, todo, last>>
<1>1. CASE rules' = rules
  BY <1>1 DEF Installs, ToolsTypeOK
<1>2. ASSUME r \in AcceptedRules, NEW q \in Sizes(r), rules' = Append(rules, q)
      PROVE  ToolsTypeOK' /\ UNCHANGED <<msg, todo, last>>
  <2>1. q \in AcceptedRules
    BY <1>2, SizesAccepted
  <2>2. rules' \in Seq(AcceptedRules) /\ DOMAIN rules \subseteq DOMAIN rules'
    BY <1>2, <2>1 DEF ToolsTypeOK
  <2>3. reply' \in {None, "rule_id", "error"}
    BY DEF Installs
  <2> QED
    BY <2>2, <2>3 DEF Installs, ToolsTypeOK
<1> QED
  BY <1>1, <1>2 DEF Installs

LEMMA PlainInstall ==
  ASSUME ToolsTypeOK, NEW kind \in Kinds, NEW side, NEW p \in Patterns \cup {NoPattern},
         NEW arg, NEW ttl, NEW accepted, accepted => arg \in ArgsOf(kind),
         Installs(accepted, Rule(kind, side, p, arg), ttl)
  PROVE  ToolsTypeOK' /\ UNCHANGED <<msg, todo, last>>
<1> DEFINE r == Rule(kind, side, p, arg)
<1>1. r.kind = kind /\ r.side = side /\ r.path = p
  BY DEF Rule
<1>2. accepted /\ EngineAccepts(r, ttl) => r \in AcceptedRules
  BY <1>1, PlainRule DEF EngineAccepts
<1> HIDE DEF r
<1> QED
  BY <1>2, InstallsType DEF r

LEMMA AnnotateType ==
  ASSUME ToolsTypeOK, NEW kind \in {"tag", "comment"}, Annotate(kind)
  PROVE  ToolsTypeOK' /\ UNCHANGED <<msg, todo, last>>
<1>1. PICK note \in {"red", "purple"}, low \in Bounds, high \in Bounds, ttl \in Ttls, p \in Patterns :
        Installs(note = "red",
                 [Rule(kind, SideFor([min |-> low, max |-> high]), p, note)
                    EXCEPT !.status = [min |-> low, max |-> high]], ttl)
  BY DEF Annotate
<1> DEFINE bounds == [min |-> low, max |-> high]
           side == SideFor(bounds)
           r == [Rule(kind, side, p, note) EXCEPT !.status = bounds]
<1>2. /\ r.kind = kind /\ r.side = side /\ r.path = p /\ r.status = bounds /\ r.arg = note
      /\ ~r.over
  BY DEF Rule
<1>3. ASSUME note = "red", EngineAccepts(r, ttl) PROVE r \in AcceptedRules
  <2> DEFINE statuses == [min : Bounds \cup {NoBound}, max : Bounds \cup {NoBound}]
  <2>1. bounds \in statuses
    OBVIOUS
  <2>2. kind \in Kinds /\ note \in ArgsOf(kind)
    BY <1>3 DEF Kinds, ArgsOf
  <2>3. note \in UNION {ArgsOf(k) : k \in Kinds}
    BY <2>2
  <2> HIDE DEF bounds, side
  <2>4. /\ r.kind = kind /\ r.side = side /\ r.path = p /\ r.arg = note /\ r.status = bounds
        /\ side \in SidesOf(kind) /\ ValidStatus(r) /\ Compiles(p)
    BY <1>2, <1>3 DEF EngineAccepts
  <2>5. side \in Sides
    BY <2>4 DEF SidesOf, Sides
  <2> DEFINE records == [kind : Kinds, side : Sides, path : Patterns \cup {NoPattern}, status : statuses,
                         arg : UNION {ArgsOf(k) : k \in Kinds}, over : BOOLEAN]
  <2>6. AnyStatus \in statuses
    BY DEF AnyStatus
  <2> HIDE DEF statuses
  <2>7. Rule(kind, side, p, note) \in records
    BY <2>2, <2>3, <2>5, <2>6 DEF Rule
  <2>8. r \in records
    BY <2>1, <2>7
  <2> HIDE DEF r, records
  <2> QED
    BY <1>2, <2>2, <2>4, <2>8 DEF AcceptedRules, records, statuses
<1>4. Installs(note = "red", r, ttl)
  BY <1>1
<1> HIDE DEF r
<1> QED
  BY <1>3, <1>4, InstallsType

\* A part has either a text or a file.
LEMMA OneOfTwo ==
  ASSUME NEW a, NEW b, NEW S, S \subseteq {a, b}, Cardinality(S) = 1
  PROVE  S \in {{a}, {b}}
<1>1. IsFiniteSet({a, b})
  <2>1. IsFiniteSet({a})
    BY FS_Singleton
  <2>2. IsFiniteSet({a} \cup {b})
    BY <2>1, FS_AddElement
  <2> QED
    BY <2>2
<1>2. IsFiniteSet(S)
  BY <1>1, FS_Subset
<1>3. PICK x : S = {x}
  BY <1>2, FS_Singleton
<1> QED
  BY <1>3

LEMMA MockType ==
  ASSUME ToolsTypeOK, MockResponse
  PROVE  ToolsTypeOK' /\ UNCHANGED <<msg, todo, last>>
<1> DEFINE ok(code, b, names) ==
             /\ StatusAccepted(code)
             /\ b # NotGiven => CoerceBody(b)
             /\ HeadersAccepted(names)
             /\ code # NoBound \/ b # NotGiven \/ names # NoNames
           arg(code, b, names) == [code |-> code, body |-> b, names |-> names]
<1>1. PICK code \in Bounds, b \in Bodies \cup {NotGiven},
           names \in {NoNames, NoDict, {}} \cup {{n} : n \in HeaderNames}, ttl \in Ttls :
        Installs(ok(code, b, names), Rule("mock", "response", NoPattern, arg(code, b, names)), ttl)
  BY DEF MockResponse
<1>2. ASSUME ok(code, b, names) PROVE arg(code, b, names) \in ArgsOf("mock")
  <2> DEFINE proper == {n \in HeaderNames : HeaderAccepted(n)}
  <2>1. names \in (SUBSET proper) \cup {NoNames}
    <3>1. names \in {NoNames, NoDict} \/ names \subseteq HeaderNames
      OBVIOUS
    <3> QED
      BY <1>2, <3>1 DEF HeadersAccepted
  <2>2. names # {}
    BY <1>2 DEF HeadersAccepted, NoNames
  <2> HIDE DEF proper
  <2> QED
    BY <1>2, <2>1, <2>2 DEF ArgsOf, proper
<1>3. "mock" \in Kinds
  BY DEF Kinds
<1> HIDE DEF ok, arg
<1> QED
  BY <1>1, <1>2, <1>3, PlainInstall

LEMMA RelayPairType ==
  ASSUME ToolsTypeOK, AutoTokenRelay
  PROVE  ToolsTypeOK' /\ UNCHANGED <<msg, todo, last>>
<1> DEFINE extract(from, p) == Rule("relay_extract", "response", p, from)
           inject(name) == Rule("relay_inject", "request", NoPattern, [name |-> name])
           froms == {[loc |-> "header", path |-> <<"x-token">>]} \cup
                    {[loc |-> "json_body", path |-> path] : path \in FieldPaths}
<1>1. PICK from \in froms, name \in HeaderNames, p \in Patterns :
        \/ /\ from.path # <<>> /\ HeaderAccepted(name) /\ Compiles(p)
           /\ \E e \in Sizes(extract(from, p)), i \in Sizes(inject(name)) :
                rules' = rules \o <<e, i>> /\ reply' = "rule_id"
        \/ rules' = rules /\ reply' = "error"
  BY DEF AutoTokenRelay
<1>2. UNCHANGED <<file, msg, todo, token, last>>
  BY DEF AutoTokenRelay
<1>3. CASE rules' = rules /\ reply' = "error"
  BY <1>2, <1>3 DEF ToolsTypeOK
<1>4. CASE /\ from.path # <<>> /\ HeaderAccepted(name) /\ Compiles(p)
           /\ \E e \in Sizes(extract(from, p)), i \in Sizes(inject(name)) :
                rules' = rules \o <<e, i>> /\ reply' = "rule_id"
  <2>1. from \in ArgsOf("relay_extract")
    BY <1>4 DEF ArgsOf
  <2>2. [name |-> name] \in ArgsOf("relay_inject")
    BY <1>4 DEF ArgsOf
  <2>3. /\ {"relay_extract", "relay_inject"} \subseteq Kinds
        /\ "response" \in SidesOf("relay_extract") /\ "request" \in SidesOf("relay_inject")
        /\ Compiles(NoPattern)
    BY DEF Kinds, SidesOf, Compiles
  <2>4. extract(from, p) \in AcceptedRules /\ inject(name) \in AcceptedRules
    BY <1>4, <2>1, <2>2, <2>3, PlainRule
  <2> HIDE DEF extract, inject
  <2>5. PICK e \in Sizes(extract(from, p)), i \in Sizes(inject(name)) :
          rules' = rules \o <<e, i>> /\ reply' = "rule_id"
    BY <1>4
  <2>6. e \in AcceptedRules /\ i \in AcceptedRules
    BY <2>4, <2>5, SizesAccepted
  <2>7. rules' \in Seq(AcceptedRules) /\ DOMAIN rules \subseteq DOMAIN rules'
    BY <2>5, <2>6 DEF ToolsTypeOK
  <2> QED
    BY <1>2, <2>5, <2>7 DEF ToolsTypeOK
<1> QED
  BY <1>1, <1>2, <1>3, <1>4

Tool ==
  \/ TagPattern \/ CommentPattern \/ InjectHeader \/ ReplaceBody \/ MockResponse
  \/ BlockRequest \/ PatchBodyField \/ ReplaceBodyRegex \/ PatchMultipart \/ AutoTokenRelay

LEMMA ToolType ==
  ASSUME ToolsTypeOK, Tool
  PROVE  ToolsTypeOK' /\ UNCHANGED <<msg, todo, last>>
<1>1. /\ {"inject_header", "replace_body", "block", "patch_field", "regex_replace",
          "patch_multipart"} \subseteq Kinds
      /\ NoPattern \in Patterns \cup {NoPattern}
      /\ \A p \in Patterns : p \in Patterns \cup {NoPattern}
  BY DEF Kinds
<1>2. CASE TagPattern \/ CommentPattern
  BY <1>2, AnnotateType DEF TagPattern, CommentPattern
<1>3. CASE InjectHeader
  <2>1. PICK name \in HeaderNames, side \in Sides, ttl \in Ttls, p \in Patterns :
          Installs(HeaderAccepted(name),
                   Rule("inject_header", side, p, [name |-> name, value |-> "set"]), ttl)
    BY <1>3 DEF InjectHeader
  <2>2. HeaderAccepted(name) => [name |-> name, value |-> "set"] \in ArgsOf("inject_header")
    BY DEF ArgsOf
  <2> QED
    BY <1>1, <2>1, <2>2, PlainInstall
<1>4. CASE ReplaceBody
  <2>1. PICK b \in Bodies, side \in Sides, ttl \in Ttls, p \in Patterns :
          Installs(CoerceBody(b), Rule("replace_body", side, p, b), ttl)
    BY <1>4 DEF ReplaceBody
  <2>2. CoerceBody(b) => b \in ArgsOf("replace_body")
    BY DEF ArgsOf
  <2> QED
    BY <1>1, <2>1, <2>2, PlainInstall
<1>5. CASE BlockRequest
  <2>1. PICK filtered \in BOOLEAN, ttl \in Ttls, p \in Patterns :
          Installs((filtered \/ p \notin {NoPattern, ""}) /\ p \notin CatchAll,
                   Rule("block", "request", p, None), ttl)
    BY <1>5 DEF BlockRequest
  <2>2. None \in ArgsOf("block")
    BY DEF ArgsOf
  <2> QED
    BY <1>1, <2>1, <2>2, PlainInstall
<1>6. CASE PatchBodyField
  <2>1. PICK path \in FieldPaths, value \in Values, side \in Sides, ttl \in Ttls :
          Installs(ValidFieldPath(path),
                   Rule("patch_field", side, NoPattern, [path |-> path, value |-> value]), ttl)
    BY <1>6 DEF PatchBodyField
  <2>2. ValidFieldPath(path) => [path |-> path, value |-> value] \in ArgsOf("patch_field")
    BY DEF ArgsOf, ValidFieldPath
  <2> QED
    BY <1>1, <2>1, <2>2, PlainInstall
<1>7. CASE ReplaceBodyRegex
  <2>1. PICK p \in DOMAIN SubPattern \cup {"("}, side \in Sides, ttl \in Ttls, known \in BOOLEAN :
          Installs(known /\ p \in DOMAIN SubPattern, Rule("regex_replace", side, NoPattern, p), ttl)
    BY <1>7 DEF ReplaceBodyRegex
  <2>2. p \in DOMAIN SubPattern => p \in ArgsOf("regex_replace")
    BY DEF ArgsOf
  <2> QED
    BY <1>1, <2>1, <2>2, PlainInstall
<1>8. CASE PatchMultipart
  <2> DEFINE ok(name, with) ==
               name # "" /\ Cardinality(with) = 1 /\ ("file" \in with => file = "small")
  <2>1. PICK name \in {"", "avatar"}, with \in SUBSET {"text", "file"}, side \in Sides, ttl \in Ttls :
          Installs(ok(name, with),
                   Rule("patch_multipart", side, NoPattern, [name |-> name, with |-> with]), ttl)
    BY <1>8 DEF PatchMultipart
  <2>2. ASSUME ok(name, with)
        PROVE  [name |-> name, with |-> with] \in ArgsOf("patch_multipart")
    <3>1. "text" # "file" /\ with \subseteq {"text", "file"} /\ Cardinality(with) = 1
      BY <2>2
    <3>2. with \in {{"text"}, {"file"}}
      BY <3>1, OneOfTwo
    <3> QED
      BY <2>2, <3>2 DEF ArgsOf
  <2> HIDE DEF ok
  <2> QED
    BY <1>1, <2>1, <2>2, PlainInstall
<1> QED
  BY <1>2, <1>3, <1>4, <1>5, <1>6, <1>7, <1>8, MockType, RelayPairType DEF Tool

\* While there are rules to apply there is a message with a body.
MessageIsThere == todo # {} => "body" \in DOMAIN msg

\* What is known of the last rule.
LastIsTrue ==
  last # NoneApplied =>
    /\ last.rule \in AcceptedRules
    /\ ~last.hit => msg = last.before
    /\ last.rule.kind = "patch_field" /\ last.hit =>
         LET text == msg.body.payload IN
         /\ text # Unwalkable
         /\ text = Patched(last.before.body.payload, last.rule.arg.path, last.rule.arg.value)

ToolsInv == ToolsTypeOK /\ MessageIsThere /\ LastIsTrue

LEMMA ToolsInvInit == ToolsInit => ToolsInv
BY DEF ToolsInit, ToolsInv, ToolsTypeOK, MessageIsThere, LastIsTrue

LEMMA ApplyRuleStep ==
  ASSUME ToolsInv, ApplyRule
  PROVE  ToolsInv'
<1>1. PICK i \in todo :
        LET effect == Effect(rules[i], msg, token) IN
        /\ msg' = effect.msg /\ token' = effect.token
        /\ last' = [rule |-> rules[i], before |-> msg, hit |-> effect.hit]
        /\ todo' = todo \ {i}
  BY DEF ApplyRule
<1>2. rules[i] \in AcceptedRules /\ "body" \in DOMAIN msg
  BY DEF ToolsInv, ToolsTypeOK, MessageIsThere
<1> DEFINE r == rules[i]
           e == Effect(r, msg, token)
<1>3. /\ ~e.hit => e.msg = msg
      /\ DOMAIN e.msg = DOMAIN msg
      /\ r.kind = "patch_field" /\ e.hit =>
           /\ e.msg.body.payload # Unwalkable
           /\ e.msg.body.payload = Patched(msg.body.payload, r.arg.path, r.arg.value)
  BY <1>2, EffectIs
<1>4. msg' = e.msg /\ last' = [rule |-> r, before |-> msg, hit |-> e.hit]
  BY <1>1
<1>5. r \in AcceptedRules
  BY <1>2
<1> HIDE DEF e, r
<1>6. last'.rule = r /\ last'.before = msg /\ last'.hit = e.hit
  BY <1>4
<1>7. LastIsTrue'
  BY <1>3, <1>4, <1>5, <1>6 DEF LastIsTrue
<1>8. MessageIsThere'
  BY <1>2, <1>3, <1>4 DEF MessageIsThere
<1>9. ToolsTypeOK'
  BY <1>1 DEF ApplyRule, ToolsInv, ToolsTypeOK
<1> QED
  BY <1>7, <1>8, <1>9 DEF ToolsInv

LEMMA ToolsInvStep == ToolsInv /\ [ToolsNext]_toolVars => ToolsInv'
<1> SUFFICES ASSUME ToolsInv, [ToolsNext]_toolVars PROVE ToolsInv'
  OBVIOUS
<1>1. CASE Tool
  BY <1>1, ToolType DEF ToolsInv, MessageIsThere, LastIsTrue
<1>2. CASE ChangeFile
  BY <1>2 DEF ChangeFile, ToolsInv, ToolsTypeOK, MessageIsThere, LastIsTrue
<1>3. CASE Enter
  <2>1. PICK m \in Messages : msg' = m
    BY <1>3 DEF Enter
  <2>2. "body" \in DOMAIN m
    BY ToolsAssumption
  <2>3. ToolsTypeOK'
    BY <1>3 DEF Enter, ToolsInv, ToolsTypeOK
  <2>4. last' = NoneApplied
    BY <1>3 DEF Enter
  <2> QED
    BY <2>1, <2>2, <2>3, <2>4 DEF ToolsInv, MessageIsThere, LastIsTrue
<1>4. CASE ApplyRule
  BY <1>4, ApplyRuleStep
<1>5. CASE Leave
  BY <1>5 DEF Leave, ToolsInv, ToolsTypeOK, MessageIsThere, LastIsTrue
<1>6. CASE UNCHANGED toolVars
  BY <1>6 DEF toolVars, ToolsInv, ToolsTypeOK, MessageIsThere, LastIsTrue
<1> QED
  BY <1>1, <1>2, <1>3, <1>4, <1>5, <1>6 DEF ToolsNext, Tool

LEMMA ToolsInvHolds == ToolsSpec => []ToolsInv
BY ToolsInvInit, ToolsInvStep, PTL DEF ToolsSpec

\* Whatever a client sends, every rule installed is one with the arguments its kind
\* needs, and the hook is to apply installed rules only.
THEOREM ToolsTypeCorrect == ToolsSpec => []ToolsTypeOK
BY ToolsInvHolds, PTL DEF ToolsInv

\* The invariant NoHalfApplication: what Mock could raise on half way is nothing that
\* the tools accept.
THEOREM NoHalfApplicationHolds == ToolsSpec => []NoHalfApplication
<1>1. ToolsInv => NoHalfApplication
  BY DEF ToolsInv, LastIsTrue, NoHalfApplication
<1> QED
  BY <1>1, ToolsInvHolds, PTL

\* The invariant AcceptedCanApply: for each accepted rule that is no block, fits the
\* frame and is not vain, the message Fitting makes is one it changes.
THEOREM AcceptedCanApplyHolds == ToolsSpec => []AcceptedCanApply
<1>1. ToolsTypeOK => AcceptedCanApply
  <2> SUFFICES ASSUME ToolsTypeOK, NEW i \in DOMAIN rules,
                      rules[i].kind # "block", ~rules[i].over, ~Vain(rules[i])
               PROVE  Applies(rules[i], Fitting(rules[i]))
    BY DEF AcceptedCanApply, Applies
  <2>1. rules[i] \in AcceptedRules
    BY DEF ToolsTypeOK
  <2> QED
    BY <2>1, RuleApplies
<1> QED
  BY <1>1, ToolsTypeCorrect, PTL

\* The invariant PatchIsSurgical, for documents of any shape and paths of any length.
THEOREM PatchIsSurgicalHolds == ToolsSpec => []PatchIsSurgical
<1>1. ToolsInv => PatchIsSurgical
  <2> SUFFICES ASSUME ToolsInv, Applied("patch_field") PROVE PatchIsSurgical
    BY DEF PatchIsSurgical
  <2> DEFINE path == last.rule.arg.path
             value == last.rule.arg.value
             doc == last.before.body.payload
             new == msg.body.payload
  <2>1. /\ last.rule \in AcceptedRules /\ last.rule.kind = "patch_field"
        /\ new # Unwalkable /\ new = Patched(doc, path, value)
    BY DEF ToolsInv, LastIsTrue, Applied
  <2>2. path \in Seq(STRING)
    BY <2>1, PathOfRule
  <2>3. /\ Found(new, path)[Len(path)] = value
        /\ \A i \in 1..Len(path) :
             /\ Container(Found(doc, path)[i - 1]) =>
                  SameKind(Found(new, path)[i - 1], Found(doc, path)[i - 1])
             /\ Aside(Found(new, path)[i - 1], path[i]) = Aside(Found(doc, path)[i - 1], path[i])
    <3> HIDE DEF path, value, doc, new
    <3>1. Patched(doc, path, value) # Unwalkable
      BY <2>1
    <3>2. Found(Patched(doc, path, value), path)[Len(path)] = value
      BY <2>2, <3>1, PatchedIs
    <3>3. ASSUME NEW i \in 1..Len(path)
          PROVE  /\ Container(Found(doc, path)[i - 1]) =>
                      SameKind(Found(Patched(doc, path, value), path)[i - 1], Found(doc, path)[i - 1])
                 /\ Aside(Found(Patched(doc, path, value), path)[i - 1], path[i]) =
                      Aside(Found(doc, path)[i - 1], path[i])
      BY <2>2, <3>1, PatchedIs
    <3> QED
      BY <2>1, <3>2, <3>3
  <2> QED
    BY <2>3 DEF PatchIsSurgical, SameKind
<1> QED
  BY <1>1, ToolsInvHolds, PTL

\* The invariant PatchReadsBack: the two walks agree on where a path leads.
THEOREM PatchReadsBackHolds == ToolsSpec => []PatchReadsBack
<1>1. ToolsInv => PatchReadsBack
  <2> SUFFICES ASSUME ToolsInv, Applied("patch_field"), last.rule.arg.value.is = "str"
               PROVE  Extracted(msg.body.payload, last.rule.arg.path) = last.rule.arg.value
    BY DEF PatchReadsBack
  <2>1. /\ last.rule \in AcceptedRules /\ last.rule.kind = "patch_field"
        /\ msg.body.payload # Unwalkable
        /\ msg.body.payload =
             Patched(last.before.body.payload, last.rule.arg.path, last.rule.arg.value)
    BY DEF ToolsInv, LastIsTrue, Applied
  <2>2. last.rule.arg.path \in Seq(STRING)
    BY <2>1, PathOfRule
  <2> QED
    BY <2>1, <2>2, StringReadBack
<1> QED
  BY <1>1, ToolsInvHolds, PTL
===============================================================================
