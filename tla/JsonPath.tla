-------------------------------- MODULE JsonPath --------------------------------
(***************************************************************************)
(* How the hook walks a dotted path through the JSON text of a body        *)
(* (hook/template/addons.py): _patch_json_body sets what is at the path,   *)
(* _extract_from_json_body reads it.  Each has a walk of its own.          *)
(*                                                                         *)
(* A document is a tagged record; a path is the sequence of the parts      *)
(* between the dots.  A walk is a function: the cursor after i parts.      *)
(***************************************************************************)
EXTENDS Integers, Sequences

Str(s) == [is |-> "str", value |-> s]
Null == [is |-> "null"]
Obj(fields) == [is |-> "obj", fields |-> fields]
Arr(elems) == [is |-> "arr", elems |-> elems]
Prose(s) == [is |-> "prose", value |-> s]      \* a text json.loads refuses
Missing == [is |-> "missing"]                  \* where there is nothing
Unwalkable == [is |-> "unwalkable"]

Container(doc) == doc.is \in {"obj", "arr"}

\* The parts int() takes: what it makes of them.
Index == [part \in {"0", "1", "+1", "-1"} |->
            CASE part = "0" -> 0 [] part \in {"1", "+1"} -> 1 [] OTHER -> -1]

\* The parts that are digits but for any minus signs in front.
Digits == {"0", "1", "-1", "--1"}

\* The place of part among an array's elements; whether the array has it.
Place(part) == Index[part] + 1
HasElem(doc, part) == part \in DOMAIN Index /\ Place(part) \in DOMAIN doc.elems

\* One part further in doc.
Step(doc, part) ==
  CASE doc.is = "obj" /\ part \in DOMAIN doc.fields -> doc.fields[part]
    [] doc.is = "arr" /\ HasElem(doc, part) -> doc.elems[Place(part)]
    [] OTHER -> Missing

-------------------------------------------------------------------------------
(* Reading.                                                                 *)

\* What the walk has found after each part: nothing once it missed one.
Found(doc, path) ==
  LET at[i \in 0..Len(path)] == IF i = 0 THEN doc ELSE Step(at[i - 1], path[i]) IN at

\* Mutant of Extracted: the last part is left out of the walk.
ExtractedShort(doc, path) ==
  LET found == Found(doc, path)[Len(path) - 1]
  IN  IF found.is = "str" THEN found ELSE Null

\* The string at path, Null if there is none.
Extracted(doc, path) ==
  LET found == Found(doc, path)[Len(path)]
  IN  IF found.is = "str" THEN found ELSE Null

-------------------------------------------------------------------------------
(* Setting.                                                                 *)

\* An empty container for the part that comes next.
New(next) == IF next \in Digits THEN Arr(<<>>) ELSE Obj(<<>>)

\* Mutant of Child: what is there is replaced whatever it is.
ChildAnew(doc, part, next) == New(next)

\* Where the walk goes from doc: an object's container or a new one, also in the
\* place of a scalar; an array's element.
Child(doc, part, next) ==
  LET child == Step(doc, part) IN
  IF doc.is = "arr" \/ Container(child) THEN child ELSE New(next)

\* The cursor that comes to each part of path.
Cursors(doc, path) ==
  LET at[i \in 0..(Len(path) - 1)] ==
        IF i = 0 THEN doc ELSE Child(at[i - 1], path[i], path[i + 1])
  IN  at

\* An object takes any part, an array an index it has; a scalar none.
Takes(doc, part) == doc.is = "obj" \/ (doc.is = "arr" /\ HasElem(doc, part))

Walkable(cursors, path) == \A i \in 1..Len(path) : Takes(cursors[i - 1], path[i])

SetField(doc, part, child) ==
  Obj([key \in DOMAIN doc.fields \cup {part} |-> IF key = part THEN child ELSE doc.fields[key]])
SetElem(doc, part, child) == Arr([doc.elems EXCEPT ![Place(part)] = child])
SetPart(doc, part, child) ==
  IF doc.is = "obj" THEN SetField(doc, part, child) ELSE SetElem(doc, part, child)

\* The containers the cursors went through, with value in the last one: from the
\* bottom up, after k parts.
Built(cursors, path, value) ==
  LET up[k \in 0..Len(path)] ==
        IF k = 0 THEN value
        ELSE SetPart(cursors[Len(path) - k], path[Len(path) - k + 1], up[k - 1])
  IN  up

\* doc with value at path; Unwalkable when the walk meets a scalar in an array, or
\* an array without the index.
Patched(doc, path, value) ==
  LET cursors == Cursors(doc, path) IN
  IF Walkable(cursors, path) THEN Built(cursors, path, value)[Len(path)] ELSE Unwalkable

-------------------------------------------------------------------------------
\* What is in a document, apart from what it has at part.
Aside(doc, part) ==
  CASE doc.is = "obj" -> [key \in DOMAIN doc.fields \ {part} |-> doc.fields[key]]
    [] doc.is = "arr" -> [i \in DOMAIN doc.elems \ {Place(part)} |-> doc.elems[i]]
    [] OTHER -> <<>>

\* A document of nested objects with leaf at path.
Chain(path, leaf) == Built([i \in 0..(Len(path) - 1) |-> Obj(<<>>)], path, leaf)[Len(path)]

===============================================================================
