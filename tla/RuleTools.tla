-------------------------------- MODULE RuleTools --------------------------------
(***************************************************************************)
(* The tools that install rules (tools/rules.py), what they and the engine *)
(* (rules.py) refuse, and what the hook (hook/template/addons.py, on       *)
(* Reqable's reqable.py) then does to a message with the accepted ones.    *)
(*                                                                         *)
(* A tool call comes with whatever an MCP client may send; its action ends *)
(* with a rule installed or with an error.  A message that is in the hook  *)
(* has the rules that match it applied one by one; HookTraffic has the     *)
(* calls between the hook and the daemon, dry runs, blocking and hits.     *)
(*                                                                         *)
(* Of a host and a method filter only whether there is one is kept, of a   *)
(* rule's size only whether it fits the frame by itself.  A token is as    *)
(* good as its text; RelayStore has its limits and its age.                *)
(***************************************************************************)
EXTENDS JsonPath, FiniteSets

CONSTANTS
  Messages,      \* the messages that may come to the hook
  Patterns,      \* path_pattern arguments
  PathOf,        \* PathOf[p]: the paths p finds something in; no p outside compiles
  Ttls, MaxTtl,  \* ttl_seconds arguments, MAX_TTL_SECONDS
  Bounds,        \* status_min and status_max arguments
  Bodies,        \* body arguments
  Values,        \* the values a patch may set
  FieldPaths,    \* field_path arguments
  SubPattern,    \* SubPattern[p][text]: what re.subn makes of the texts p matches
  MaxRules       \* bound: the rules installed

None == "none"
NoPattern == "no pattern"
NotGiven == [given |-> None]   \* a body that is not given
NoNames == {None}              \* headers that are not given
NoDict == {"no dict"}          \* headers that are no dict
NoBound == 0             \* a status or a bound of one that is not given

Sides == {"request", "response"}

\* Bodies as reqable.py has them.
Text(doc) == [type |-> "text", payload |-> doc]
Binary == [type |-> "binary"]
Multipart(parts) == [type |-> "multipart", parts |-> parts]
Part(name, content) == [name |-> name, content |-> content]

HeaderNames == {"", "authorization", "x-token", ":path"}

ASSUME ToolsAssumption ==
  /\ \A m \in Messages :
       /\ DOMAIN m = {"side", "path", "code", "headers", "body", "note"}
       /\ m.side \in Sides /\ m.code \in 100..600 /\ m.note = None
       /\ DOMAIN m.headers \subseteq HeaderNames \ {"", ":path"}
  /\ DOMAIN PathOf \subseteq Patterns \cup {NoPattern, ""}
  /\ Ttls \subseteq Int /\ MaxTtl \in Nat
  /\ \A b \in Bodies : DOMAIN b = {"given", "utf8", "fits", "doc"}
  /\ FieldPaths \subseteq Seq(STRING)
  /\ MaxRules \in Nat

VARIABLES
  rules,    \* the rules installed, oldest first
  reply,    \* the last tool call's: "rule_id" or "error"
  file,     \* the file patch_multipart names: "small", "big" or "gone"
  msg,      \* the message in the hook, or NoMessage
  todo,     \* the places in rules of those still to be applied to it
  token,    \* what the relay store holds, or None
  last      \* the last rule applied: the message before, and whether it counts

toolVars == <<rules, reply, file, msg, todo, token, last>>

NoMessage == [side |-> None]
NoneApplied == [rule |-> None]

ToolsInit ==
  /\ rules = <<>>
  /\ reply = None
  /\ file = "small"
  /\ msg = NoMessage
  /\ todo = {}
  /\ token = None
  /\ last = NoneApplied

-------------------------------------------------------------------------------
(* RuleEngine.add.                                                          *)

\* The sides a kind may have.
SidesOf(kind) ==
  CASE kind \in {"mock", "relay_extract"} -> {"response"}
    [] kind \in {"block", "relay_inject"} -> {"request"}
    [] OTHER -> Sides

ValidTtl(ttl) == ttl > 0 /\ ttl <= MaxTtl

AnyStatus == [min |-> NoBound, max |-> NoBound]
Unbounded(r) == r.status = AnyStatus

ValidStatus(r) ==
  /\ r.status.min # NoBound => r.status.min \in 100..599
  /\ r.status.max # NoBound => r.status.max \in 100..599
  /\ r.status.min # NoBound /\ r.status.max # NoBound => r.status.min <= r.status.max
  /\ ~Unbounded(r) => r.side = "response"

\* An empty pattern is none; Rule.__post_init__ compiles the others.
Compiles(pattern) == pattern \in DOMAIN PathOf \cup {NoPattern, ""}

EngineAccepts(r, ttl) ==
  r.side \in SidesOf(r.kind) /\ ValidTtl(ttl) /\ ValidStatus(r) /\ Compiles(r.path)

Rule(kind, side, path, arg) ==
  [kind |-> kind, side |-> side, path |-> path, status |-> AnyStatus, arg |-> arg, over |-> FALSE]

\* Whether a rule may be larger than _IPC_RULE_PAYLOAD_BUDGET by itself: headers and
\* names have no limit, and a text has one before its characters are escaped.
MayBeOver(r) ==
  CASE r.kind \in {"inject_header", "patch_multipart", "relay_extract", "relay_inject"} -> TRUE
    [] r.kind = "replace_body" -> r.arg.given = "str"
    [] r.kind = "mock" -> r.arg.names # NoNames \/ r.arg.body.given = "str"
    [] OTHER -> FALSE

\* The sizes r may have.
Sizes(r) == {[r EXCEPT !.over = over] : over \in {FALSE} \cup {MayBeOver(r)}}

\* A tool call that installs one rule, if the tool accepts the arguments and the
\* engine the rule.
Installs(accepted, r, ttl) ==
  /\ IF accepted /\ EngineAccepts(r, ttl)
     THEN \E q \in Sizes(r) : rules' = Append(rules, q) /\ reply' = "rule_id"
     ELSE rules' = rules /\ reply' = "error"
  /\ UNCHANGED <<file, msg, todo, token, last>>

MayCall(n) == msg = NoMessage /\ Len(rules) + n <= MaxRules

-------------------------------------------------------------------------------
(* The tools.                                                               *)

\* An annotation with status bounds belongs to responses.
SideFor(status) == IF status = AnyStatus THEN "request" ELSE "response"

\* tag_pattern, comment_pattern: color or text is what the tool takes, or is not.
Annotate(kind) ==
  \E note \in {"red", "purple"}, low, high \in Bounds, ttl \in Ttls, p \in Patterns :
    LET status == [min |-> low, max |-> high]
        r == [Rule(kind, SideFor(status), p, note) EXCEPT !.status = status]
    IN  Installs(note = "red", r, ttl)

TagPattern == MayCall(1) /\ Annotate("tag")

CommentPattern == MayCall(1) /\ Annotate("comment")

\* No empty name, no pseudo-header.
HeaderAccepted(name) == name \notin {"", ":path"}

InjectHeader ==
  /\ MayCall(1)
  /\ \E name \in HeaderNames, side \in Sides, ttl \in Ttls, p \in Patterns :
       Installs(HeaderAccepted(name),
                Rule("inject_header", side, p, [name |-> name, value |-> "set"]), ttl)

\* _coerce_body: a str or a dict that can be encoded, of BODY_MAX_BYTES at most.
CoerceBody(b) == b.given \in {"str", "dict"} /\ b.utf8 /\ b.fits

ReplaceBody ==
  /\ MayCall(1)
  /\ \E b \in Bodies, side \in Sides, ttl \in Ttls, p \in Patterns :
       Installs(CoerceBody(b), Rule("replace_body", side, p, b), ttl)

\* Mutant of StatusAccepted: any three digits.
StatusAcceptedDigits(code) == code = NoBound \/ code \in 100..999

StatusAccepted(code) == code = NoBound \/ code \in 100..600

\* Mutant of HeadersAccepted: headers need not be a dict.
HeadersAcceptedAny(names) == names \notin {NoNames, NoDict} =>
  names # {} /\ \A n \in names : HeaderAccepted(n)

\* Headers, if given, are a dict, not empty, with proper names.
HeadersAccepted(names) == names # NoNames =>
  names \notin {NoDict, {}} /\ \A n \in names : HeaderAccepted(n)

\* Something must be given.
MockResponse ==
  /\ MayCall(1)
  /\ \E code \in Bounds, b \in Bodies \cup {NotGiven},
        names \in {NoNames, NoDict, {}} \cup {{n} : n \in HeaderNames}, ttl \in Ttls :
       Installs(/\ StatusAccepted(code)
                /\ b # NotGiven => CoerceBody(b)
                /\ HeadersAccepted(names)
                /\ code # NoBound \/ b # NotGiven \/ names # NoNames,
                Rule("mock", "response", NoPattern, [code |-> code, body |-> b, names |-> names]),
                ttl)

CatchAll == {"", ".*"}

\* At least one filter with something in it, and no pattern listed as matching all.
BlockRequest ==
  /\ MayCall(1)
  /\ \E filtered \in BOOLEAN, ttl \in Ttls, p \in Patterns :
       Installs((filtered \/ p \notin {NoPattern, ""}) /\ p \notin CatchAll,
                Rule("block", "request", p, None), ttl)

\* _validate_field_path: neither empty nor with an empty part.  (_validate_patch_value
\* is CoerceBody for any JSON value.)
ValidFieldPath(path) == path # <<>> /\ \A i \in DOMAIN path : path[i] # ""

PatchBodyField ==
  /\ MayCall(1)
  /\ \E path \in FieldPaths, value \in Values, side \in Sides, ttl \in Ttls :
       Installs(ValidFieldPath(path),
                Rule("patch_field", side, NoPattern, [path |-> path, value |-> value]), ttl)

\* _validate_regex_inputs: what does not compile, or has an unknown flag, is refused.
ReplaceBodyRegex ==
  /\ MayCall(1)
  /\ \E p \in DOMAIN SubPattern \cup {"("}, side \in Sides, ttl \in Ttls, flagsKnown \in BOOLEAN :
       Installs(flagsKnown /\ p \in DOMAIN SubPattern,
                Rule("regex_replace", side, NoPattern, p), ttl)

\* Exactly one of a text and a file; the file exists and is small, now.
PatchMultipart ==
  /\ MayCall(1)
  /\ \E name \in {"", "avatar"}, with \in SUBSET {"text", "file"}, side \in Sides, ttl \in Ttls :
       Installs(name # "" /\ Cardinality(with) = 1 /\ ("file" \in with => file = "small"),
                Rule("patch_multipart", side, NoPattern, [name |-> name, with |-> with]), ttl)

\* Two rules, or none: what the engine could refuse is asked before.
AutoTokenRelay ==
  /\ MayCall(2)
  /\ \E from \in {[loc |-> "header", path |-> <<"x-token">>]} \cup
                  {[loc |-> "json_body", path |-> path] : path \in FieldPaths},
        name \in HeaderNames, ttl \in Ttls, p \in Patterns :
       LET extract == Rule("relay_extract", "response", p, from)
           inject == Rule("relay_inject", "request", NoPattern, [name |-> name])
       IN  IF /\ from.path # <<>> /\ HeaderAccepted(name) /\ Compiles(p) /\ ValidTtl(ttl)
              /\ EngineAccepts(extract, ttl) /\ EngineAccepts(inject, ttl)
           THEN \E e \in Sizes(extract), i \in Sizes(inject) :
                  rules' = rules \o <<e, i>> /\ reply' = "rule_id"
           ELSE rules' = rules /\ reply' = "error"
  /\ UNCHANGED <<file, msg, todo, token, last>>

\* Whatever happens to the file after the rule was installed.
ChangeFile ==
  /\ \E f \in {"small", "big", "gone"} \ {file} : file' = f
  /\ UNCHANGED <<rules, reply, msg, todo, token, last>>

-------------------------------------------------------------------------------
(* The hook: what a rule does to a message.  Effect has the message after   *)
(* it, the token the relay store then holds, and whether the rule counts.   *)

Becomes(m, t) == [msg |-> m, token |-> t, hit |-> TRUE]
Untouched(m, t) == [msg |-> m, token |-> t, hit |-> FALSE]

\* What raises is caught in _apply_rule, and the rule counts no hit: the message
\* stays as it was by then.
Raised(m, t) == [msg |-> m, token |-> t, hit |-> FALSE]

\* HttpHeaders.__setitem__ ignores an empty name.
SetHeader(m, name, value) ==
  IF name = "" THEN m
  ELSE [m EXCEPT !.headers = [n \in DOMAIN @ \cup {name} |-> IF n = name THEN value ELSE @[n]]]

\* _patch_json_body works on a copy of the text; Reqable's hook never holds a dict.
PatchJsonBody(r, m, t) ==
  LET patched == Patched(m.body.payload, r.arg.path, r.arg.value) IN
  IF m.body.type = "text" /\ Container(m.body.payload) /\ patched # Unwalkable
  THEN Becomes([m EXCEPT !.body = Text(patched)], t)
  ELSE Untouched(m, t)

\* _regex_replace_body: no match is no hit.
RegexReplaceBody(r, m, t) ==
  IF m.body.type = "text" /\ m.body.payload \in DOMAIN SubPattern[r.arg]
  THEN Becomes([m EXCEPT !.body = Text(SubPattern[r.arg][m.body.payload])], t)
  ELSE Untouched(m, t)

FileGone(r) == r.kind = "patch_multipart" /\ "file" \in r.arg.with /\ file = "gone"

\* _patch_multipart_part: the first part of that name; a file that is gone by now
\* makes no part.
PatchMultipartPart(r, m, t) ==
  LET named == {i \in DOMAIN m.body.parts : m.body.parts[i].name = r.arg.name}
      first == CHOOSE i \in named : \A j \in named : i <= j
  IN  IF /\ m.body.type = "multipart" /\ named # {}
         /\ ~FileGone(r)
      THEN Becomes([m EXCEPT !.body.parts[first] = Part(r.arg.name, "replaced")], t)
      ELSE Untouched(m, t)

\* Code, headers and body are set one after the other.  HttpResponse.code raises
\* outside 100 to 600; headers that are no dict have no items(), and raise when the
\* code is set already.
Mock(r, m, t) ==
  LET named == IF r.arg.names = NoNames THEN {} ELSE r.arg.names
      coded == IF r.arg.code = NoBound THEN m ELSE [m EXCEPT !.code = r.arg.code]
      headed == [coded EXCEPT !.headers =
                   [n \in DOMAIN @ \cup named |-> IF n \in named THEN "set" ELSE @[n]]]
  IN  IF r.arg.code # NoBound /\ r.arg.code \notin 100..600 THEN Raised(m, t)
      ELSE IF r.arg.names = NoDict THEN Raised(coded, t)
      ELSE Becomes(IF r.arg.body = NotGiven THEN headed
                   ELSE [headed EXCEPT !.body = Text(r.arg.body.doc)], t)

\* The token of the response as it is now, or None.
TokenIn(r, m) ==
  IF r.arg.loc = "header"
  THEN IF r.arg.path[1] \in DOMAIN m.headers THEN m.headers[r.arg.path[1]] ELSE None
  ELSE IF m.body.type # "text" \/ ~Container(m.body.payload) THEN None
       ELSE LET found == Extracted(m.body.payload, r.arg.path)
            IN  IF found = Null THEN None ELSE found.value

\* _apply_rule.
Effect(r, m, t) ==
  CASE r.kind \in {"tag", "comment"} -> Becomes([m EXCEPT !.note = r.arg], t)
    [] r.kind = "inject_header" -> Becomes(SetHeader(m, r.arg.name, r.arg.value), t)
    [] r.kind = "patch_field" -> PatchJsonBody(r, m, t)
    [] r.kind = "regex_replace" -> RegexReplaceBody(r, m, t)
    [] r.kind = "patch_multipart" -> PatchMultipartPart(r, m, t)
    [] r.kind = "replace_body" -> Becomes([m EXCEPT !.body = Text(r.arg.doc)], t)
    [] r.kind = "mock" -> Mock(r, m, t)
    [] r.kind = "relay_extract" ->
         IF TokenIn(r, m) = None THEN Untouched(m, t) ELSE Becomes(m, TokenIn(r, m))
    [] r.kind = "relay_inject" ->
         IF t = None THEN Untouched(m, t) ELSE Becomes(SetHeader(m, r.arg.name, t), t)
    [] OTHER -> Untouched(m, t)

-------------------------------------------------------------------------------
(* A message in the hook.                                                   *)

WithinBounds(r, code) ==
  /\ r.status.min # NoBound => code >= r.status.min
  /\ r.status.max # NoBound => code <= r.status.max

\* Rule.matches.
MatchesRule(r, m) ==
  /\ r.side = m.side
  /\ r.path \in {NoPattern, ""} \/ m.path \in PathOf[r.path]
  /\ WithinBounds(r, m.code)

\* _REQUEST_KIND_ORDER and _RESPONSE_KIND_ORDER, which does not name patch_multipart.
Rank(r) ==
  CASE r.kind \in {"relay_inject", "relay_extract"} -> 0
    [] r.kind = "inject_header" -> 1
    [] r.kind = "patch_field" -> 2
    [] r.kind = "patch_multipart" /\ r.side = "request" -> 2
    [] r.kind = "regex_replace" -> 3
    [] r.kind = "replace_body" -> 4
    [] r.kind = "mock" -> 5
    [] OTHER -> 9

\* The rule at i may be applied before the one at j; those of one rank stay in the
\* order of the answer, which depends on their sizes.
Sooner(i, j) == Rank(rules[i]) <= Rank(rules[j])

\* A message comes; a request that a block rule matches is aborted at once.  A rule
\* larger than the frame is left out of the answer (_pack_rules_for_ipc).
Enter ==
  /\ msg = NoMessage
  /\ \E m \in Messages :
       LET found == {i \in DOMAIN rules : MatchesRule(rules[i], m) /\ ~rules[i].over} IN
       /\ found # {} /\ \A i \in found : rules[i].kind # "block"
       /\ msg' = m
       /\ todo' = found
  /\ last' = NoneApplied
  /\ UNCHANGED <<rules, reply, file, token>>

\* The next rule of the message.
ApplyRule ==
  /\ \E i \in todo :
       LET effect == Effect(rules[i], msg, token) IN
       /\ \A j \in todo \ {i} : Sooner(i, j)
       /\ msg' = effect.msg
       /\ token' = effect.token
       /\ last' = [rule |-> rules[i], before |-> msg, hit |-> effect.hit]
       /\ todo' = todo \ {i}
  /\ UNCHANGED <<rules, reply, file>>

Leave ==
  /\ msg # NoMessage /\ todo = {}
  /\ msg' = NoMessage
  /\ last' = NoneApplied
  /\ UNCHANGED <<rules, reply, file, todo, token>>

ToolsNext ==
  \/ TagPattern \/ CommentPattern \/ InjectHeader \/ ReplaceBody \/ MockResponse
  \/ BlockRequest \/ PatchBodyField \/ ReplaceBodyRegex \/ PatchMultipart \/ AutoTokenRelay
  \/ ChangeFile \/ Enter \/ ApplyRule \/ Leave

ToolsSpec == ToolsInit /\ [][ToolsNext]_toolVars

-------------------------------------------------------------------------------
Kinds ==
  {"tag", "comment", "inject_header", "replace_body", "mock", "block", "patch_field",
   "regex_replace", "patch_multipart", "relay_extract", "relay_inject"}

\* What an installed rule of a kind may have as its argument.
ArgsOf(kind) ==
  LET proper == {n \in HeaderNames : HeaderAccepted(n)} IN
  CASE kind \in {"tag", "comment"} -> {"red"}
    [] kind = "inject_header" -> [name : proper, value : {"set"}]
    [] kind = "replace_body" -> {b \in Bodies : CoerceBody(b)}
    [] kind = "mock" ->
         {arg \in [code : Bounds, body : Bodies \cup {NotGiven}, names : (SUBSET proper) \cup {NoNames}] :
            /\ StatusAccepted(arg.code) /\ arg.names # {}
            /\ arg.code # NoBound \/ arg.body # NotGiven \/ arg.names # NoNames}
    [] kind = "patch_field" -> [path : FieldPaths \ {<<>>}, value : Values]
    [] kind = "regex_replace" -> DOMAIN SubPattern
    [] kind = "patch_multipart" -> [name : {"avatar"}, with : {{"text"}, {"file"}}]
    [] kind = "relay_extract" ->
         {[loc |-> "header", path |-> <<"x-token">>]}
           \cup [loc : {"json_body"}, path : FieldPaths \ {<<>>}]
    [] kind = "relay_inject" -> [name : proper]
    [] OTHER -> {None}

AcceptedRules ==
  {r \in [kind : Kinds, side : Sides, path : Patterns \cup {NoPattern},
          status : [min : Bounds \cup {NoBound}, max : Bounds \cup {NoBound}],
          arg : UNION {ArgsOf(kind) : kind \in Kinds}, over : BOOLEAN] :
     /\ r.side \in SidesOf(r.kind) /\ ValidStatus(r) /\ Compiles(r.path)
     /\ r.arg \in ArgsOf(r.kind) /\ (Unbounded(r) \/ r.kind \in {"tag", "comment"})
     /\ r.over => MayBeOver(r)}

ToolsTypeOK ==
  /\ rules \in Seq(AcceptedRules)
  /\ reply \in {None, "rule_id", "error"}
  /\ file \in {"small", "big", "gone"}
  /\ todo \subseteq DOMAIN rules

Applied(kind) == last # NoneApplied /\ last.rule.kind = kind /\ last.hit

\* A rule that does not count has left no trace on the message: none that the tools
\* accept raises when it has half been carried out (addons.py:577-580 would swallow
\* that, and the message go on as it is by then).
NoHalfApplication ==
  last # NoneApplied /\ ~last.hit => msg = last.before

\* A message made for rule r, with what r looks for.
Made(r, code, headers, body) ==
  [side |-> r.side, path |-> "/", code |-> code, headers |-> headers, body |-> body, note |-> None]

CodeFor(r) ==
  IF r.status.min # NoBound THEN r.status.min ELSE IF r.status.max # NoBound THEN r.status.max ELSE 100

Changes(p) == {text \in DOMAIN SubPattern[p] : SubPattern[p][text] # text}

Fitting(r) ==
  CASE r.kind = "patch_field" ->
         Made(r, 100, <<>>, Text(Chain(r.arg.path, IF r.arg.value = Null THEN Str("") ELSE Null)))
    [] r.kind = "relay_extract" /\ r.arg.loc = "header" ->
         Made(r, 100, [n \in {r.arg.path[1]} |-> "secret"], Binary)
    [] r.kind = "relay_extract" /\ r.arg.loc # "header" ->
         Made(r, 100, <<>>, Text(Chain(r.arg.path, Str("secret"))))
    [] r.kind = "regex_replace" -> Made(r, 100, <<>>, Text(CHOOSE text \in Changes(r.arg) : TRUE))
    [] r.kind = "patch_multipart" -> Made(r, 100, <<>>, Multipart(<<Part(r.arg.name, "own")>>))
    [] r.kind = "mock" -> Made(r, IF r.arg.code = 100 THEN 200 ELSE 100, <<>>, Binary)
    [] OTHER -> Made(r, CodeFor(r), <<>>, Binary)

\* A rule that cannot be carried out for a reason of the caller's: its file is gone
\* by now, or its regex changes no text.
Vain(r) == FileGone(r) \/ (r.kind = "regex_replace" /\ Changes(r.arg) = {})

\* No accepted rule is one the hook, if it gets it, can never carry out: there is a
\* message of its side and within its status bounds that it changes, or whose token
\* it stores (tools/rules.py:362, 507: never "a shape it can't apply", never a
\* no-op).  A rule larger than the frame is accepted too, and no hook ever gets it.
AcceptedCanApply ==
  \A i \in DOMAIN rules :
    LET r == rules[i]
        m == Fitting(r)
    IN  r.kind # "block" /\ ~r.over /\ ~Vain(r) =>
          /\ m.side = r.side /\ WithinBounds(r, m.code)
          /\ \E t \in {None, "secret"} :
               LET effect == Effect(r, m, t)
               IN  effect.hit /\ (effect.msg # m \/ effect.token # t)

\* A patched body has the value at the path, and each object and array on the way
\* is the one it was, but for what it has at the next part of the path
\* (tools/rules.py:656).  A scalar on the way gives way to a container of one part.
PatchIsSurgical ==
  Applied("patch_field") =>
    LET path == last.rule.arg.path
        old == Found(last.before.body.payload, path)
        new == Found(msg.body.payload, path)
    IN  /\ new[Len(path)] = last.rule.arg.value
        /\ \A i \in 1..Len(path) :
             /\ Container(old[i - 1]) => new[i - 1].is = old[i - 1].is
             /\ Aside(new[i - 1], path[i]) = Aside(old[i - 1], path[i])

\* The walk that reads finds what the walk that writes has put there: a relay
\* extracts the string a patch has set at the same path (addons.py:184, 356).
PatchReadsBack ==
  Applied("patch_field") /\ last.rule.arg.value.is = "str" =>
    Extracted(msg.body.payload, last.rule.arg.path) = last.rule.arg.value

===============================================================================
