------------------------------ MODULE RuleToolsMC ------------------------------
\* Messages with each kind of body, among them documents that have, lack or bar
\* the paths that are patched.
EXTENDS RuleTools

MCUser == Obj([user |-> Str("ann"), items |-> Arr(<<Str("x"), Obj([id |-> Str("y")])>>)])
MCNested == Obj([user |-> Obj([id |-> Str("7"), name |-> Null])])
MCToken == Obj([token |-> Str("t0")])

MCMessage(side, path, code, hs, body) ==
  [side |-> side, path |-> path, code |-> code, headers |-> hs, body |-> body, note |-> None]
MCBare == [n \in {} |-> ""]
MCMessages ==
  {MCMessage("request", "/login", 100, MCBare, Text(MCUser)),
   MCMessage("request", "/x", 100, [n \in {"authorization"} |-> "own"],
             Multipart(<<Part("title", "t"), Part("avatar", "a"), Part("avatar", "b")>>)),
   MCMessage("response", "/login", 200, [n \in {"x-token"} |-> "h0"], Text(MCToken)),
   MCMessage("response", "/x", 404, MCBare, Text(MCNested)),
   MCMessage("response", "/x", 500, MCBare, Text(Prose("oops"))),
   MCMessage("response", "/x", 200, MCBare, Multipart(<<Part("avatar", "a")>>)),
   MCMessage("response", "/x", 200, MCBare, Binary)}

MCPatterns == {NoPattern, "", ".*", "/login", "("}
MCPathOf == [p \in {".*", "/login"} |-> IF p = ".*" THEN {"/login", "/x"} ELSE {"/login"}]

MCBody(given, utf8, fits, doc) == [given |-> given, utf8 |-> utf8, fits |-> fits, doc |-> doc]
MCBodies ==
  {MCBody("dict", TRUE, TRUE, MCToken), MCBody("str", TRUE, TRUE, Prose("plain")),
   MCBody("str", FALSE, TRUE, Prose("surrogate")), MCBody("str", TRUE, FALSE, Prose("long")),
   MCBody("list", TRUE, TRUE, Arr(<<>>))}

MCValues == {Str("new"), Null, Obj([id |-> Str("z")])}
MCFieldPaths ==
  {<<"token">>, <<"user", "id">>, <<"items", "1", "id">>, <<"items", "-1">>,
   <<"items", "+1">>, <<"user", "--1">>, <<"user", "0">>, <<"new", "1", "id">>, <<>>, <<"user", "">>}

\* A pattern that spoils the JSON of a document, and one that hits prose.
MCSubPattern ==
  [p \in {"quote", "oops"} |->
     IF p = "quote" THEN [d \in {MCUser, MCToken} |-> Prose("spoilt")]
     ELSE [d \in {Prose("oops")} |-> MCToken]]
===============================================================================
