------------------------------- MODULE MCConfig -------------------------------
\* Files for TLC: endpoints that nest, clash or are wrong; include graphs; environments.
EXTENDS Config, TLC

-----------------------------------------------------------------------------
(* Apps *)

Endpoint(name, primary, protocol, path, host, port, listenPort, includePrefix) ==
  [name |-> name, primary |-> primary, protocol |-> protocol, path |-> path,
   host |-> host, port |-> port, listenPort |-> listenPort, includePrefix |-> includePrefix]

NewApp(endpoints) ==
  [launch |-> TRUE, pwd |-> TRUE, endpoints |-> endpoints, envFiles |-> <<>>, inline |-> <<>>]

Http(path, host, port, include) ==
  NewApp({Endpoint("default", FALSE, "http", path, host, port, 0, include)})

Single ==
  [ svc     |-> Http(<<"/", "svc">>, <<>>, 1, FALSE),
    admin   |-> Http(<<"/", "svc", "/", "admin">>, <<>>, 2, TRUE),
    all     |-> Http(<<"/">>, <<>>, 3, FALSE),
    slashes |-> Http(<<"/", "/">>, <<>>, 4, FALSE),
    again   |-> Http(<<"/", "svc", "/">>, <<>>, 5, FALSE),
    named   |-> Http(<<>>, <<"API", "web", "localhost">>, 6, FALSE),
    db      |-> NewApp({Endpoint("default", FALSE, "tcp", <<>>, <<>>, 10, 9, FALSE)}) ]

\* Each is refused for one reason of its own.
Wrong ==
  [ both  |-> Http(<<"/", "svc">>, <<"web">>, 11, FALSE),
    bare  |-> Http(<<"svc">>, <<>>, 12, FALSE),
    kept  |-> Http(<<>>, <<"web">>, 13, TRUE),
    mute  |-> NewApp({Endpoint("default", FALSE, "tcp", <<>>, <<>>, 14, 0, FALSE)}),
    idle  |-> [NewApp({}) EXCEPT !.launch = FALSE],
    lost  |-> [NewApp({}) EXCEPT !.pwd = FALSE],
    front |-> NewApp({Endpoint("default", FALSE, "tcp", <<>>, <<>>, 15, 3000, FALSE)}) ]

\* An app of several endpoints: two may have one name, and none may be primary.
Web ==
  LET main == Endpoint("main", TRUE, "http", <<>>, <<>>, 7, 0, FALSE)
      api  == Endpoint("api", FALSE, "grpc", <<>>, <<>>, 8, 0, FALSE)
      raw  == Endpoint("raw", FALSE, "tcp", <<>>, <<>>, 9, 1, FALSE)
  IN  {NewApp(S) : S \in {{}, {main}, {api}, {main, api}, {main, raw}, {main, api, raw}, {api, raw},
                          {main, [raw EXCEPT !.name = "MAIN"]},
                          {main, [api EXCEPT !.primary = TRUE]}}}

Restricted(f, S) == [x \in S |-> f[x]]
File(apps) == [fields |-> "known", resources |-> <<>>, apps |-> apps]
Alone(apps) == "root" :> File(apps)

Routing ==
  {Alone(("web" :> w) @@ Restricted(Single, S)) :
     w \in Web, S \in UNION {kSubset(k, DOMAIN Single) : k \in 0..3}}
  \cup {Alone(Restricted(Wrong, {w}) @@ Restricted(Single, {s})) :
          w \in DOMAIN Wrong, s \in DOMAIN Single}

-----------------------------------------------------------------------------
(* Include graphs: "alias" is a link to the file a, "gone" resolves to nothing *)

MCCanonical == [p \in {"root", "a", "b", "alias"} |-> IF p = "alias" THEN "a" ELSE p]

One == {<<>>} \cup {<<p>> : p \in {"root", "a", "b", "gone"}}
Two == {<<>>} \cup [1..1 -> {"a", "b", "alias"}] \cup [1..2 -> {"a", "b", "alias", "gone"}]
Plain(ids) == [id \in ids |-> NewApp({})]

Graphs ==
  { [root |-> [fields |-> f.root, resources |-> r.root, apps |-> Plain({"x"})],
     a    |-> [fields |-> f.a, resources |-> r.a, apps |-> Plain({"y"} \ c.a)],
     b    |-> [fields |-> "known", resources |-> r.b, apps |-> Plain(c.b)]] :
      r \in [root : Two, a : One, b : One],
      f \in {[root |-> "global", a |-> "known"], [root |-> "unknown", a |-> "known"],
             [root |-> "known", a |-> "global"], [root |-> "known", a |-> "unknown"],
             [root |-> "broken", a |-> "known"], [root |-> "known", a |-> "broken"]},
      c \in {[a |-> {}, b |-> {"z"}], [a |-> {}, b |-> {"x"}], [a |-> {"y"}, b |-> {}]} }

-----------------------------------------------------------------------------
(* Environments *)

MCInherited == [A |-> <<"a0">>, H |-> <<"h0">>]
MCEnvFile == [f1 |-> [A |-> <<"a1">>, B |-> <<"b1">>], f2 |-> [B |-> <<"b2">>]]

Text(t) == [text |-> t]
Ref(key, default) == [key |-> key, default |-> default]
Templates ==
  {<<Text("t")>>, <<Ref("B", NoDefault)>>, <<Ref("C", NoDefault)>>, <<Ref("C", "d")>>,
   <<Text("t"), Ref("A", NoDefault), Ref("H", "d")>>}

Environments ==
  {Alone([one |-> [NewApp({}) EXCEPT !.envFiles = files, !.inline = entries],
          two |-> [NewApp({}) EXCEPT !.envFiles = <<"f1">>]]) :
     files \in SeqOf({"f1", "f2", "lost"}, 2),
     entries \in UNION {[keys -> Templates] : keys \in SUBSET {"A", "C"}}}

MCDisks == Routing \cup Graphs \cup Environments

-----------------------------------------------------------------------------
(* Requests *)

MCLower ==
  [l \in {"api", "web", "main", "raw", "localhost", "default", "other"} |-> l]
    @@ [API |-> "api", MAIN |-> "main"]

Other == <<"other", ":3000">>
MCRequests ==
  [host : {Other}, raw : {<<"/">>, <<"/", "svc">>, <<"/", "svc", "/">>, <<"/", "svc", "able">>,
                          <<"/", "svc", "/", "admin">>, <<"/", "svc", "/", "admin", "/", "x">>,
                          <<"/", "svc", "%2F", "x">>, <<"/", "svc", "/", "x", "%2F", "y">>,
                          <<"/", "%73vc">>, <<"/", "%73vc", "/", "x", "%2F", "y">>,
                          <<"/", "svc", "%2F", "admin">>, <<"/", "/", "x">>}]
    \cup [host : {<<"web", "localhost">>, <<"API", "web", "localhost", ":3000">>},
          raw : {<<"/", "svc", "/", "x">>}]

MCUnescape == ("%2F" :> "/") @@ ("%73vc" :> "svc")

\* ForwardedRooted is refuted by an endpoint with the path "/" if no request has an escape,
\* and by an escaped slash if no endpoint has that path.
MCPlainRequests == {r \in MCRequests : DOMAIN MCUnescape \cap Range(r.raw) = {}}
MCServiceDisks == {Alone(Restricted(Single, {"svc"}))}

=============================================================================
