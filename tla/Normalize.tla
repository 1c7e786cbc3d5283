------------------------------- MODULE Normalize -------------------------------
(***************************************************************************)
(* The endpoints of a configuration: appEndpointInputs, normalizeEndpoint  *)
(* and the tables through which Normalize compares them.                   *)
(*                                                                         *)
(* Go walks its maps in any order, which is a choice here.  A path is a    *)
(* sequence of tokens, "/", pieces of names and escapes, cut as finely as  *)
(* matching looks; a host is a sequence of labels.                         *)
(***************************************************************************)
EXTENDS Integers, Sequences, SequencesExt

CONSTANTS
  WrapperPort,
  Lower         \* lower case of each label

VARIABLES
  config, todo,                     \* endpoints registered; of the current app, still to be
  paths, hosts, ports, listenPorts  \* keys of the tables of Normalize

tableVars == <<paths, hosts, ports, listenPorts>>

Slash == "/"
SlashPath == <<Slash>>
Unset == <<>>

\* What a file says of an endpoint.
EndpointConfig ==
  [name : STRING, primary : BOOLEAN, protocol : STRING, path : Seq(STRING), host : Seq(STRING),
   port : Nat, listenPort : Nat, includePrefix : BOOLEAN]

NormalizeInit ==
  /\ config = {} /\ todo = {}
  /\ paths = {} /\ hosts = {} /\ ports = {} /\ listenPorts = {}

-----------------------------------------------------------------------------
(* appEndpointInputs; an app with the single legacy endpoint has one named "default" *)

NamesDiffer(app) ==
  \A e, f \in app.endpoints : e # f => Lower[e.name] # Lower[f.name]

OnePrimary(app) ==
  \/ Cardinality(app.endpoints) <= 1
  \/ Cardinality({e \in app.endpoints : e.primary}) = 1

EndpointInputs(id, app) ==
  {[app |-> id, name |-> Lower[e.name], primary |-> e.primary \/ app.endpoints = {e},
    protocol |-> e.protocol, path |-> e.path, host |-> e.host, port |-> e.port,
    listenPort |-> e.listenPort, includePrefix |-> e.includePrefix] : e \in app.endpoints}

-----------------------------------------------------------------------------
(* normalizeEndpoint *)

LowerCase(host) == [i \in DOMAIN host |-> Lower[host[i]]]

\* The hosts of an endpoint: the one it sets, or those made of its names.
HostNames(e) ==
  IF e.path # Unset \/ e.protocol = "tcp" THEN {}
  ELSE IF e.host # Unset THEN {LowerCase(e.host)}
  ELSE {LowerCase(<<e.name, e.app, "localhost">>)}
         \cup {h \in {LowerCase(<<e.app, "localhost">>)} : e.primary}

\* Without trailing slashes, "/" excepted; "//" becomes "".
RoutePath(e) ==
  IF e.path = SlashPath THEN SlashPath
  ELSE SubSeq(e.path, 1, SelectLastInSeq(e.path, LAMBDA t : t # Slash))

\* The checks of an endpoint alone.
Fits(e) ==
  /\ e.port # 0
  /\ \/ /\ e.protocol = "http" /\ e.listenPort = 0
        /\ e.path = Unset \/ (e.host = Unset /\ e.path[1] = Slash)
        /\ e.includePrefix => e.path # Unset
     \/ e.protocol = "grpc" /\ e.listenPort = 0 /\ e.path = Unset /\ ~e.includePrefix
     \/ /\ e.protocol = "tcp" /\ e.listenPort # 0
        /\ e.path = Unset /\ e.host = Unset /\ ~e.includePrefix

\* Mutant: a backend's port is not compared with the listeners' ports so far.
ClashesWithBackends(e) ==
  \/ e.port = WrapperPort \/ e.port \in ports
  \/ HostNames(e) \cap hosts # {}
  \/ e.path # Unset /\ RoutePath(e) \in paths
  \/ /\ e.protocol = "tcp"
     /\ e.listenPort \in {WrapperPort, e.port} \cup ports \cup listenPorts

Clashes(e) ==
  \/ e.port = WrapperPort \/ e.port \in listenPorts \cup ports
  \/ HostNames(e) \cap hosts # {}
  \/ e.path # Unset /\ RoutePath(e) \in paths
  \/ /\ e.protocol = "tcp"
     /\ e.listenPort \in {WrapperPort, e.port} \cup ports \cup listenPorts

Register(e) ==
  /\ ports' = ports \cup {e.port}
  /\ hosts' = hosts \cup HostNames(e)
  /\ paths' = paths \cup {p \in {RoutePath(e)} : e.path # Unset}
  /\ listenPorts' = listenPorts \cup {p \in {e.listenPort} : e.protocol = "tcp"}

-----------------------------------------------------------------------------
(* Properties *)

\* Two endpoints cannot both be served: they need the same port, listener, host or
\* path.  No order of visiting them is involved.
Conflict(e, f) ==
  \/ e # f /\ e.port = f.port
  \/ e.protocol = "tcp" /\ e.listenPort = f.port
  \/ e # f /\ e.protocol = "tcp" /\ f.protocol = "tcp" /\ e.listenPort = f.listenPort
  \/ e # f /\ HostNames(e) \cap HostNames(f) # {}
  \/ e # f /\ e.path # Unset /\ f.path # Unset /\ RoutePath(e) = RoutePath(f)
UsesWrapperPort(e) == WrapperPort \in {e.port} \cup {p \in {e.listenPort} : e.protocol = "tcp"}
Sound(S) == \A e \in S : Fits(e) /\ ~UsesWrapperPort(e) /\ \A f \in S : ~Conflict(e, f)

=============================================================================
