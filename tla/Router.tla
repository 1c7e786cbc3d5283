-------------------------------- MODULE Router --------------------------------
(***************************************************************************)
(* From the endpoints of a configuration to the URL sent to a backend:     *)
(* NewHandler, router.go and rewrite.go.                                   *)
(*                                                                         *)
(* The routes come out of a map, and sort.Slice is not stable: both are    *)
(* choices here.  The Host header of a request is a sequence of labels     *)
(* with the port, if there is one, as the last.                            *)
(***************************************************************************)
EXTENDS Normalize

CONSTANTS
  Requests,   \* [host, raw]: Host header and path as sent
  Unescape    \* escaped parts of a path, and what each stands for

ASSUME RouterAssumption ==
  /\ \A r \in Requests : r.raw \in Seq(STRING) \ {<<>>} /\ r.raw[1] = Slash
  /\ \A t \in DOMAIN Unescape : Unescape[t] \in STRING \ DOMAIN Unescape
  /\ Slash \notin DOMAIN Unescape

VARIABLES
  hostRoutes, pathRoutes,   \* Router
  answer                    \* the last request, its endpoint and URL

routerVars == <<hostRoutes, pathRoutes, answer>>

NoRoute == [app |-> "none"]

RouterInit == hostRoutes = <<>> /\ pathRoutes = <<>> /\ answer = [to |-> NoRoute]

-----------------------------------------------------------------------------
(* NewHandler, NewRouter *)

\* Mutant: routes stay in the order in which the map gave them.
Unsorted(routes) == Len(routes) >= 0

LongestFirst(routes) == IsSorted(routes, LAMBDA e, f : Len(RoutePath(e)) >= Len(RoutePath(f)))

NewHandler ==
  /\ \E routes \in SetToSeqs({e \in config : e.path # Unset}) :
       LongestFirst(routes) /\ pathRoutes' = routes
  /\ hostRoutes' = [h \in hosts |-> CHOOSE e \in config : h \in HostNames(e)]
  /\ UNCHANGED answer

-----------------------------------------------------------------------------
(* ServeHTTP: Match, then rewrite on behalf of the reverse proxy *)

\* Host header without its port, in lower case.
RequestHostname(host) ==
  LowerCase(SelectSeq(host, LAMBDA label : label # ":3000"))

Covers(e, path) ==
  LET p == RoutePath(e)
  IN  p = SlashPath \/ path = p
        \/ (Len(path) > Len(p) /\ IsPrefix(p, path) /\ path[Len(p) + 1] = Slash)

Match(host, path) ==
  IF RequestHostname(host) \in DOMAIN hostRoutes
    THEN hostRoutes[RequestHostname(host)]
    ELSE LET first == SelectInSeq(pathRoutes, LAMBDA e : Covers(e, path))
         IN  IF first = 0 THEN NoRoute ELSE pathRoutes[first]

TrimPrefix(s, prefix) ==
  IF IsPrefix(prefix, s) THEN SubSeq(s, Len(prefix) + 1, Len(s)) ELSE s

OrRoot(path) == IF path = <<>> THEN SlashPath ELSE path

\* Mutant: RawPath is left as it came.
RewritePath(e, url) ==
  IF e.path = Unset \/ e.includePrefix THEN url
  ELSE [url EXCEPT !.path = OrRoot(TrimPrefix(@, RoutePath(e)))]

Rewrite(e, url) ==
  IF e.path = Unset \/ e.includePrefix THEN url
  ELSE [path |-> OrRoot(TrimPrefix(url.path, RoutePath(e))),
        raw  |-> IF url.raw = <<>> THEN <<>> ELSE OrRoot(TrimPrefix(url.raw, RoutePath(e)))]

\* net/url: Path is unescaped, and RawPath kept when escaping Path would not give it.
Decode(raw) ==
  [i \in DOMAIN raw |-> IF raw[i] \in DOMAIN Unescape THEN Unescape[raw[i]] ELSE raw[i]]
ParseURL(raw) ==
  [path |-> Decode(raw), raw |-> IF Decode(raw) = raw THEN <<>> ELSE raw]

\* URL.EscapedPath, which goes on the request line.
EscapedPath(url) ==
  IF url.raw # <<>> /\ Decode(url.raw) = url.path THEN url.raw ELSE url.path

Serve(r) ==
  /\ LET url == ParseURL(r.raw)
         to  == Match(r.host, url.path)
     IN  answer' = IF to = NoRoute THEN [to |-> to, request |-> r]
                   ELSE [to |-> to, request |-> r, url |-> Rewrite(to, url)]
  /\ UNCHANGED <<hostRoutes, pathRoutes>>

-----------------------------------------------------------------------------
(* Properties *)

RouterTypeOK ==
  /\ Range(pathRoutes) \cup Range(hostRoutes) \subseteq config
  /\ answer.to \in config \cup {NoRoute}
  /\ answer.to # NoRoute => answer.url.path # <<>>

\* The path of e, as whole segments, starts the path.
Mounted(e, path) ==
  \/ RoutePath(e) = SlashPath
  \/ \E n \in 0..Len(path) : /\ SubSeq(path, 1, n) = RoutePath(e)
                             /\ n = Len(path) \/ path[n + 1] = Slash

\* Every request goes to the one endpoint that has its host, or else to that with the
\* longest path that starts the request's, whatever order the routes came in
\* ("exact host routes before falling back to longest-prefix path routes").
MostSpecific ==
  "request" \in DOMAIN answer =>
    LET path    == Decode(answer.request.raw)
        byHost  == {e \in config : RequestHostname(answer.request.host) \in HostNames(e)}
        mounted == {e \in config : e.path # Unset /\ Mounted(e, path)}
        best    == {e \in mounted : \A f \in mounted : IsPrefix(RoutePath(f), RoutePath(e))}
    IN  IF byHost # {} THEN byHost = {answer.to}
        ELSE IF mounted = {} THEN answer.to = NoRoute
        ELSE best = {answer.to}

\* What goes on the request line to the backend is, for a host and with includePrefix,
\* the path that the client sent.  Otherwise that is what it is after the path of the
\* endpoint, with every escape in it, or once unescaped if it spells the path of the
\* endpoint with an escape; and it starts with a slash, unless the endpoint has the path
\* "/" or what the client sent after it starts with an escaped slash.
ForwardedFits ==
  answer.to # NoRoute =>
    LET e    == answer.to
        p    == RoutePath(e)
        raw  == answer.request.raw
        sent == EscapedPath(answer.url)
    IN  IF e.path = Unset \/ e.includePrefix THEN sent = raw
        ELSE /\ Decode(raw) \in {p \o Decode(sent), p}
             /\ IsPrefix(p, raw) => raw \in {p \o sent, p}
             /\ Decode(raw) = p => sent = SlashPath
             /\ sent[1] # Slash => p = SlashPath \/ raw[Len(p) + 1] # Slash

\* A request for "/service/api/users" becomes one for "/users" (README.md:486-499): the
\* path on the request line to the backend starts with a slash.
ForwardedRooted ==
  answer.to # NoRoute => EscapedPath(answer.url)[1] = Slash

=============================================================================
