---------------------------- MODULE ApiRoutes ----------------------------
(***************************************************************************)
(* How the wallet server (wallet-api/web.rs, routes.rs) and the query      *)
(* service (eqs/src/api_server.rs, route_parsing.rs, routes.rs) find the   *)
(* handler of a request.  The routes are data (api.toml): each has a name, *)
(* patterns and the types of the parameters.  The web framework, which is  *)
(* external, passes on what fits a registered path; parse_route looks the  *)
(* first segment up as the name of a route and matches its patterns;       *)
(* dispatch_url calls the handler named by the first segment.              *)
(***************************************************************************)
EXTENDS Naturals, Sequences, FiniteSets

CONSTANTS
    Api,         \* server -> route -> [paths, types]
    Reads,       \* server -> route -> parameter -> accessor, as the handlers do
    Required,    \* server -> route -> parameters a handler indexes unconditionally
    MaxLen,      \* bound: entries of a list that is served in parts
    Width        \* bits of usize

VARIABLES
    request,     \* [server, segments], segments \in Seq(texts)
    answer,
    window       \* [len, from, count, selected] of a list served in parts

routeVars == <<request, answer, window>>

NoRequest == [server |-> "none", segments |-> <<>>]

Nothing == [outcome |-> "none"]

RoutesInit == request = NoRequest /\ answer = Nothing /\ window = Nothing

-----------------------------------------------------------------------------
(* Segments.  A text is a keyword or stands for the values it parses as.   *)

Values == {"<int>", "<bool>", "<tb64>", "<base64>", "<word>"}

\* external: the parsers of the standard library, TaggedBase64 and base64.
\* Every word may happen to be base64, the empty text is.
ParsesAs(text) ==
    {"Literal"} \cup
    CASE text = "<int>"  -> {"Integer", "Hexadecimal", "Base64"}
      [] text = "<bool>" -> {"Boolean", "Base64"}
      [] text = "<tb64>" -> {"TaggedBase64"}
      [] OTHER           -> {"Base64"}

ValueOf(type) ==
    CASE type = "Integer"      -> "<int>"
      [] type = "Boolean"      -> "<bool>"
      [] type = "TaggedBase64" -> "<tb64>"
      [] type = "Base64"       -> "<base64>"
      [] type = "Literal"      -> "<word>"

\* Mutant: a segment that is read as base64 is no string.
acceptsLiterals(accessor) ==
    CASE accessor = "as_boolean"                         -> {"Boolean"}
      [] accessor \in {"as_u64", "as_u128", "as_usize"}  -> {"Integer"}
      [] accessor \in {"to", "as_identifier"}            -> {"TaggedBase64"}
      [] accessor = "as_base64"                          -> {"Base64"}
      [] accessor \in {"as_string", "as_path"}           -> {"Literal", "TaggedBase64"}

\* The accessors of the wallet server's UrlSegmentValue: the types each accepts.
accepts(accessor) ==
    CASE accessor = "as_boolean"                         -> {"Boolean"}
      [] accessor \in {"as_u64", "as_u128", "as_usize"}  -> {"Integer"}
      [] accessor \in {"to", "as_identifier"}            -> {"TaggedBase64"}
      [] accessor = "as_base64"                          -> {"Base64"}
      [] accessor \in {"as_string", "as_path"}           -> {"Literal", "TaggedBase64", "Base64"}

\* Those of the query service's.
eqsAccepts(accessor) ==
    CASE accessor = "as_boolean"                         -> {"Boolean"}
      [] accessor \in {"as_u64", "as_index"}             -> {"Integer"}
      [] accessor \in {"to", "as_identifier", "as_path"} -> {"TaggedBase64"}
      [] accessor = "as_string"                          -> {"Literal", "TaggedBase64"}

takes(server, accessor) ==
    IF server = "eqs" THEN eqsAccepts(accessor) ELSE accepts(accessor)

-----------------------------------------------------------------------------
(* Requests.                                                               *)

routesOf(server) == DOMAIN Api[server]

parametersOf(route, path) == {path[i] : i \in DOMAIN path} \cap DOMAIN route.types

keywordsOf(route) == UNION {{p[i] : i \in DOMAIN p} : p \in route.paths} \ DOMAIN route.types

\* A request for a path, with values of the right types.
fill(route, path) ==
    [i \in DOMAIN path |-> IF path[i] \in DOMAIN route.types THEN ValueOf(route.types[path[i]])
                                                            ELSE path[i]]

\* external: the framework passes on what fits a path of any route.
registered(server, segments) ==
    \E r \in routesOf(server) : \E path \in Api[server][r].paths :
        /\ Len(path) = Len(segments)
        /\ \A i \in DOMAIN path : path[i] \in DOMAIN Api[server][r].types \/ path[i] = segments[i]

\* One segment of a good request may be anything else.
receive ==
    /\ request = NoRequest /\ window = Nothing
    /\ \E server \in DOMAIN Api : \E r \in routesOf(server) : \E path \in Api[server][r].paths :
          LET good == fill(Api[server][r], path) IN
          \E i \in DOMAIN path : \E text \in {good[i]} \cup Values \cup keywordsOf(Api[server][r]) :
              LET segments == [good EXCEPT ![i] = text] IN
              /\ registered(server, segments)
              /\ request' = [server |-> server, segments |-> segments]
    /\ UNCHANGED <<answer, window>>

-----------------------------------------------------------------------------
(* parse_route                                                             *)

\* A pattern that is longer than the request is matched against empty texts.
segmentAt(segments, i) == IF i <= Len(segments) THEN segments[i] ELSE ""

parseMatches(types, pattern, segments) ==
    \A i \in DOMAIN pattern : pattern[i] \in DOMAIN types =>
        types[pattern[i]] \in ParsesAs(segmentAt(segments, i))

literalsMatch(types, pattern, segments) ==
    \A i \in DOMAIN pattern : pattern[i] \notin DOMAIN types =>
        pattern[i] = segmentAt(segments, i)

lengthMatches(pattern, segments) == Len(segments) <= Len(pattern)

routeMatches(types, pattern, segments) ==
    /\ parseMatches(types, pattern, segments)
    /\ lengthMatches(pattern, segments)
    /\ literalsMatch(types, pattern, segments)

keyOf(segments) == segments[1]

parse_route ==
    LET key   == keyOf(request.segments)
        route == Api[request.server][key]
        found == {p \in route.paths : routeMatches(route.types, p, request.segments)}
    IN  IF key \notin routesOf(request.server) THEN [outcome |-> "unknown"]
        ELSE IF found = {} THEN [outcome |-> "Need documentation"]
        ELSE IF Cardinality(found) > 1 THEN [outcome |-> "Ambiguity in api.toml"]
        ELSE LET path == CHOOSE p \in found : TRUE IN
             [outcome |-> "dispatched", key |-> key, pattern |-> path,
              bindings |-> [b \in parametersOf(route, path) |-> route.types[b]]]

entry_page ==
    /\ request # NoRequest /\ answer = Nothing
    /\ answer' = parse_route
    /\ UNCHANGED <<request, window>>

-----------------------------------------------------------------------------
(* Lists that are served in parts, in the arithmetic of usize.             *)

usize(n) == n % 2^Width

saturating_sub(a, b) == IF a > b THEN a - b ELSE 0

wrapping_sub(a, b) == usize(a + 2^Width - b)

\* Mutant: the start of the window is not clamped at zero.
wrappedFrom(len, from) == wrapping_sub(len, from)

historyFrom(len, from) == saturating_sub(len, from)

\* skip(from).take(to - from)
transactionhistory(len, from, count) ==
    LET first == historyFrom(len, from)
        to    == usize(first + count)
        taken == wrapping_sub(to, first)
    IN  {i \in 0..(len - 1) : first <= i /\ i < first + taken}

EQS_MAX_EVENT_COUNT == 2

capped(count) == IF count < EQS_MAX_EVENT_COUNT THEN count ELSE EQS_MAX_EVENT_COUNT

get_events_since(len, first, count) ==
    IF first >= len THEN {}
    ELSE LET last == usize(first + capped(count))
         IN  {i \in 0..(len - 1) : first <= i /\ i < last}

serveWindow ==
    /\ request = NoRequest /\ window = Nothing
    /\ \E len \in 0..MaxLen, from, count \in 0..(2^Width - 1) :
       \E list \in {"history", "events"} :
          window' = [outcome |-> list, len |-> len, from |-> from, count |-> count,
                     selected |-> IF list = "history" THEN transactionhistory(len, from, count)
                                                      ELSE get_events_since(len, from, count)]
    /\ UNCHANGED <<request, answer>>

RoutesNext == receive \/ entry_page \/ serveWindow

RoutesSpec == RoutesInit /\ [][RoutesNext]_routeVars

-----------------------------------------------------------------------------
(* Properties                                                              *)

\* No request fits two patterns: the error "Ambiguity in api.toml" of
\* parse_route, which the user of the API could do nothing about, is not
\* reached, and every first segment that gets here names a route.
RouteIsUnique == answer.outcome \notin {"Ambiguity in api.toml", "unknown"}

\* A handler finds the parameters it indexes without a check (a missing one
\* panics), each with a type its accessor takes.
HandlersGetParameters ==
    answer.outcome = "dispatched" =>
        LET reads == Reads[request.server][answer.key] IN
        /\ Required[request.server][answer.key] \subseteq DOMAIN answer.bindings
        /\ \A p \in DOMAIN answer.bindings \cap DOMAIN reads :
              answer.bindings[p] \in takes(request.server, reads[p])

\* A request that the framework passes on finds one route, or none and is told
\* so, and the handler of a route finds what it reads (web.rs and api_server.rs
\* parse_route, routes.rs dispatch_url).
RequestsReachHandlers == RouteIsUnique /\ HandlersGetParameters

\* A list is served in one contiguous part of at most :count entries: of the
\* history the :from most recent ones first, of the events those from :first
\* on, whatever the requested bounds are (routes.rs transactionhistory, eqs
\* routes.rs get_events_since).
WindowAsDocumented ==
    window # Nothing =>
        LET first == CASE window.outcome = "history" /\ window.from <= window.len ->
                              window.len - window.from
                       [] window.outcome = "history" -> 0
                       [] OTHER -> window.from
            most  == IF window.outcome = "events" /\ window.count > EQS_MAX_EVENT_COUNT
                     THEN EQS_MAX_EVENT_COUNT ELSE window.count
        IN  window.selected = {i \in 0..(window.len - 1) : i >= first /\ i - first < most}

\* "Returns the committed transaction, if any, with the specified hash"
\* (eqs/api/api.toml): a request that fits a path of a route is dispatched to
\* the handler of that route.
EveryRouteServed ==
    answer # Nothing =>
        \A r \in routesOf(request.server) : \A path \in Api[request.server][r].paths :
            request.segments = fill(Api[request.server][r], path) =>
                answer.outcome = "dispatched" /\ answer.key = r
=============================================================================
