------------------------------- MODULE Router -------------------------------
(***************************************************************************)
(* How AsyncWebServer (asyncwebserver.cpp) finds the handler of a request: *)
(* four tables, of plain paths and of masks with holes, for GET and for    *)
(* POST.  A path is a sequence of words; a word is a number, so that the    *)
(* order of the masks' regular expressions in a table is theirs.           *)
(***************************************************************************)
EXTENDS Integers, Sequences, SequencesExt, FiniteSets

CONSTANTS
  Pattern,       \* the paths and masks of routes
  RequestPath,   \* the paths of requests
  MaxRoute       \* bound: registrations

HOLE == 0        \* a {name} of a mask; "(" comes before all letters
Supported == {"GET", "POST"}
Method == Supported \cup {"PUT"}

VARIABLES
  routes, mask_routes,   \* the tables of each method: from paths or masks to handlers
  registered             \* the calls of get, post and route (history)

vars == <<routes, mask_routes, registered>>

Registration == [methods : {{"GET"}, {"POST"}, Supported}, pattern : Pattern]

IsMask(pattern) == Contains(pattern, HOLE)
\* Mutant: a pattern that has a handler keeps it.
PutOnce(table, pattern, handler) ==
  [p \in DOMAIN table \cup {pattern} |-> IF p \in DOMAIN table THEN table[p] ELSE handler]

Put(table, pattern, handler) ==
  [p \in DOMAIN table \cup {pattern} |-> IF p = pattern THEN handler ELSE table[p]]

\* get, post and route; the handler is named by the number of the call.
Route(r) ==
  LET add(tables) == [m \in Supported |-> IF m \in r.methods
                                          THEN Put(tables[m], r.pattern, Len(registered) + 1)
                                          ELSE tables[m]]
  IN  /\ Len(registered) < MaxRoute
      /\ registered' = Append(registered, r)
      /\ IF IsMask(r.pattern)
         THEN mask_routes' = add(mask_routes) /\ UNCHANGED routes
         ELSE routes' = add(routes) /\ UNCHANGED mask_routes

\* The constructor has a page for the root.
Constructed ==
  [registered |-> <<[methods |-> {"GET"}, pattern |-> <<>>]>>,
   routes |-> [m \in Supported |-> [p \in IF m = "GET" THEN {<<>>} ELSE {} |-> 1]],
   mask_routes |-> [m \in Supported |-> [p \in {} |-> 1]]]

NewServer ==
  /\ registered' = Constructed.registered
  /\ routes' = Constructed.routes /\ mask_routes' = Constructed.mask_routes

Init ==
  /\ registered = Constructed.registered
  /\ routes = Constructed.routes /\ mask_routes = Constructed.mask_routes

Next == NewServer \/ \E r \in Registration : Route(r)
Spec == Init /\ [][Next]_vars

\* The order of a table: of the texts "^/..$" of the regular expressions.
Before(p, q) ==
  \E i \in 1..Len(q) :
    /\ \A j \in 1..i - 1 : j <= Len(p) /\ p[j] = q[j]
    /\ i > Len(p) \/ p[i] < q[i]

\* regex_match with the words of the holes.
Fits(pattern, path) ==
  /\ Len(pattern) = Len(path)
  /\ \A i \in DOMAIN pattern : pattern[i] \in {HOLE, path[i]}

\* parseHeaders, parseHeader and parseBody: the last mistake counts, and the method is
\* looked at first.
Error(request) ==
  IF request.mistake # 0 THEN request.mistake
  ELSE IF request.method \notin Supported THEN 405 ELSE 0

\* selectRoute: a plain path, or else the first mask that fits, with the parameters.
SelectRoute(method, path) ==
  LET fitting == SetToSortSeq({p \in DOMAIN mask_routes[method] : Fits(p, path)}, Before)
      holes(p) == SelectSeq([i \in DOMAIN p |-> i], LAMBDA i : p[i] = HOLE)
  IN  IF path \in DOMAIN routes[method] THEN [handler |-> routes[method][path], params |-> <<>>]
      ELSE IF fitting = <<>> THEN [handler |-> 0, params |-> <<>>]
      ELSE [handler |-> mask_routes[method][fitting[1]],
            params  |-> [k \in DOMAIN holes(fitting[1]) |-> path[holes(fitting[1])[k]]]]

\* handleRequest: the page of an error or the call of a handler.
HandleRequest(request) ==
  IF Error(request) # 0 THEN [status |-> Error(request), handler |-> 0, params |-> <<>>]
  ELSE LET item == SelectRoute(request.method, request.path)
       IN  [status |-> IF item.handler = 0 THEN 404 ELSE 200,
            handler |-> item.handler, params |-> item.params]

(***************************************************************************)
(* Properties.                                                             *)
(***************************************************************************)
\* A call's handler counts for a request if it is the last one for its pattern.
InForce(method) ==
  {i \in DOMAIN registered :
     /\ method \in registered[i].methods
     /\ \A j \in i + 1..Len(registered) :
          ~(method \in registered[j].methods /\ registered[j].pattern = registered[i].pattern)}

\* A request gets the handler that was registered last for its method and path; without
\* one, a handler whose mask fits, the one with the word further to the left in a hole;
\* it gets the words of the holes in order; and 404 only if nothing fits.  A request
\* of another method or with a mistake in it reaches no handler, and no table.
RoutedRight ==
  \A request \in [method : Method, path : RequestPath, mistake : {0, 400, 415, 501}] :
    LET answer == HandleRequest(request)
        fit == {i \in InForce(request.method) : Fits(registered[i].pattern, request.path)}
        plain == {i \in fit : ~IsMask(registered[i].pattern)}
        p == registered[answer.handler].pattern
    IN  IF request.method \notin Supported \/ request.mistake # 0
        THEN answer.handler = 0 /\ answer.status >= 400
        ELSE IF fit = {} THEN answer.status = 404
        ELSE /\ answer.handler \in (IF plain = {} THEN fit ELSE plain)
             /\ \A i \in fit \ plain, k \in DOMAIN p :
                  plain = {} /\ registered[i].pattern[k] = HOLE /\ p[k] # HOLE =>
                    \E j \in 1..k - 1 : p[j] = HOLE /\ registered[i].pattern[j] # HOLE
             /\ Len(answer.params) = Cardinality({k \in DOMAIN p : p[k] = HOLE})
             /\ \A k \in DOMAIN p : p[k] = HOLE =>
                  answer.params[Cardinality({j \in 1..k : p[j] = HOLE})] = request.path[k]
=============================================================================
