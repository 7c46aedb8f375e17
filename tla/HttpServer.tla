----------------------------- MODULE HttpServer -----------------------------
(***************************************************************************)
(* The HTTP face of the node (transport/httpServer.ts over                 *)
(* dialect/tron/http.ts) and the program's provider (provider.ts): from a  *)
(* request line to the handler under the node's write lock and back.       *)
(* A path or method name is the sequence of its segments.  What a handler  *)
(* does is one change of `world` or none; its reply shows the world and    *)
(* the integer it was sent.                                                *)
(***************************************************************************)
EXTENDS Integers, Sequences, SequencesExt, FiniteSets

CONSTANTS Conns, Programs,   \* HTTP connections, callers inside the process
          Plans,             \* by name: the hosts to bind and what each caller may ask
          JAVA_TRON_ROUTES,  \* declared path -> kind
          DEV_EXTENSIONS,    \* added path -> kind
          Definitions,       \* registered name -> the name of its definition
          QUERY_ONLY_ROUTES, MERGED_MESSAGE,  \* definitions without a body, with a merged one
          Writers,           \* definitions that change the world
          MAX_BODY_BYTES, MAX_NESTING_DEPTH,
          MaxChunk,          \* bound: bytes that arrive at once
          MaxSafe,           \* Number.MAX_SAFE_INTEGER
          MaxWorld           \* bound: changes of the world

Names == Seq(STRING)     \* paths and method names
Contents == [shape : STRING, depth : Nat, num : Int]
Targets == [slashes : Nat \ {0}, segments : Seq([name : STRING, escape : STRING])]

\* What a connection may ask, what the parser refuses, what a program calls.
Requests == [version : Nat, target : Targets, method : STRING, host : STRING, origin : BOOLEAN, site : STRING,
             form : BOOLEAN, size : Nat, body : Contents, query : Int, rpc : Names]
Faults == [fault : STRING, token : BOOLEAN, two : BOOLEAN, longLine : BOOLEAN]
Calls == [method : {"call"}, name : Names, num : Int, accepted : BOOLEAN]

\* An added path is a control or the health check, and no declared one is.  A
\* registered name has its own definition, or stands beside a declared route
\* whose verbs it shares (RegisterOpts.solidity); `tre` has none.
RouteAssumption ==
    /\ \A p \in DOMAIN JAVA_TRON_ROUTES : p \notin {<<"tre">>, <<"healthcheck">>} /\ Head(p) # "admin"
    /\ \A p \in DOMAIN DEV_EXTENSIONS : p \in {<<"tre">>, <<"healthcheck">>} \/ Head(p) = "admin"
    /\ <<"tre">> \notin DOMAIN Definitions
    /\ \A p \in DOMAIN Definitions :
          /\ Definitions[p] \in DOMAIN Definitions
          /\ Head(p) = "admin" => p \in DOMAIN DEV_EXTENSIONS
          /\ Definitions[p] # p => /\ {p, Definitions[p]} \subseteq DOMAIN JAVA_TRON_ROUTES
                                   /\ JAVA_TRON_ROUTES[p] = JAVA_TRON_ROUTES[Definitions[p]]

ASSUME HttpAssumption ==
    /\ Conns \cap Programs = {} /\ "none" \notin Conns \cup Programs
    /\ \A p \in DOMAIN Plans :
          /\ \A c \in Conns : Plans[p].asks[c] \subseteq Requests \cup Faults
          /\ \A c \in Programs : Plans[p].asks[c] \subseteq Calls
    /\ RouteAssumption
    /\ MAX_BODY_BYTES \in Nat /\ MaxWorld \in Nat
    /\ MaxSafe \in Nat /\ MaxSafe % 2 = 1

VARIABLES bind,    \* the bound host
          plan,    \* which of the plans
          conn,    \* per caller: its request and how far it is
          queue,   \* callers waiting for the write lock
          holder,  \* who holds it
          world,   \* the node's state
          ran      \* ghost: the handlers that were started

httpVars == <<bind, plan, conn, queue, holder, world, ran>>

None == "none"
Callers == Conns \cup Programs

NoRequest == [method |-> None]
Idle == [st |-> "idle", req |-> NoRequest, name |-> << >>, got |-> 0, num |-> 0, saw |-> 0,
         result |-> [world |-> 0, num |-> 0, live |-> FALSE],
         status |-> 0, code |-> 0, shown |-> [world |-> 0, num |-> 0], cors |-> FALSE, allow |-> {},
         answers |-> 0, gone |-> FALSE]

(***************************************************************************)
(* The target.  A target has its leading slashes counted; a segment may be *)
(* escaped, wrongly escaped, or carry a path parameter.                    *)
(***************************************************************************)
\* targetURL: the absolute form names the same path as the origin form.
targetURL(target) == [slashes |-> target.slashes, segments |-> target.segments]

\* pathOf: decoded, without parameters, without the leading slash.
pathOf(url) ==
    IF \E i \in DOMAIN url.segments : url.segments[i].escape = "bad" THEN <<None>>
    ELSE [i \in 1..(url.slashes - 1) |-> ""] \o [i \in DOMAIN url.segments |-> url.segments[i].name]

isControlRoute(path) == path = <<"tre">> \/ Head(path) = "admin"

isExtension(path) ==
    path \notin DOMAIN JAVA_TRON_ROUTES
    /\ (path \in DOMAIN DEV_EXTENSIONS \/ (Len(path) > 1 /\ Head(path) = "admin"))
extensionKind(path) == IF path \in DOMAIN DEV_EXTENSIONS THEN DEV_EXTENSIONS[path] ELSE "G"

routeKind(path) == IF path \in DOMAIN JAVA_TRON_ROUTES THEN JAVA_TRON_ROUTES[path] ELSE None
kindOf(path) == IF isExtension(path) THEN extensionKind(path) ELSE routeKind(path)
isRPCEnvelope(path) == path = <<"tre">>
hasHandler(path) == path \in DOMAIN Definitions
methodName(path) == IF hasHandler(path) THEN Definitions[path] ELSE path

(***************************************************************************)
(* Who may reach the controls.  A Host header that is no plain authority   *)
(* counts as absent.                                                       *)
(***************************************************************************)
requestHostname(host) == IF host = "malformed" THEN None ELSE host
isLoopbackHostname(hostname) == hostname = "loopback"
isWildcardBindHost(host) == host = "*"
isAllowedControlHost(host, bindHost) ==
    /\ requestHostname(host) # None
    /\ \/ isWildcardBindHost(bindHost) \/ isLoopbackHostname(requestHostname(host))
       \/ requestHostname(host) = bindHost

Forbidden(r, bindHost) == ~isAllowedControlHost(r.host, bindHost) \/ r.origin \/ r.site = "cross-site"

methodOutcome(httpMethod, kind) ==
    CASE httpMethod \in {"GET", "HEAD"} ->
           IF kind = None THEN "404" ELSE IF kind = "P" THEN "method-not-allowed"
           ELSE IF kind = "S" THEN "empty" ELSE "run"
      [] httpMethod = "POST" -> IF kind \in {None, "G"} THEN "method-not-allowed" ELSE "run"
      [] httpMethod \in {"PUT", "DELETE"} -> "405"
      [] OTHER -> "501"

allowHeader(kind) == (IF kind # "P" THEN {"GET", "HEAD"} ELSE {})
                     \cup (IF kind \notin {"G", None} THEN {"POST"} ELSE {}) \cup {"TRACE", "OPTIONS"}

\* The status of a request the parser refuses.
parseFailure(r) ==
    CASE r.fault = "method" -> IF r.token THEN 501 ELSE 400
      [] r.fault = "version" -> IF r.two THEN 426 ELSE 505
      [] r.fault = "overflow" -> IF r.longLine THEN 414 ELSE 431
      [] OTHER -> 400

(***************************************************************************)
(* Integers.  A number past MaxSafe loses its last digit.                  *)
(***************************************************************************)
Safe(n) == n >= -MaxSafe /\ n <= MaxSafe
JSNumber(n) == IF Safe(n) THEN n ELSE 2 * (n \div 2)

writeJSON(n) == n

\* The wide integers of a body are read again from their digits.
restoreIntegers(n) == IF Safe(JSNumber(n)) THEN JSNumber(n) ELSE n

\* Faulty variant: the reply still refers to the node's state.
responseSnapshotLive(w, n, wire) == [world |-> w, num |-> n, live |-> TRUE]

\* The reply is copied while the lock is held; a program gets numbers where
\* they are exact.
responseSnapshot(w, n, wire) ==
    [world |-> w, num |-> IF ~wire /\ Safe(n) THEN JSNumber(n) ELSE n, live |-> FALSE]

(***************************************************************************)
(* What becomes of a request before anything is awaited.                   *)
(***************************************************************************)
Answered(k, status, code) == [k EXCEPT !.st = "done", !.status = status, !.code = code, !.answers = @ + 1]

Routed(k, r, path) ==
    LET kind == kindOf(path)
        outcome == methodOutcome(r.method, kind)
    IN CASE r.method = "OPTIONS" ->
              [Answered(k, 200, 0) EXCEPT !.allow = IF isExtension(path) THEN {} ELSE allowHeader(kind)]
         [] r.method = "TRACE" -> Answered(k, 200, 0)
         [] r.method \notin {"OPTIONS", "TRACE"} /\ outcome = "404" -> Answered(k, 404, 1)
         [] r.method \notin {"OPTIONS", "TRACE"} /\ outcome \in {"method-not-allowed", "405"} -> Answered(k, 405, 1)
         [] r.method \notin {"OPTIONS", "TRACE"} /\ outcome = "501" -> Answered(k, 501, 1)
         [] r.method \notin {"OPTIONS", "TRACE"} /\ outcome = "empty" -> Answered(k, 200, 0)
         [] r.method \notin {"OPTIONS", "TRACE"} /\ outcome = "run" ->
              IF ~(hasHandler(path) \/ isRPCEnvelope(path))
              THEN Answered(k, IF isExtension(path) THEN 404 ELSE 501, 1)
              ELSE [k EXCEPT !.st = "reading"]

handle(r, bindHost) ==
    LET path == pathOf(targetURL(r.target))
        k == [Idle EXCEPT !.req = r, !.name = path]
    IN IF r.version >= 2 THEN Answered(k, 426, 1)
       ELSE IF path = <<None>> THEN Answered(k, 400, 1)
       ELSE IF isControlRoute(path)
            THEN IF Forbidden(r, bindHost) THEN Answered(k, 403, 1) ELSE Routed(k, r, path)
       ELSE Routed([k EXCEPT !.cors = TRUE], r, path)

(***************************************************************************)
(* The body.  A body is empty, null, text that is no JSON, no object, an   *)
(* object with an integer, or one with a value of the wrong type.          *)
(***************************************************************************)
checkNestingDepth(body) == body.depth <= MAX_NESTING_DEPTH

\* parseJSONBody: refused, or the integer of its field.
parseJSONBody(body) ==
    IF body.shape \in {"empty", "null", "malformed", "array"} \/ ~checkNestingDepth(body)
    THEN [refused |-> TRUE, num |-> 0] ELSE [refused |-> FALSE, num |-> restoreIntegers(body.num)]

isQueryOnly(path) == methodName(path) \in QUERY_ONLY_ROUTES

\* readFields: a form that is no JSON is a list of fields; a route without a
\* message takes the form's fields and the query.
readFields(k) ==
    IF k.req.method # "POST" THEN [refused |-> FALSE, num |-> k.req.query]
    ELSE IF isQueryOnly(k.name)
         THEN [refused |-> FALSE, num |-> IF k.req.form /\ k.req.body.shape = "fields" THEN k.req.body.num ELSE k.req.query]
    ELSE IF k.req.form /\ k.req.body.shape \in {"malformed", "fields"}
         THEN [refused |-> FALSE, num |-> k.req.body.num]
    ELSE parseJSONBody(k.req.body)

\* prepare: the merge refuses a value of the wrong type.
mergeRefuses(k) == /\ k.req.method = "POST" /\ methodName(k.name) \in MERGED_MESSAGE
                   /\ k.req.body.shape = "mistyped"

\* What is asked of the provider: the path, or the method of the envelope.
Asked(k) == IF isRPCEnvelope(k.name) THEN k.req.rpc ELSE k.name

\* From the fields to the provider: an answer, or the queue of the lock.
Proceeds(k) ==
    LET fields == readFields(k)
    IN IF fields.refused THEN Answered(k, 200, 1)
       ELSE IF isRPCEnvelope(k.name) /\ ~hasHandler(Asked(k)) THEN Answered(k, 200, -32601)
       ELSE IF ~isRPCEnvelope(k.name) /\ mergeRefuses(k) THEN Answered(k, 200, 1)
       ELSE [k EXCEPT !.st = "waiting", !.num = fields.num]

(***************************************************************************)
(* The steps.                                                              *)
(***************************************************************************)
Became(c, k) ==
    /\ conn' = [conn EXCEPT ![c] = k]
    /\ queue' = IF k.st = "waiting" /\ conn[c].st # "waiting" THEN Append(queue, c) ELSE queue

\* A request arrives; without a body to read it goes on at once.
Accept(c) == /\ conn[c].st = "idle"
             /\ \E r \in {q \in Plans[plan].asks[c] : "fault" \notin DOMAIN q} :
                  LET k == handle(r, bind)
                  IN Became(c, IF k.st = "reading" /\ r.method # "POST" THEN Proceeds(k) ELSE k)
             /\ UNCHANGED <<bind, plan, holder, world, ran>>

\* clientError: the parser's refusal goes straight to the socket.
Unparsed(c) == /\ conn[c].st = "idle"
               /\ \E r \in {q \in Plans[plan].asks[c] : "fault" \in DOMAIN q} :
                    Became(c, Answered(Idle, parseFailure(r), 1))
               /\ UNCHANGED <<bind, plan, holder, world, ran>>

\* A body past the ceiling: reading stops with the status.
TooLarge(k, n) == Answered(k, 413, 1)

readBody(k, n) == IF k.got + n > MAX_BODY_BYTES THEN TooLarge(k, n) ELSE [k EXCEPT !.got = @ + n]

Chunk(c) == /\ conn[c].st = "reading"
            /\ \E n \in 1..MaxChunk : conn[c].got + n <= conn[c].req.size /\ Became(c, readBody(conn[c], n))
            /\ UNCHANGED <<bind, plan, holder, world, ran>>

BodyEnd(c) == /\ conn[c].st = "reading" /\ conn[c].got = conn[c].req.size
              /\ Became(c, Proceeds(conn[c]))
              /\ UNCHANGED <<bind, plan, holder, world, ran>>

\* A program's request: unknown methods and refused input reject at once.
Request(p) == /\ conn[p].st = "idle"
              /\ \E call \in Plans[plan].asks[p] :
                   LET k == [Idle EXCEPT !.req = call, !.name = call.name, !.num = call.num]
                   IN Became(p, IF ~hasHandler(call.name) \/ ~call.accepted THEN Answered(k, 2, 1)
                                ELSE [k EXCEPT !.st = "waiting"])
              /\ UNCHANGED <<bind, plan, holder, world, ran>>

\* withWriteLock: in the order of the queue.
Begin(c) == /\ holder = None /\ queue # << >> /\ Head(queue) = c
            /\ holder' = c /\ queue' = Tail(queue)
            /\ conn' = [conn EXCEPT ![c].st = "running"]
            /\ ran' = ran \cup {[by |-> c, req |-> conn[c].req,
                                 method |-> IF c \in Conns THEN Asked(conn[c]) ELSE conn[c].name]}
            /\ UNCHANGED <<bind, plan, world>>

\* Faulty variant: only a handler that succeeds passes the lock on.
ReleasedOnSuccess(c, failed) == IF failed THEN c ELSE None

\* The next in the queue waits for the end of this one, however it ends.
Released(c, failed) == None

\* The world a handler leaves behind.
After(c) == IF methodName(IF c \in Conns THEN Asked(conn[c]) ELSE conn[c].name) \in Writers /\ world < MaxWorld
            THEN world + 1 ELSE world

Succeeds(c) ==
    /\ world' = After(c) /\ holder' = Released(c, FALSE)
    /\ conn' = [conn EXCEPT ![c].st = "replying", ![c].saw = After(c),
                           ![c].result = responseSnapshot(After(c), conn[c].num, c \in Conns)]

\* The codes of an error of the input and of any other error.
HandlerErrors == {-32602, -32000}
Fails(c) == \E code \in HandlerErrors :
               /\ holder' = Released(c, TRUE)
               /\ conn' = [conn EXCEPT ![c].st = "replying", ![c].code = code]
               /\ UNCHANGED world

\* The handler ends and the lock is released: a reply, or an error of the
\* handler that changed nothing.
Finish(c) == /\ holder = c /\ conn[c].st = "running"
             /\ Succeeds(c) \/ Fails(c)
             /\ UNCHANGED <<bind, plan, queue, ran>>

\* serveRPC, the end of handle, or the settled promise.  The errors of a path
\* have no code of their own.
Reply(c) ==
    /\ conn[c].st = "replying"
    /\ LET k == conn[c]
           code == IF k.code = 0 THEN 0 ELSE IF c \in Conns /\ isRPCEnvelope(k.name) THEN k.code ELSE 1
       IN conn' = [conn EXCEPT ![c] =
              [Answered(k, IF c \in Conns THEN 200 ELSE IF k.code = 0 THEN 1 ELSE 2, code)
               EXCEPT !.shown = [world |-> IF k.result.live THEN world ELSE k.result.world,
                                 num |-> IF c \in Conns THEN writeJSON(k.result.num) ELSE k.result.num]]]
    /\ UNCHANGED <<bind, plan, queue, holder, world, ran>>

\* The client goes away: reading fails, but what waits or runs goes on.
Abort(c) == /\ conn[c].st \in {"reading", "waiting", "running", "replying"} /\ ~conn[c].gone
            /\ conn' = [conn EXCEPT ![c] =
                  IF @.st = "reading" THEN [Answered(@, 500, 1) EXCEPT !.gone = TRUE] ELSE [@ EXCEPT !.gone = TRUE]]
            /\ UNCHANGED <<bind, plan, queue, holder, world, ran>>

\* The interval timer takes the lock as well.
MineBeside == /\ holder = None /\ world < MaxWorld /\ world' = world + 1
        /\ UNCHANGED <<bind, plan, conn, queue, holder, ran>>

HttpInit == /\ plan \in DOMAIN Plans /\ bind \in Plans[plan].binds
            /\ conn = [c \in Callers |-> Idle] /\ queue = << >> /\ holder = None /\ world = 0 /\ ran = {}

HttpNext == \/ \E c \in Conns : Accept(c) \/ Unparsed(c) \/ Chunk(c) \/ BodyEnd(c) \/ Abort(c)
            \/ \E p \in Programs : Request(p)
            \/ \E c \in Callers : Begin(c) \/ Finish(c) \/ Reply(c)
            \/ MineBeside

\* The event loop resumes whatever can go on; it owes nothing to a client
\* that does not send its body.
HttpFairness == \A c \in Callers : /\ WF_httpVars(Begin(c)) /\ WF_httpVars(Finish(c)) /\ WF_httpVars(Reply(c))
                                   /\ c \in Conns => WF_httpVars(BodyEnd(c))

HttpSpec == HttpInit /\ [][HttpNext]_httpVars /\ HttpFairness

(***************************************************************************)
(* Properties.                                                             *)
(***************************************************************************)
\* The lock has one holder that does not wait for it, nobody waits twice, and
\* only the verbs the servlets declare reach a handler.
HttpTypeOK ==
    /\ holder \in Callers \cup {None} /\ IsInjective(queue) /\ holder \notin Range(queue)
    /\ \A c \in Callers : conn[c].st = "running" => holder = c
    /\ \A e \in ran : e.by \in Conns => e.req.method \in {"GET", "HEAD", "POST"}

\* A request is answered once, whichever of its steps fails, and has its
\* answer when nothing more happens to it.
OneAnswer ==
    \A c \in Callers : conn[c].answers = (IF conn[c].st = "done" THEN 1 ELSE 0)

DevelopmentMethod(method) ==
    method \notin DOMAIN JAVA_TRON_ROUTES /\ method # <<"healthcheck">>

\* However a target is spelled, a development handler runs for an HTTP request
\* only if it came without an Origin, not from another site, and under a name
\* of this server; and none of its answers is readable by a page.
ControlGuarded ==
    /\ \A e \in ran : e.by \in Conns /\ DevelopmentMethod(methodName(e.method)) =>
          /\ ~e.req.origin /\ e.req.site # "cross-site"
          /\ bind # "*" => e.req.host \in {"loopback", bind}
          /\ e.req.host \notin {None, "malformed"}
    /\ \A e \in ran : DevelopmentMethod(methodName(e.method)) => ~conn[e.by].cors

\* The methods that are no paths run through the envelope alone: a request
\* for a path never starts one, although the table has them under that name.
EnvelopeOnly ==
    \A e \in ran : e.by \in Conns /\ methodName(e.method) \notin (DOMAIN JAVA_TRON_ROUTES) \cup (DOMAIN DEV_EXTENSIONS)
                      => pathOf(targetURL(e.req.target)) = <<"tre">>

\* No more than the ceiling is held of any body, and no handler runs for a
\* body past it.
BodyBounded ==
    /\ \A c \in Callers : conn[c].got <= MAX_BODY_BYTES
    /\ \A e \in ran : e.by \in Conns /\ e.req.method = "POST" => e.req.size <= MAX_BODY_BYTES

\* A reply shows the node as it was when its handler ended, whatever ran
\* between the release of the lock and the writing of the reply.
SnapshotExact ==
    \A c \in Callers : conn[c].st = "done" /\ conn[c].code = 0 /\ (\E e \in ran : e.by = c)
                         => conn[c].shown.world = conn[c].saw

\* The integers a caller put into the parts of its request.
Sent(c) == IF c \in Programs THEN {conn[c].req.num}
           ELSE IF conn[c].req.method = "POST" THEN {conn[c].req.query, conn[c].req.body.num}
           ELSE {conn[c].req.query}

\* An integer arrives at the handler and comes back in the reply with all its
\* digits, over HTTP and in a program.
NumbersExact ==
    \A c \in Callers : conn[c].st = "done" /\ conn[c].code = 0 /\ (\E e \in ran : e.by = c)
                         => conn[c].shown.num \in Sent(c)

\* The Allow header of a path is true: a verb is answered 405 exactly if it is
\* not listed.
AllowHonest ==
    \A c, d \in Conns :
       /\ conn[c].st = "done" /\ conn[d].st = "done" /\ conn[c].allow # {} /\ conn[d].name = conn[c].name
       /\ conn[d].req.method \in {"GET", "HEAD", "POST", "PUT", "DELETE"} /\ conn[d].status \notin {403, 413, 426, 500}
       => (conn[d].status = 405) = (conn[d].req.method \notin conn[c].allow)

\* An alias of a method takes the same bodies as the method: neither is
\* refused what the other accepts.
AliasAgrees ==
    \A c, d \in Conns :
       /\ conn[c].st = "done" /\ conn[d].st = "done" /\ conn[c].status = 200 /\ conn[d].status = 200
       /\ conn[c].name # conn[d].name /\ methodName(conn[c].name) = methodName(conn[d].name)
       /\ [conn[c].req EXCEPT !.target = conn[d].req.target] = conn[d].req
       => (\E e \in ran : e.by = c) = (\E e \in ran : e.by = d)

\* Whatever waits for the lock, runs or has its whole body is answered.
EveryoneAnswered ==
    \A c \in Callers : (conn[c].st \in {"waiting", "running", "replying"}
                        \/ (conn[c].st = "reading" /\ conn[c].got = conn[c].req.size))
                          ~> conn[c].st = "done"

\* One answer for every request, in the right envelope: with control paths out
\* of reach of pages, bodies bounded, snapshots exact and numbers unharmed.
ServerSound == /\ HttpTypeOK /\ OneAnswer /\ EnvelopeOnly /\ ControlGuarded /\ BodyBounded
               /\ SnapshotExact /\ NumbersExact /\ AllowHonest /\ AliasAgrees
=============================================================================
