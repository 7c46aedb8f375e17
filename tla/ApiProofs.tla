----------------------------- MODULE ApiProofs -----------------------------
(***************************************************************************)
(* For any routes, connections, programs and plans of what they ask: the   *)
(* server answers every request once, guards its controls, bounds bodies,  *)
(* and replies with the state and the numbers of the handler that ran.     *)
(*                                                                         *)
(* A caller asks once, and what becomes of it depends on its request, on   *)
(* the host the server is bound to and on how far it is (Consistent).  The *)
(* properties compare requests with handlers that started long before, or  *)
(* two requests with one another: with the invariant they are facts about  *)
(* the tables and about `handle`, which Decisions collects.                *)
(*                                                                         *)
(* For any contract message and any widths of its figures: whichever wire  *)
(* form it takes, it runs once and only while it is fresh.  Encoding stays *)
(* abstract: what counts is that an accepted message is identified by what *)
(* was signed (Identified), which the signature forces for JSON and the    *)
(* bound protobuf for broadcastHex.                                        *)
(***************************************************************************)
EXTENDS HttpServer, Envelope, SequenceTheorems, TLAPS

Stages == {"idle", "reading", "waiting", "running", "replying", "done"}

Path(r) == pathOf(targetURL(r.target))

Named == {Path(r) : r \in Requests} \cup {q.name : q \in Calls} \cup {<< >>}
Asking == Requests \cup Calls \cup {NoRequest}
Verbs == SUBSET {"GET", "HEAD", "POST", "TRACE", "OPTIONS"}
Results == [world : Nat, num : Int, live : {FALSE}]
Shown == [world : Nat, num : Int]

Records == [st : Stages, req : Asking, name : Named, got : Nat, num : Int, saw : Nat,
            result : Results, status : Nat, code : Int, shown : Shown, cors : BOOLEAN, allow : Verbs,
            answers : Nat, gone : BOOLEAN]

Types ==
    /\ plan \in DOMAIN Plans
    /\ conn \in [Callers -> Records] /\ queue \in Seq(Callers)
    /\ holder \in Callers \cup {None} /\ world \in Nat

\* The queue of the lock holds who waits, and its holder is who runs.
Lock ==
    /\ IsInjective(queue) /\ Range(queue) = {c \in Callers : conn[c].st = "waiting"}
    /\ \A c \in Callers : conn[c].st = "running" <=> holder = c

Started(c) == \E e \in ran : e.by = c

\* What ran for a caller is what its request asks.
RanAsAsked ==
    \A e \in ran : /\ e.by \in Callers /\ e.req = conn[e.by].req
                   /\ e.method = (IF e.by \in Conns THEN Asked(conn[e.by]) ELSE conn[e.by].name)

\* The fields are read and merged, and the method of an envelope is known.
Admissible(k) ==
    /\ ~readFields(k).refused
    /\ isRPCEnvelope(k.name) => hasHandler(Asked(k))
    /\ ~isRPCEnvelope(k.name) => ~mergeRefuses(k)

\* How far a connection is: not yet, refused by the parser, or as h, what
\* `handle` decided, says: only what was read whole and admitted waits or runs.
Routine(k, started, h) ==
    \/ k.st = "idle" /\ ~k.cors /\ k.allow = {} /\ ~started
    \/ k.st = "done" /\ k.req = NoRequest /\ k.allow = {} /\ ~started
    \/ /\ k.st # "idle" /\ k.req \in Requests
       /\ k.name = h.name /\ k.cors = h.cors /\ k.allow = h.allow
       /\ h.st = "done" => k.st = "done" /\ k.status = h.status /\ ~started
       /\ k.st = "reading" => k.req.method = "POST"
       /\ (k.st \in {"waiting", "running", "replying"} \/ started) =>
             /\ Admissible(k) /\ k.num = readFields(k).num
             /\ k.req.method = "POST" => k.got = k.req.size
       /\ h.st = "reading" /\ k.st = "done" =>
             /\ k.status \in {200, 413, 500}
             /\ k.status = 200 /\ Admissible(k) => started

\* The same for a program.
Called(k, started) ==
    /\ ~k.cors
    /\ \/ k.st = "idle" /\ ~started
       \/ k.st # "idle" /\ k.req \in Calls /\ k.name = k.req.name /\ k.num = k.req.num

Consistent(c, k, started, h) ==
    /\ k.answers = (IF k.st = "done" THEN 1 ELSE 0)
    /\ k.got <= MAX_BODY_BYTES
    /\ started => k.st \in {"running", "replying", "done"}
    /\ k.st \in {"running", "replying"} => started
    /\ k.st \in {"idle", "reading", "waiting", "running"} => k.code = 0
    /\ k.st = "replying" /\ k.code = 0 => k.result.world = k.saw /\ k.result.num = k.num
    /\ k.st = "done" /\ k.code = 0 /\ started => k.shown.world = k.saw /\ k.shown.num = k.num
    /\ IF c \in Conns THEN Routine(k, started, h) ELSE Called(k, started)

\* The inductive invariant.
IInv ==
    /\ Types /\ Lock /\ RanAsAsked
    /\ \A c \in Callers : Consistent(c, conn[c], Started(c), handle(conn[c].req, bind))

-----------------------------------------------------------------------------
(* What is decided before anything is awaited.                             *)

\* An answer keeps all but how far the request is.
Answer(a, k, status, code) ==
    /\ a \in Records /\ a.st = "done" /\ a.status = status /\ a.code = code
    /\ a.answers = k.answers + 1 /\ a.req = k.req /\ a.name = k.name /\ a.got = k.got
    /\ a.num = k.num /\ a.saw = k.saw /\ a.cors = k.cors /\ a.allow = k.allow
    /\ a.gone = k.gone /\ a.shown = k.shown /\ a.result = k.result

LEMMA AnsweredFacts ==
    ASSUME NEW k \in Records, NEW status \in Nat, NEW code \in Int
    PROVE  Answer(Answered(k, status, code), k, status, code)
<1> DEFINE a == Answered(k, status, code)
<1>1. k.answers \in Nat /\ "done" \in Stages
  BY DEF Records, Stages
<1>2. a = [k EXCEPT !.st = "done", !.status = status, !.code = code, !.answers = k.answers + 1]
  BY DEF Answered
<1>3. a \in Records
  <2> DEFINE b == [k EXCEPT !.st = "done"]
             d == [b EXCEPT !.status = status]
             e == [d EXCEPT !.code = code]
  <2>1. b \in Records
    BY <1>1 DEF Records
  <2> HIDE DEF b
  <2>2. d \in Records
    BY <2>1 DEF Records
  <2> HIDE DEF d
  <2>3. e \in Records
    BY <2>2 DEF Records
  <2> HIDE DEF e
  <2>4. [e EXCEPT !.answers = k.answers + 1] \in Records
    BY <1>1, <2>3 DEF Records
  <2> USE DEF b, d, e
  <2> QED
    BY <1>2, <2>4
<1>4. /\ a.st = "done" /\ a.status = status /\ a.code = code
      /\ a.answers = k.answers + 1 /\ a.req = k.req /\ a.name = k.name /\ a.got = k.got
      /\ a.num = k.num /\ a.saw = k.saw /\ a.cors = k.cors /\ a.allow = k.allow
      /\ a.gone = k.gone /\ a.shown = k.shown /\ a.result = k.result
  BY <1>1, <1>2 DEF Records
<1> QED
  BY <1>3, <1>4 DEF Answer

LEMMA IdleFacts ==
    /\ Idle \in Records /\ Idle.st = "idle" /\ Idle.req = NoRequest /\ Idle.got = 0 /\ Idle.num = 0
    /\ Idle.answers = 0 /\ Idle.code = 0 /\ ~Idle.cors /\ Idle.allow = {}
<1>1. << >> \in Named /\ {} \in Verbs /\ "idle" \in Stages /\ NoRequest \in Asking
  BY DEF Named, Stages, Verbs, Asking
<1>2. [world |-> 0, num |-> 0, live |-> FALSE] \in Results /\ [world |-> 0, num |-> 0] \in Shown
  BY DEF Results, Shown
<1> QED
  BY <1>1, <1>2 DEF Idle, Records

\* The verbs that may have a body or an answer.
Served == {"GET", "HEAD", "POST", "PUT", "DELETE"}

\* A verb is refused exactly if the header does not list it.
LEMMA Outcomes ==
    ASSUME NEW m, NEW kind
    PROVE  LET o == methodOutcome(m, kind)
           IN  /\ o \in {"404", "method-not-allowed", "empty", "run", "405", "501"}
               /\ o = "run" => /\ m \in {"GET", "HEAD", "POST"} /\ kind # None
                               /\ m \in allowHeader(kind)
               /\ m \in Served => (o \in {"method-not-allowed", "405"} <=> m \notin allowHeader(kind))
<1> DEFINE o == methodOutcome(m, kind)
<1>1. CASE m \in {"GET", "HEAD"}
  <2>1. o = (IF kind = None THEN "404" ELSE IF kind = "P" THEN "method-not-allowed"
             ELSE IF kind = "S" THEN "empty" ELSE "run")
    BY <1>1 DEF methodOutcome
  <2>2. m \in allowHeader(kind) <=> kind # "P"
    BY <1>1 DEF allowHeader
  <2> HIDE DEF o
  <2> QED
    BY <1>1, <2>1, <2>2 DEF None, o
<1>2. CASE m = "POST"
  <2>1. o = (IF kind \in {None, "G"} THEN "method-not-allowed" ELSE "run")
    BY <1>2 DEF methodOutcome
  <2>2. m \in allowHeader(kind) <=> kind \notin {None, "G"}
    BY <1>2 DEF allowHeader
  <2> HIDE DEF o
  <2> QED
    BY <1>2, <2>1, <2>2 DEF o
<1>3. CASE m \in {"PUT", "DELETE"}
  <2>1. o = "405" /\ m \notin allowHeader(kind)
    BY <1>3 DEF methodOutcome, allowHeader
  <2> QED
    BY <1>3, <2>1
<1>4. CASE m \notin Served
  <2>1. o = "501"
    BY <1>4 DEF methodOutcome, Served
  <2> QED
    BY <1>4, <2>1
<1> QED
  BY <1>1, <1>2, <1>3, <1>4 DEF Served

\* A path that is served, under a verb it declares.
Open(m, path) == methodOutcome(m, kindOf(path)) = "run" /\ (hasHandler(path) \/ isRPCEnvelope(path))

Before(k) == k \in Records /\ k.st = "idle" /\ k.answers = 0 /\ k.code = 0 /\ k.allow = {}

\* What the routes decide: an answer, or to read on where the path is open.
LEMMA RoutedFacts ==
    ASSUME NEW k, Before(k), NEW r, NEW path
    PROVE  LET w == Routed(k, r, path)
           IN  /\ w \in Records /\ w.req = k.req /\ w.name = k.name /\ w.got = k.got /\ w.cors = k.cors
               /\ \/ w.st = "reading" /\ w.answers = 0 /\ w.code = 0
                  \/ w.st = "done" /\ w.answers = 1
               /\ w.st = "reading" <=> Open(r.method, path)
               /\ w.allow # {} => w.st = "done" /\ ~isExtension(path) /\ w.allow = allowHeader(kindOf(path))
               /\ w.st = "done" /\ r.method \in Served =>
                     (w.status = 405 <=> r.method \notin allowHeader(kindOf(path)))
<1> DEFINE kind == kindOf(path)
           o == methodOutcome(r.method, kind)
           w == Routed(k, r, path)
           Carries(a) == a.req = k.req /\ a.name = k.name /\ a.got = k.got /\ a.cors = k.cors
<1>1. k \in Records /\ k.st = "idle" /\ k.answers = 0 /\ k.code = 0 /\ k.allow = {}
  BY DEF Before
<1>2. /\ o \in {"404", "method-not-allowed", "empty", "run", "405", "501"}
      /\ o = "run" => r.method \in {"GET", "HEAD", "POST"}
      /\ r.method \in Served => (o \in {"method-not-allowed", "405"} <=> r.method \notin allowHeader(kind))
  BY Outcomes
<1>3. ASSUME NEW status \in Nat, NEW code \in Int
      PROVE  LET a == Answered(k, status, code)
             IN  a \in Records /\ a.st = "done" /\ a.answers = 1 /\ a.status = status /\ a.allow = {} /\ Carries(a)
  <2> DEFINE a == Answered(k, status, code)
  <2>1. Answer(a, k, status, code)
    BY <1>1, <1>3, AnsweredFacts
  <2> HIDE DEF a
  <2>2. a.answers = 1
    BY <1>1, <2>1 DEF Answer
  <2> QED
    BY <1>1, <2>1, <2>2 DEF a, Answer
<1>4. CASE r.method = "OPTIONS"
  <2> DEFINE a == Answered(k, 200, 0)
             allow == IF isExtension(path) THEN {} ELSE allowHeader(kind)
  <2>1. a \in Records /\ a.st = "done" /\ a.answers = 1 /\ Carries(a)
    BY <1>3
  <2>2. w = [a EXCEPT !.allow = allow]
    BY <1>4 DEF Routed
  <2>3. allow \in Verbs
    BY DEF Verbs, allowHeader
  <2> HIDE DEF a, allow
  <2>4. /\ [a EXCEPT !.allow = allow] \in Records /\ [a EXCEPT !.allow = allow].st = "done"
        /\ [a EXCEPT !.allow = allow].answers = 1 /\ Carries([a EXCEPT !.allow = allow])
        /\ [a EXCEPT !.allow = allow].allow = allow
    BY <2>1, <2>3 DEF Records
  <2>5. ~Open(r.method, path)
    BY <1>2, <1>4 DEF Open
  <2>6. allow # {} => ~isExtension(path) /\ allow = allowHeader(kind)
    BY DEF allow
  <2> HIDE DEF w
  <2>7. w \in Records /\ w.st = "done" /\ w.answers = 1 /\ Carries(w) /\ w.allow = allow
    BY <2>2, <2>4
  <2> QED
    BY <1>4, <2>5, <2>6, <2>7 DEF Served, w
<1>5. CASE r.method # "OPTIONS" /\ (o = "run" => ~(hasHandler(path) \/ isRPCEnvelope(path)))
  <2>1. ~Open(r.method, path)
    BY <1>5 DEF Open
  <2>2. PICK status \in Nat, code \in Int :
          /\ w = Answered(k, status, code)
          /\ r.method \in Served => (status = 405 <=> o \in {"method-not-allowed", "405"})
    <3>1. CASE r.method = "TRACE"
      BY <3>1 DEF Routed, Served
    <3>2. CASE r.method # "TRACE" /\ o = "404"
      BY <1>5, <3>2 DEF Routed
    <3>3. CASE r.method # "TRACE" /\ o \in {"method-not-allowed", "405"}
      BY <1>5, <3>3 DEF Routed
    <3>4. CASE r.method # "TRACE" /\ o = "501"
      BY <1>5, <3>4 DEF Routed
    <3>5. CASE r.method # "TRACE" /\ o = "empty"
      BY <1>5, <3>5 DEF Routed
    <3>6. CASE r.method # "TRACE" /\ o = "run"
      <4>1. w = Answered(k, IF isExtension(path) THEN 404 ELSE 501, 1)
        BY <1>5, <3>6 DEF Routed
      <4> QED
        BY <3>6, <4>1
    <3> QED
      BY <1>2, <3>1, <3>2, <3>3, <3>4, <3>5, <3>6
  <2>3. w \in Records /\ w.st = "done" /\ w.answers = 1 /\ w.status = status /\ w.allow = {} /\ Carries(w)
    BY <1>3, <2>2
  <2> QED
    BY <1>2, <2>1, <2>2, <2>3
<1>6. CASE o = "run" /\ (hasHandler(path) \/ isRPCEnvelope(path))
  <2>1. Open(r.method, path)
    BY <1>6 DEF Open
  <2>2. w = [k EXCEPT !.st = "reading"]
    BY <1>2, <1>6 DEF Routed
  <2>3. "reading" \in Stages
    BY DEF Stages
  <2>4. /\ [k EXCEPT !.st = "reading"] \in Records /\ [k EXCEPT !.st = "reading"].st = "reading"
        /\ Carries([k EXCEPT !.st = "reading"]) /\ [k EXCEPT !.st = "reading"].allow = {}
        /\ [k EXCEPT !.st = "reading"].answers = 0 /\ [k EXCEPT !.st = "reading"].code = 0
    BY <1>1, <2>3 DEF Records
  <2> QED
    BY <2>1, <2>2, <2>4
<1> QED
  BY <1>2, <1>4, <1>5, <1>6

\* Who may ask for a path.
Admitted(r, host) ==
    /\ r.version < 2 /\ Path(r) # <<None>>
    /\ isControlRoute(Path(r)) => ~Forbidden(r, host)

Decided(r, host, h) ==
    /\ h \in Records /\ h.req = r /\ h.name = Path(r) /\ h.got = 0
    /\ \/ h.st = "reading" /\ h.answers = 0 /\ h.code = 0
       \/ h.st = "done" /\ h.answers = 1
    /\ h.st = "reading" <=> (Admitted(r, host) /\ Open(r.method, Path(r)))
    /\ Path(r) = <<None>> => h.status \in {400, 426}
    /\ h.cors => ~isControlRoute(Path(r))
    /\ h.allow # {} => /\ h.st = "done" /\ Path(r) # <<None>> /\ ~isExtension(Path(r))
                       /\ h.allow = allowHeader(kindOf(Path(r)))
    /\ (h.st = "done" /\ r.method \in Served /\ h.status \notin {403, 426} /\ Path(r) # <<None>>) =>
          (h.status = 405 <=> r.method \notin allowHeader(kindOf(Path(r))))

\* What `handle` decides for a request.
LEMMA Decisions ==
    ASSUME NEW r \in Requests, NEW host
    PROVE  Decided(r, host, handle(r, host))
<1> DEFINE path == Path(r)
           k == [Idle EXCEPT !.req = r, !.name = path]
           open == [k EXCEPT !.cors = TRUE]
           h == handle(r, host)
<1>1. path \in Named /\ r \in Asking
  BY DEF Named, Asking
<1>2. Before(k) /\ k.req = r /\ k.name = path /\ k.got = 0 /\ ~k.cors
  <2> DEFINE a == [Idle EXCEPT !.req = r]
  <2>1. /\ a \in Records /\ a.st = "idle" /\ a.answers = 0 /\ a.code = 0 /\ a.allow = {}
        /\ a.req = r /\ a.got = 0 /\ ~a.cors
    BY <1>1, IdleFacts DEF Records
  <2> HIDE DEF a
  <2> DEFINE d == [a EXCEPT !.name = path]
  <2>2. /\ d \in Records /\ d.st = "idle" /\ d.answers = 0 /\ d.code = 0 /\ d.allow = {}
        /\ d.req = r /\ d.got = 0 /\ ~d.cors /\ d.name = path
    BY <1>1, <2>1 DEF Records
  <2>3. k = d
    BY DEF a, d
  <2> HIDE DEF k, d
  <2> QED
    BY <2>2, <2>3 DEF Before
<1>3. h = (IF r.version >= 2 THEN Answered(k, 426, 1)
           ELSE IF path = <<None>> THEN Answered(k, 400, 1)
           ELSE IF isControlRoute(path)
                THEN IF Forbidden(r, host) THEN Answered(k, 403, 1) ELSE Routed(k, r, path)
           ELSE Routed(open, r, path))
  BY DEF handle, Path
<1> HIDE DEF k
<1>4. Before(open) /\ open.req = r /\ open.name = path /\ open.got = 0
  BY <1>2 DEF Before, Records
<1>5. r.version \in Nat
  BY DEF Requests
<1> HIDE DEF h, path, open
<1>6. ASSUME NEW status \in {400, 403, 426}, h = Answered(k, status, 1), ~Admitted(r, host),
             IF path = <<None>> THEN status # 403 ELSE status # 400
      PROVE  Decided(r, host, h)
  <2>1. k \in Records /\ status \in Nat /\ 1 \in Int /\ k.answers = 0 /\ k.allow = {}
    BY <1>2, <1>6 DEF Before
  <2>2. Answer(Answered(k, status, 1), k, status, 1)
    BY <2>1, AnsweredFacts
  <2> QED
    BY <1>2, <1>6, <2>1, <2>2 DEF Decided, Answer, path
<1>7. ASSUME NEW b, Before(b), b.req = r, b.name = path, b.got = 0, b.cors => ~isControlRoute(path),
             h = Routed(b, r, path), Admitted(r, host)
      PROVE  Decided(r, host, h)
  <2>1. /\ h \in Records /\ h.req = b.req /\ h.name = b.name /\ h.got = b.got /\ h.cors = b.cors
        /\ \/ h.st = "reading" /\ h.answers = 0 /\ h.code = 0
           \/ h.st = "done" /\ h.answers = 1
        /\ h.st = "reading" <=> Open(r.method, path)
        /\ h.allow # {} => h.st = "done" /\ ~isExtension(path) /\ h.allow = allowHeader(kindOf(path))
        /\ h.st = "done" /\ r.method \in Served => (h.status = 405 <=> r.method \notin allowHeader(kindOf(path)))
    BY <1>7, RoutedFacts
  <2>2. path # <<None>>
    BY <1>7 DEF Admitted, path
  <2> QED
    BY <1>7, <2>1, <2>2 DEF Decided, path
<1>8. CASE r.version >= 2
  BY <1>3, <1>5, <1>6, <1>8 DEF Admitted, h
<1>9. CASE r.version < 2 /\ path = <<None>>
  <2>1. h = Answered(k, 400, 1)
    BY <1>3, <1>5, <1>9
  <2>2. ~Admitted(r, host)
    BY <1>9 DEF Admitted, path
  <2> QED
    BY <1>6, <1>9, <2>1, <2>2 DEF h
<1>10. CASE r.version < 2 /\ path # <<None>> /\ isControlRoute(path) /\ Forbidden(r, host)
  BY <1>3, <1>5, <1>6, <1>10 DEF Admitted, path, h
<1>11. CASE r.version < 2 /\ path # <<None>> /\ isControlRoute(path) /\ ~Forbidden(r, host)
  <2>1. Admitted(r, host) /\ h = Routed(k, r, path)
    BY <1>3, <1>5, <1>11 DEF Admitted, path
  <2> QED
    BY <1>2, <1>7, <2>1 DEF h
<1>12. CASE r.version < 2 /\ path # <<None>> /\ ~isControlRoute(path)
  <2>1. Admitted(r, host) /\ h = Routed(open, r, path)
    BY <1>3, <1>5, <1>12 DEF Admitted, path
  <2> QED
    BY <1>4, <1>7, <1>12, <2>1 DEF h
<1> QED
  BY <1>5, <1>8, <1>9, <1>10, <1>11, <1>12

-----------------------------------------------------------------------------
(* From the fields to the lock.                                            *)

\* An integer keeps its digits: MaxSafe is odd, so that a rounded integer is
\* out of reach of the exact ones.
LEMMA Exact ==
    ASSUME NEW n \in Int
    PROVE  restoreIntegers(n) = n /\ (Safe(n) => JSNumber(n) = n)
<1>1. MaxSafe \in Nat /\ MaxSafe % 2 = 1
  BY HttpAssumption
<1>2. CASE Safe(n)
  BY <1>2 DEF Safe, JSNumber, restoreIntegers
<1>3. CASE ~Safe(n)
  <2>1. JSNumber(n) = 2 * (n \div 2)
    BY <1>3 DEF JSNumber
  <2>2. 2 * (n \div 2) \in Int /\ 2 * (n \div 2) <= n /\ n <= 2 * (n \div 2) + 1
    OBVIOUS
  <2>3. n < -MaxSafe \/ n > MaxSafe
    BY <1>1, <1>3 DEF Safe
  <2>4. 2 * (n \div 2) # MaxSafe
    BY <1>1
  <2>5. ~Safe(2 * (n \div 2))
    BY <1>1, <2>2, <2>3, <2>4 DEF Safe
  <2> QED
    BY <1>3, <2>1, <2>5 DEF restoreIntegers
<1> QED
  BY <1>2, <1>3

\* The fields of a request hold an integer that was sent.
LEMMA FieldsFacts ==
    ASSUME NEW k \in Records, k.req \in Requests
    PROVE  /\ readFields(k).num \in Int
           /\ ~readFields(k).refused =>
                readFields(k).num \in (IF k.req.method = "POST" THEN {k.req.query, k.req.body.num} ELSE {k.req.query})
<1>1. k.req.query \in Int /\ k.req.body.num \in Int
  BY DEF Requests, Contents
<1>2. restoreIntegers(k.req.body.num) = k.req.body.num
  BY <1>1, Exact
<1>3. CASE k.req.method # "POST"
  BY <1>1, <1>3 DEF readFields
<1>4. CASE k.req.method = "POST"
  <2>1. CASE isQueryOnly(k.name)
    BY <1>1, <1>4, <2>1 DEF readFields
  <2>2. CASE ~isQueryOnly(k.name) /\ k.req.form /\ k.req.body.shape \in {"malformed", "fields"}
    BY <1>1, <1>4, <2>2 DEF readFields
  <2>3. CASE ~isQueryOnly(k.name) /\ ~(k.req.form /\ k.req.body.shape \in {"malformed", "fields"})
    <3>1. readFields(k) = parseJSONBody(k.req.body)
      BY <1>4, <2>3 DEF readFields
    <3> QED
      BY <1>1, <1>2, <1>4, <3>1 DEF parseJSONBody
  <2> QED
    BY <2>1, <2>2, <2>3
<1> QED
  BY <1>3, <1>4

\* What is read depends on the request and its path alone.
LEMMA SameFields ==
    ASSUME NEW k, NEW w, k.req = w.req, k.name = w.name
    PROVE  readFields(k) = readFields(w) /\ (Admissible(k) <=> Admissible(w)) /\ Asked(k) = Asked(w)
<1>1. readFields(k) = readFields(w)
  BY DEF readFields
<1>2. Asked(k) = Asked(w) /\ (mergeRefuses(k) <=> mergeRefuses(w))
  BY DEF Asked, mergeRefuses
<1> QED
  BY <1>1, <1>2 DEF Admissible

Proceeded(w, k) ==
    /\ w \in Records /\ w.req = k.req /\ w.name = k.name /\ w.got = k.got /\ w.cors = k.cors /\ w.allow = k.allow
    /\ IF Admissible(k) THEN w.st = "waiting" /\ w.num = readFields(k).num /\ w.answers = k.answers /\ w.code = k.code
       ELSE w.st = "done" /\ w.status = 200 /\ w.answers = k.answers + 1

\* What is admitted goes to the lock, and the rest is answered.
LEMMA ProceedsFacts ==
    ASSUME NEW k \in Records, k.req \in Requests
    PROVE  Proceeded(Proceeds(k), k)
<1> DEFINE w == Proceeds(k)
           fields == readFields(k)
<1>1. fields.num \in Int
  BY FieldsFacts
<1>2. w = (IF fields.refused THEN Answered(k, 200, 1)
           ELSE IF isRPCEnvelope(k.name) /\ ~hasHandler(Asked(k)) THEN Answered(k, 200, -32601)
           ELSE IF ~isRPCEnvelope(k.name) /\ mergeRefuses(k) THEN Answered(k, 200, 1)
           ELSE [k EXCEPT !.st = "waiting", !.num = fields.num])
  BY DEF Proceeds
<1>3. Admissible(k) <=> /\ ~fields.refused /\ ~(isRPCEnvelope(k.name) /\ ~hasHandler(Asked(k)))
                        /\ ~(~isRPCEnvelope(k.name) /\ mergeRefuses(k))
  BY DEF Admissible
<1> HIDE DEF w, fields
<1>4. CASE ~Admissible(k)
  <2>1. PICK code \in Int : w = Answered(k, 200, code)
    BY <1>2, <1>3, <1>4
  <2>2. Answer(w, k, 200, code)
    BY <2>1, AnsweredFacts
  <2> QED
    BY <1>4, <2>2 DEF Answer, Proceeded, w
<1>5. CASE Admissible(k)
  <2> DEFINE a == [k EXCEPT !.st = "waiting"]
             d == [a EXCEPT !.num = fields.num]
  <2>1. w = d
    BY <1>2, <1>3, <1>5
  <2>2. a \in Records /\ a.st = "waiting"
    BY DEF Records, Stages
  <2>3. /\ a.req = k.req /\ a.name = k.name /\ a.got = k.got /\ a.cors = k.cors /\ a.allow = k.allow
        /\ a.answers = k.answers /\ a.code = k.code
    BY DEF Records
  <2> HIDE DEF a
  <2>4. /\ d \in Records /\ d.st = "waiting" /\ d.num = fields.num
        /\ d.req = a.req /\ d.name = a.name /\ d.got = a.got /\ d.cors = a.cors /\ d.allow = a.allow
        /\ d.answers = a.answers /\ d.code = a.code
    BY <1>1, <2>2 DEF Records
  <2> HIDE DEF d
  <2> QED
    BY <1>5, <2>1, <2>3, <2>4 DEF Proceeded, w, fields
<1> QED
  BY <1>4, <1>5

-----------------------------------------------------------------------------
(* The queue of the lock, and one caller at a time.                        *)

LEMMA Appended ==
    ASSUME NEW S, NEW q \in Seq(S), NEW x \in S, IsInjective(q), x \notin Range(q)
    PROVE  /\ Append(q, x) \in Seq(S) /\ IsInjective(Append(q, x)) /\ Range(Append(q, x)) = Range(q) \cup {x}
<1> DEFINE a == Append(q, x)
<1>1. /\ a \in Seq(S) /\ Len(a) = Len(q) + 1 /\ Len(q) \in Nat
      /\ (\A i \in 1..Len(q) : a[i] = q[i]) /\ a[Len(q) + 1] = x
  OBVIOUS
<1>2. DOMAIN a = 1..(Len(q) + 1) /\ DOMAIN q = 1..Len(q)
  BY <1>1
<1> HIDE DEF a
<1>3. Range(a) = Range(q) \cup {x}
  <2>1. \A y \in Range(a) : y \in Range(q) \cup {x}
    BY <1>1, <1>2 DEF Range
  <2>2. \A y \in Range(q) : y \in Range(a)
    BY <1>1, <1>2 DEF Range
  <2>3. Len(q) + 1 \in DOMAIN a
    BY <1>1, <1>2
  <2>4. x \in Range(a)
    BY <1>1, <2>3 DEF Range
  <2> QED
    BY <2>1, <2>2, <2>4
<1>4. IsInjective(a)
  <2> SUFFICES ASSUME NEW i \in 1..(Len(q) + 1), NEW j \in 1..(Len(q) + 1), a[i] = a[j]
               PROVE  i = j
    BY <1>2 DEF IsInjective
  <2>1. \A n \in 1..Len(q) : q[n] # x
    BY <1>2 DEF Range
  <2>2. \A m, n \in 1..Len(q) : q[m] = q[n] => m = n
    BY <1>2 DEF IsInjective
  <2>3. (i \in 1..Len(q) \/ i = Len(q) + 1) /\ (j \in 1..Len(q) \/ j = Len(q) + 1)
    BY <1>1
  <2> QED
    BY <1>1, <2>1, <2>2, <2>3
<1> QED
  BY <1>1, <1>3, <1>4 DEF a

LEMMA Tailed ==
    ASSUME NEW S, NEW q \in Seq(S), q # << >>, IsInjective(q)
    PROVE  /\ Head(q) \in Range(q) /\ Tail(q) \in Seq(S) /\ IsInjective(Tail(q))
           /\ Range(Tail(q)) = Range(q) \ {Head(q)}
<1> DEFINE t == Tail(q)
<1>1. /\ t \in Seq(S) /\ Len(t) = Len(q) - 1 /\ Len(q) \in Nat \ {0} /\ Head(q) = q[1]
      /\ \A i \in 1..Len(t) : t[i] = q[i + 1]
  OBVIOUS
<1>2. DOMAIN t = 1..(Len(q) - 1) /\ DOMAIN q = 1..Len(q)
  BY <1>1
<1>3. \A m, n \in 1..Len(q) : q[m] = q[n] => m = n
  BY <1>2 DEF IsInjective
<1> HIDE DEF t
<1>4. Head(q) \in Range(q)
  BY <1>1, <1>2 DEF Range
<1>5. IsInjective(t)
  <2> SUFFICES ASSUME NEW i \in 1..(Len(q) - 1), NEW j \in 1..(Len(q) - 1), t[i] = t[j]
               PROVE  i = j
    BY <1>2 DEF IsInjective
  <2>1. q[i + 1] = q[j + 1] /\ i + 1 \in 1..Len(q) /\ j + 1 \in 1..Len(q)
    BY <1>1
  <2>2. i + 1 = j + 1
    BY <1>3, <2>1
  <2> QED
    BY <2>2
<1>6. Range(t) = Range(q) \ {Head(q)}
  <2>1. \A y \in Range(t) : y \in Range(q) /\ y # Head(q)
    <3> SUFFICES ASSUME NEW i \in 1..(Len(q) - 1) PROVE t[i] \in Range(q) /\ t[i] # Head(q)
      BY <1>2 DEF Range
    <3>1. t[i] = q[i + 1] /\ i + 1 \in 1..Len(q) /\ i + 1 # 1 /\ 1 \in 1..Len(q)
      BY <1>1
    <3> QED
      BY <1>1, <1>2, <1>3, <3>1 DEF Range
  <2>2. \A y \in Range(q) : y = Head(q) \/ y \in Range(t)
    <3> SUFFICES ASSUME NEW i \in 1..Len(q), i # 1 PROVE q[i] \in Range(t)
      BY <1>1, <1>2 DEF Range
    <3>1. i - 1 \in 1..(Len(q) - 1) /\ t[i - 1] = q[i]
      BY <1>1
    <3> QED
      BY <1>2, <3>1 DEF Range
  <2> QED
    BY <2>1, <2>2
<1> QED
  BY <1>1, <1>4, <1>5, <1>6 DEF t

\* A step of one caller leaves the others as they are.
LEMMA Moved ==
    ASSUME IInv, NEW c \in Callers, NEW k \in Records, conn' = [conn EXCEPT ![c] = k], UNCHANGED <<bind, plan>>,
           \A d \in Callers \ {c} : Started(d)' <=> Started(d),
           Consistent(c, k, Started(c)', handle(k.req, bind))
    PROVE  /\ conn' \in [Callers -> Records] /\ conn'[c] = k /\ (\A d \in Callers \ {c} : conn'[d] = conn[d])
           /\ plan' \in DOMAIN Plans
           /\ (\A d \in Callers : Consistent(d, conn[d], Started(d), handle(conn[d].req, bind)))'
<1>1. conn \in [Callers -> Records] /\ plan \in DOMAIN Plans
  BY DEF IInv, Types
<1>2. conn' \in [Callers -> Records] /\ conn'[c] = k /\ (\A d \in Callers \ {c} : conn'[d] = conn[d])
  BY <1>1
<1>3. ASSUME NEW d \in Callers \ {c}
      PROVE  Consistent(d, conn'[d], Started(d)', handle(conn'[d].req, bind'))
  <2>1. Consistent(d, conn[d], Started(d), handle(conn[d].req, bind))
    BY DEF IInv
  <2>2. conn'[d] = conn[d]
    BY <1>2
  <2>3. CASE Started(d)
    <3>1. Started(d) = TRUE /\ Started(d)' = TRUE
      BY <2>3
    <3> QED
      BY <2>1, <2>2, <3>1
  <2>4. CASE ~Started(d)
    <3>1. Started(d) = FALSE /\ Started(d)' = FALSE
      BY <2>4
    <3> QED
      BY <2>1, <2>2, <3>1
  <2> QED
    BY <2>3, <2>4
<1> QED
  BY <1>1, <1>2, <1>3

\* A caller that has not come to the lock moves on, or to its queue.
LEMMA Enqueued ==
    ASSUME IInv, NEW c \in Callers, NEW k \in Records, conn[c].st \in {"idle", "reading"},
           k.st \in {"reading", "waiting", "done"}, k.req \in Asking,
           Became(c, k), UNCHANGED <<bind, plan, holder, world, ran>>,
           Consistent(c, k, FALSE, handle(k.req, bind))
    PROVE  IInv'
<1>1. /\ conn \in [Callers -> Records] /\ queue \in Seq(Callers) /\ holder \in Callers \cup {None} /\ world \in Nat
      /\ IsInjective(queue) /\ Range(queue) = {d \in Callers : conn[d].st = "waiting"}
      /\ \A d \in Callers : conn[d].st = "running" <=> holder = d
  BY DEF IInv, Types, Lock
<1>2. conn' = [conn EXCEPT ![c] = k] /\ queue' = IF k.st = "waiting" THEN Append(queue, c) ELSE queue
  BY DEF Became
<1>3. Started(c) = FALSE
  <2>1. Consistent(c, conn[c], Started(c), handle(conn[c].req, bind))
    BY DEF IInv
  <2> QED
    BY <2>1 DEF Consistent
<1>4. ran' = ran /\ bind' = bind /\ plan' = plan /\ holder' = holder /\ world' = world
  OBVIOUS
<1>5. \A d \in Callers : Started(d)' <=> Started(d)
  BY <1>4 DEF Started
<1>6. Consistent(c, k, Started(c)', handle(k.req, bind))
  <2>1. Started(c)' = FALSE
    BY <1>3, <1>5
  <2> QED
    BY <2>1
<1>7. /\ conn' \in [Callers -> Records] /\ conn'[c] = k /\ (\A d \in Callers \ {c} : conn'[d] = conn[d])
      /\ plan' \in DOMAIN Plans
      /\ (\A d \in Callers : Consistent(d, conn[d], Started(d), handle(conn[d].req, bind)))'
  BY <1>2, <1>4, <1>5, <1>6, Moved
<1>8. /\ queue' \in Seq(Callers) /\ IsInjective(queue')
      /\ Range(queue') = Range(queue) \cup (IF k.st = "waiting" THEN {c} ELSE {})
  <2>1. CASE k.st = "waiting"
    <3>1. c \notin Range(queue)
      BY <1>1
    <3>2. queue' = Append(queue, c)
      BY <1>2, <2>1
    <3> QED
      BY <1>1, <2>1, <3>1, <3>2, Appended
  <2>2. CASE k.st # "waiting"
    BY <1>1, <1>2, <2>2
  <2> QED
    BY <2>1, <2>2
<1>9. Types'
  BY <1>1, <1>4, <1>7, <1>8 DEF Types
<1>10. Lock'
  <2>1. \A d \in Callers : d \in Range(queue') <=> conn'[d].st = "waiting"
    BY <1>1, <1>7, <1>8
  <2>2. \A d \in Range(queue') : d \in Callers
    BY <1>1, <1>8
  <2>3. Range(queue') = {d \in Callers : conn'[d].st = "waiting"}
    BY <2>1, <2>2
  <2>4. \A d \in Callers : conn'[d].st = "running" <=> holder' = d
    BY <1>1, <1>4, <1>7
  <2> QED
    BY <1>8, <2>3, <2>4 DEF Lock
<1>11. RanAsAsked'
  <2>1. ASSUME NEW e \in ran
        PROVE  /\ e.by \in Callers /\ e.req = conn'[e.by].req
               /\ e.method = (IF e.by \in Conns THEN Asked(conn'[e.by]) ELSE conn'[e.by].name)
    <3>1. e.by # c
      BY <1>3 DEF Started
    <3>2. /\ e.by \in Callers /\ e.req = conn[e.by].req
          /\ e.method = (IF e.by \in Conns THEN Asked(conn[e.by]) ELSE conn[e.by].name)
      BY DEF IInv, RanAsAsked
    <3>3. conn'[e.by] = conn[e.by]
      BY <1>7, <3>1, <3>2
    <3> QED
      BY <3>2, <3>3
  <2> QED
    BY <1>4, <2>1 DEF RanAsAsked
<1> QED
  BY <1>7, <1>9, <1>10, <1>11 DEF IInv

Waited(c, r, host, w) ==
    /\ w \in Records /\ w.st \in {"waiting", "done"} /\ w.req = r
    /\ Consistent(c, w, FALSE, handle(r, host))

\* What waits for the lock has its part of the invariant from its fields.
LEMMA Waits ==
    ASSUME NEW c \in Conns, NEW host, NEW r \in Requests, NEW k \in Records, k.req = r,
           k.name = Path(r), k.st = "reading", k.answers = 0, k.code = 0, k.got <= MAX_BODY_BYTES,
           handle(r, host).st = "reading",
           k.cors = handle(r, host).cors, k.allow = handle(r, host).allow,
           r.method = "POST" => k.got = r.size
    PROVE  Waited(c, r, host, Proceeds(k))
<1> DEFINE w == Proceeds(k)
           h == handle(r, host)
<1>1. /\ h.name = Path(r) /\ h.st = "reading"
  BY Decisions DEF Decided
<1>2. /\ w \in Records /\ w.req = r /\ w.name = k.name /\ w.got = k.got /\ w.cors = k.cors /\ w.allow = k.allow
      /\ IF Admissible(k) THEN w.st = "waiting" /\ w.num = readFields(k).num /\ w.answers = k.answers /\ w.code = k.code
         ELSE w.st = "done" /\ w.status = 200 /\ w.answers = k.answers + 1
  BY ProceedsFacts DEF Proceeded
<1> HIDE DEF w, h
<1>3. readFields(w) = readFields(k) /\ (Admissible(w) <=> Admissible(k))
  BY <1>2, SameFields
<1>4. h.cors = k.cors /\ h.allow = k.allow
  BY DEF h
<1>5. CASE Admissible(k)
  <2>1. w.st = "waiting" /\ w.num = readFields(w).num /\ w.answers = 0 /\ w.code = 0 /\ Admissible(w)
    BY <1>2, <1>3, <1>5
  <2>2. Routine(w, FALSE, h)
    BY <1>1, <1>2, <1>4, <2>1 DEF Routine
  <2>3. Consistent(c, w, FALSE, h)
    BY <1>2, <2>1, <2>2 DEF Consistent
  <2> QED
    BY <1>2, <2>1, <2>3 DEF w, h, Waited
<1>6. CASE ~Admissible(k)
  <2>1. w.st = "done" /\ w.status = 200 /\ w.answers = 1 /\ ~Admissible(w)
    BY <1>2, <1>3, <1>6
  <2>2. Routine(w, FALSE, h)
    BY <1>1, <1>2, <1>4, <2>1 DEF Routine
  <2>3. Consistent(c, w, FALSE, h)
    BY <1>2, <2>1, <2>2 DEF Consistent
  <2> QED
    BY <1>2, <2>1, <2>3 DEF w, h, Waited
<1> QED
  BY <1>5, <1>6

\* A request arrives.
LEMMA AcceptKeeps == ASSUME IInv, NEW c \in Conns, Accept(c) PROVE IInv'
<1>1. PICK r \in {q \in Plans[plan].asks[c] : "fault" \notin DOMAIN q} :
        Became(c, IF handle(r, bind).st = "reading" /\ r.method # "POST" THEN Proceeds(handle(r, bind)) ELSE handle(r, bind))
  BY DEF Accept
<1>2. c \in Callers /\ conn[c].st = "idle" /\ UNCHANGED <<bind, plan, holder, world, ran>>
  BY DEF Accept, Callers
<1>3. r \in Requests
  <2>1. plan \in DOMAIN Plans
    BY DEF IInv, Types
  <2>2. r \in Requests \cup Faults
    BY <2>1, HttpAssumption
  <2>3. \A q \in Faults : DOMAIN q = {"fault", "token", "two", "longLine"}
    BY DEF Faults
  <2>4. "fault" \notin DOMAIN r
    OBVIOUS
  <2> QED
    BY <2>2, <2>3, <2>4
<1> DEFINE h == handle(r, bind)
<1>4. Decided(r, bind, h)
  BY <1>3, Decisions
<1>5. /\ h \in Records /\ h.req = r /\ h.name = Path(r) /\ h.got = 0
      /\ \/ h.st = "reading" /\ h.answers = 0 /\ h.code = 0
         \/ h.st = "done" /\ h.answers = 1
  BY <1>4 DEF Decided
<1>6. MAX_BODY_BYTES \in Nat /\ r \in Asking
  BY <1>3, HttpAssumption DEF Asking
<1> HIDE DEF h
<1>7. CASE h.st = "reading" /\ r.method # "POST"
  <2> DEFINE w == Proceeds(h)
  <2>1. Became(c, w)
    BY <1>1, <1>7 DEF h
  <2>2. Waited(c, r, bind, w)
    <3>1. handle(r, bind) = h
      BY DEF h
    <3>2. /\ h \in Records /\ h.req = r /\ h.name = Path(r) /\ h.st = "reading" /\ h.answers = 0 /\ h.code = 0
          /\ h.got <= MAX_BODY_BYTES /\ r.method # "POST"
      BY <1>5, <1>6, <1>7
    <3>3. handle(r, bind).st = "reading" /\ h.cors = handle(r, bind).cors /\ h.allow = handle(r, bind).allow
      BY <3>1, <3>2
    <3> HIDE DEF w
    <3> QED
      BY <1>3, <3>2, <3>3, Waits DEF w
  <2> HIDE DEF w
  <2>3. /\ w \in Records /\ w.st \in {"reading", "waiting", "done"} /\ w.req \in Asking
        /\ Consistent(c, w, FALSE, handle(w.req, bind))
    BY <1>6, <2>2 DEF Waited
  <2> QED
    BY <1>2, <2>1, <2>3, Enqueued
<1>8. CASE ~(h.st = "reading" /\ r.method # "POST")
  <2>1. Became(c, h)
    BY <1>1, <1>8 DEF h
  <2>2. Routine(h, FALSE, h)
    BY <1>3, <1>5, <1>8 DEF Routine
  <2>3. Consistent(c, h, FALSE, h)
    <3>1. h.got <= MAX_BODY_BYTES
      BY <1>5, <1>6
    <3>2. /\ h.st \in {"reading", "done"} /\ h.answers = (IF h.st = "done" THEN 1 ELSE 0)
          /\ h.st = "reading" => h.code = 0
      BY <1>5
    <3> QED
      BY <2>2, <3>1, <3>2 DEF Consistent
  <2>4. Consistent(c, h, FALSE, handle(h.req, bind))
    BY <1>5, <2>3 DEF h
  <2> QED
    BY <1>2, <1>5, <1>6, <2>1, <2>4, Enqueued
<1> QED
  BY <1>7, <1>8

\* The parser's refusal.
LEMMA UnparsedKeeps == ASSUME IInv, NEW c \in Conns, Unparsed(c) PROVE IInv'
<1>1. PICK r \in {q \in Plans[plan].asks[c] : "fault" \in DOMAIN q} : Became(c, Answered(Idle, parseFailure(r), 1))
  BY DEF Unparsed
<1>2. c \in Callers /\ conn[c].st = "idle" /\ UNCHANGED <<bind, plan, holder, world, ran>>
  BY DEF Unparsed, Callers
<1> DEFINE w == Answered(Idle, parseFailure(r), 1)
<1>3. Answer(w, Idle, parseFailure(r), 1)
  <2>1. parseFailure(r) \in Nat /\ 1 \in Int
    BY DEF parseFailure
  <2> QED
    BY <2>1, IdleFacts, AnsweredFacts
<1> HIDE DEF w
<1>4. /\ w \in Records /\ w.st = "done" /\ w.req = NoRequest /\ w.answers = 1 /\ w.got = 0 /\ w.allow = {}
  BY <1>3, IdleFacts DEF Answer
<1>5. \A h : Routine(w, FALSE, h)
  BY <1>4 DEF Routine
<1>6. w.got <= MAX_BODY_BYTES
  BY <1>4, HttpAssumption
<1>7. \A h : Consistent(c, w, FALSE, h)
  BY <1>4, <1>5, <1>6 DEF Consistent
<1>8. Became(c, w) /\ NoRequest \in Asking
  BY <1>1 DEF w, Asking
<1> QED
  BY <1>2, <1>4, <1>7, <1>8, Enqueued

\* A connection that reads its body.
Reads(c, k, host) ==
    /\ k \in Records /\ k.req \in Requests /\ k.req \in Asking /\ k.name = Path(k.req) /\ k.req.method = "POST"
    /\ k.st = "reading" /\ k.answers = 0 /\ k.code = 0 /\ k.got <= MAX_BODY_BYTES /\ k.got \in Nat
    /\ handle(k.req, host).st = "reading" /\ handle(k.req, host).name = Path(k.req)
    /\ k.cors = handle(k.req, host).cors /\ k.allow = handle(k.req, host).allow

LEMMA ReadingFacts ==
    ASSUME IInv, NEW c \in Conns, conn[c].st = "reading"
    PROVE  Reads(c, conn[c], bind)
<1> DEFINE k == conn[c]
           h == handle(k.req, bind)
<1>1. c \in Callers /\ k \in Records
  BY DEF Callers, IInv, Types
<1>2. Consistent(c, k, Started(c), h)
  BY <1>1 DEF IInv
<1>3. k.st = "reading"
  OBVIOUS
<1> HIDE DEF k, h
<1>4. k.answers = 0 /\ k.got <= MAX_BODY_BYTES /\ k.code = 0 /\ Routine(k, Started(c), h)
  BY <1>2, <1>3 DEF Consistent
<1>5. /\ k.req \in Requests /\ k.name = h.name /\ k.cors = h.cors /\ k.allow = h.allow
      /\ h.st # "done" /\ k.req.method = "POST"
  BY <1>3, <1>4 DEF Routine
<1>6. Decided(k.req, bind, h)
  BY <1>5, Decisions DEF h
<1>7. h.st = "reading" /\ h.name = Path(k.req)
  BY <1>5, <1>6 DEF Decided
<1>8. k.got \in Nat /\ k.req \in Asking
  BY <1>1, <1>5 DEF Records, Asking
<1> QED
  BY <1>1, <1>3, <1>4, <1>5, <1>7, <1>8 DEF Reads, k, h

\* Bytes of a body arrive, or one too many.
LEMMA ChunkKeeps == ASSUME IInv, NEW c \in Conns, Chunk(c) PROVE IInv'
<1> DEFINE k == conn[c]
           h == handle(k.req, bind)
<1>1. PICK n \in 1..MaxChunk : Became(c, readBody(k, n))
  BY DEF Chunk
<1>2. c \in Callers /\ k.st = "reading" /\ UNCHANGED <<bind, plan, holder, world, ran>>
  BY DEF Chunk, Callers
<1>3. Reads(c, k, bind)
  BY <1>2, ReadingFacts
<1> HIDE DEF k
<1>4. /\ k \in Records /\ k.req \in Requests /\ k.req \in Asking /\ k.req.method = "POST"
      /\ k.st = "reading" /\ k.answers = 0 /\ k.code = 0 /\ k.got <= MAX_BODY_BYTES /\ k.got \in Nat
      /\ h.st = "reading" /\ k.name = h.name /\ k.cors = h.cors /\ k.allow = h.allow
  BY <1>3 DEF Reads
<1>5. n \in Nat /\ MAX_BODY_BYTES \in Nat
  BY HttpAssumption
<1> HIDE DEF h
<1>6. CASE k.got + n > MAX_BODY_BYTES
  <2> DEFINE w == Answered(k, 413, 1)
  <2>1. Became(c, w)
    BY <1>1, <1>6 DEF readBody, TooLarge
  <2>2. Answer(w, k, 413, 1)
    BY <1>4, AnsweredFacts
  <2> HIDE DEF w
  <2>3. /\ w \in Records /\ w.st = "done" /\ w.status = 413 /\ w.answers = 1 /\ w.req = k.req /\ w.name = k.name
        /\ w.got <= MAX_BODY_BYTES /\ w.cors = k.cors /\ w.allow = k.allow
    BY <1>4, <2>2 DEF Answer
  <2>4. Routine(w, FALSE, h)
    BY <1>4, <2>3 DEF Routine
  <2>5. Consistent(c, w, FALSE, h)
    BY <2>3, <2>4 DEF Consistent
  <2>6. Consistent(c, w, FALSE, handle(w.req, bind))
    BY <2>3, <2>5 DEF h
  <2> QED
    BY <1>2, <1>4, <2>1, <2>3, <2>6, Enqueued DEF k
<1>7. CASE ~(k.got + n > MAX_BODY_BYTES)
  <2> DEFINE w == [k EXCEPT !.got = k.got + n]
  <2>1. Became(c, w)
    BY <1>1, <1>7 DEF readBody
  <2>2. /\ w \in Records /\ w.st = "reading" /\ w.answers = 0 /\ w.code = 0 /\ w.req = k.req /\ w.name = k.name
        /\ w.got = k.got + n /\ w.cors = k.cors /\ w.allow = k.allow
    BY <1>4, <1>5 DEF Records
  <2> HIDE DEF w
  <2>3. w.got <= MAX_BODY_BYTES
    BY <1>4, <1>5, <1>7, <2>2
  <2>4. Routine(w, FALSE, h)
    BY <1>4, <2>2 DEF Routine
  <2>5. Consistent(c, w, FALSE, h)
    BY <2>2, <2>3, <2>4 DEF Consistent
  <2>6. Consistent(c, w, FALSE, handle(w.req, bind))
    BY <2>2, <2>5 DEF h
  <2> QED
    BY <1>2, <1>4, <2>1, <2>2, <2>6, Enqueued DEF k
<1> QED
  BY <1>6, <1>7

\* The whole body is there.
LEMMA BodyEndKeeps == ASSUME IInv, NEW c \in Conns, BodyEnd(c) PROVE IInv'
<1> DEFINE k == conn[c]
           w == Proceeds(k)
<1>1. /\ k.st = "reading" /\ k.got = k.req.size /\ Became(c, w)
      /\ c \in Callers /\ UNCHANGED <<bind, plan, holder, world, ran>>
  BY DEF BodyEnd, Callers
<1>2. Reads(c, k, bind)
  BY <1>1, ReadingFacts
<1> HIDE DEF k
<1>3. Waited(c, k.req, bind, w)
  <2> HIDE DEF w
  <2> DEFINE r == k.req
  <2>1. /\ k \in Records /\ r \in Requests /\ k.req = r /\ k.name = Path(r) /\ k.st = "reading" /\ k.answers = 0
        /\ k.code = 0 /\ k.got <= MAX_BODY_BYTES /\ handle(r, bind).st = "reading"
        /\ k.cors = handle(r, bind).cors /\ k.allow = handle(r, bind).allow /\ k.got = r.size
    BY <1>1, <1>2 DEF Reads
  <2> HIDE DEF r
  <2>2. Waited(c, r, bind, w)
    BY <2>1, Waits DEF w
  <2> QED
    BY <2>2 DEF r
<1> HIDE DEF w
<1>4. /\ w \in Records /\ w.st \in {"reading", "waiting", "done"} /\ w.req \in Asking
      /\ Consistent(c, w, FALSE, handle(w.req, bind))
  BY <1>2, <1>3 DEF Waited, Reads
<1> QED
  BY <1>1, <1>4, Enqueued DEF k

\* A program asks.
LEMMA RequestKeeps == ASSUME IInv, NEW p \in Programs, Request(p) PROVE IInv'
<1> DEFINE K(call) == [Idle EXCEPT !.req = call, !.name = call.name, !.num = call.num]
<1>1. PICK call \in Plans[plan].asks[p] :
        Became(p, IF ~hasHandler(call.name) \/ ~call.accepted THEN Answered(K(call), 2, 1)
                  ELSE [K(call) EXCEPT !.st = "waiting"])
  BY DEF Request
<1>2. p \in Callers /\ conn[p].st = "idle" /\ UNCHANGED <<bind, plan, holder, world, ran>>
  BY DEF Request, Callers
<1>3. call \in Calls /\ p \notin Conns
  <2>1. plan \in DOMAIN Plans
    BY DEF IInv, Types
  <2> QED
    BY <2>1, HttpAssumption
<1>4. call.name \in Named /\ call.num \in Int /\ call \in Asking
  BY <1>3 DEF Calls, Named, Asking
<1> DEFINE k == K(call)
<1>5. /\ k \in Records /\ k.req = call /\ k.name = call.name /\ k.num = call.num
      /\ k.answers = 0 /\ k.code = 0 /\ k.got = 0 /\ ~k.cors
  <2> DEFINE a == [Idle EXCEPT !.req = call]
             b == [a EXCEPT !.name = call.name]
             d == [b EXCEPT !.num = call.num]
  <2>1. a \in Records /\ a.req = call /\ a.answers = 0 /\ a.code = 0 /\ a.got = 0 /\ ~a.cors
    BY <1>4, IdleFacts DEF Records
  <2> HIDE DEF a
  <2>2. b \in Records /\ b.req = call /\ b.name = call.name /\ b.answers = 0 /\ b.code = 0 /\ b.got = 0 /\ ~b.cors
    BY <1>4, <2>1 DEF Records
  <2> HIDE DEF b
  <2>3. /\ d \in Records /\ d.req = call /\ d.name = call.name /\ d.num = call.num
        /\ d.answers = 0 /\ d.code = 0 /\ d.got = 0 /\ ~d.cors
    BY <1>4, <2>2 DEF Records
  <2>4. k = d
    BY DEF a, b, d
  <2> HIDE DEF d, k
  <2> QED
    BY <2>3, <2>4
<1>6. Became(p, IF ~hasHandler(call.name) \/ ~call.accepted THEN Answered(k, 2, 1) ELSE [k EXCEPT !.st = "waiting"])
  BY <1>1
<1> HIDE DEF k
<1>7. PICK w \in Records :
        /\ Became(p, w) /\ w.st \in {"waiting", "done"} /\ w.req = call /\ w.name = call.name /\ w.num = call.num
        /\ w.answers = (IF w.st = "done" THEN 1 ELSE 0)
        /\ w.st = "waiting" => w.code = 0
        /\ w.got = 0 /\ ~w.cors
  <2>1. CASE ~hasHandler(call.name) \/ ~call.accepted
    <3>1. Became(p, Answered(k, 2, 1))
      BY <1>6, <2>1
    <3>2. Answer(Answered(k, 2, 1), k, 2, 1)
      BY <1>5, AnsweredFacts
    <3> QED
      BY <1>5, <3>1, <3>2 DEF Answer
  <2>2. CASE ~(~hasHandler(call.name) \/ ~call.accepted)
    <3> DEFINE w == [k EXCEPT !.st = "waiting"]
    <3>1. Became(p, w)
      BY <1>6, <2>2
    <3>2. /\ w \in Records /\ w.st = "waiting" /\ w.req = call /\ w.name = call.name /\ w.num = call.num
          /\ w.answers = 0 /\ w.code = 0 /\ w.got = 0 /\ ~w.cors
      BY <1>5 DEF Records, Stages
    <3> HIDE DEF w
    <3> QED
      BY <3>1, <3>2
  <2> QED
    BY <2>1, <2>2
<1>8. \A h : Consistent(p, w, FALSE, h)
  <2>1. Called(w, FALSE)
    BY <1>3, <1>7 DEF Called
  <2>2. w.got <= MAX_BODY_BYTES
    BY <1>7, HttpAssumption
  <2> QED
    BY <1>3, <1>7, <2>1, <2>2 DEF Consistent
<1> QED
  BY <1>2, <1>4, <1>7, <1>8, Enqueued

-----------------------------------------------------------------------------
(* Under the lock and after it.                                            *)

LEMMA SameRecord ==
    ASSUME NEW c \in Callers, NEW k \in Records, NEW w \in Records, w.req = k.req, w.name = k.name
    PROVE  (IF c \in Conns THEN Asked(w) ELSE w.name) = (IF c \in Conns THEN Asked(k) ELSE k.name)
BY SameFields

\* A step of one caller that keeps what it asked and its place in the queue.
LEMMA Stepped ==
    ASSUME IInv, NEW c \in Callers, NEW k \in Records, conn' = [conn EXCEPT ![c] = k],
           UNCHANGED <<bind, plan, queue, ran>>,
           k.req = conn[c].req, k.name = conn[c].name, k.st = "waiting" <=> conn[c].st = "waiting",
           world' \in Nat, holder' \in Callers \cup {None}, k.st = "running" <=> holder' = c,
           \A d \in Callers \ {c} : holder' = d <=> holder = d,
           Consistent(c, k, Started(c), handle(k.req, bind))
    PROVE  IInv'
<1>1. /\ conn \in [Callers -> Records] /\ queue \in Seq(Callers)
      /\ IsInjective(queue) /\ Range(queue) = {d \in Callers : conn[d].st = "waiting"}
      /\ \A d \in Callers : conn[d].st = "running" <=> holder = d
  BY DEF IInv, Types, Lock
<1>2. ran' = ran /\ bind' = bind /\ plan' = plan /\ queue' = queue
  OBVIOUS
<1>3. \A d \in Callers : Started(d)' <=> Started(d)
  BY <1>2 DEF Started
<1>4. Consistent(c, k, Started(c)', handle(k.req, bind))
  <2>1. CASE Started(c)
    <3>1. Started(c) = TRUE /\ Started(c)' = TRUE
      BY <1>3, <2>1
    <3> QED
      BY <3>1
  <2>2. CASE ~Started(c)
    <3>1. Started(c) = FALSE /\ Started(c)' = FALSE
      BY <1>3, <2>2
    <3> QED
      BY <3>1
  <2> QED
    BY <2>1, <2>2
<1>5. /\ conn' \in [Callers -> Records] /\ conn'[c] = k /\ (\A d \in Callers \ {c} : conn'[d] = conn[d])
      /\ plan' \in DOMAIN Plans
      /\ (\A d \in Callers : Consistent(d, conn[d], Started(d), handle(conn[d].req, bind)))'
  BY <1>2, <1>3, <1>4, Moved
<1>6. Types'
  BY <1>1, <1>2, <1>5 DEF Types
<1>7. Lock'
  <2>1. \A d \in Callers : conn'[d].st = "waiting" <=> conn[d].st = "waiting"
    BY <1>5
  <2>2. {d \in Callers : conn'[d].st = "waiting"} = {d \in Callers : conn[d].st = "waiting"}
    BY <2>1
  <2>3. \A d \in Callers : conn'[d].st = "running" <=> holder' = d
    BY <1>1, <1>5
  <2> QED
    BY <1>1, <1>2, <2>2, <2>3 DEF Lock
<1>8. RanAsAsked'
  <2>1. ASSUME NEW e \in ran
        PROVE  /\ e.by \in Callers /\ e.req = conn'[e.by].req
               /\ e.method = (IF e.by \in Conns THEN Asked(conn'[e.by]) ELSE conn'[e.by].name)
    <3>1. /\ e.by \in Callers /\ e.req = conn[e.by].req
          /\ e.method = (IF e.by \in Conns THEN Asked(conn[e.by]) ELSE conn[e.by].name)
      BY DEF IInv, RanAsAsked
    <3>2. conn[e.by] \in Records /\ conn'[e.by] \in Records
      BY <1>1, <1>5, <3>1
    <3>3. conn'[e.by].req = conn[e.by].req /\ conn'[e.by].name = conn[e.by].name
      BY <1>5, <3>1
    <3>4. (IF e.by \in Conns THEN Asked(conn'[e.by]) ELSE conn'[e.by].name)
          = (IF e.by \in Conns THEN Asked(conn[e.by]) ELSE conn[e.by].name)
      BY <3>1, <3>2, <3>3, SameRecord
    <3> QED
      BY <3>1, <3>3, <3>4
  <2> QED
    BY <1>2, <2>1 DEF RanAsAsked
<1> QED
  BY <1>5, <1>6, <1>7, <1>8 DEF IInv

\* The first in the queue takes the lock and starts.
LEMMA BeginKeeps == ASSUME IInv, NEW c \in Callers, Begin(c) PROVE IInv'
<1> DEFINE k == conn[c]
           w == [k EXCEPT !.st = "running"]
           h == handle(k.req, bind)
           entry == [by |-> c, req |-> k.req, method |-> IF c \in Conns THEN Asked(k) ELSE k.name]
<1>1. /\ conn \in [Callers -> Records] /\ queue \in Seq(Callers) /\ world \in Nat
      /\ IsInjective(queue) /\ Range(queue) = {d \in Callers : conn[d].st = "waiting"}
      /\ \A d \in Callers : conn[d].st = "running" <=> holder = d
  BY DEF IInv, Types, Lock
<1>2. /\ holder = None /\ queue # << >> /\ Head(queue) = c /\ holder' = c /\ queue' = Tail(queue)
      /\ bind' = bind /\ plan' = plan /\ world' = world
      /\ conn' = [conn EXCEPT ![c] = w] /\ ran' = ran \cup {entry}
  BY <1>1 DEF Begin
<1>3. None \notin Callers
  BY HttpAssumption DEF None, Callers
<1>4. /\ c \in Range(queue) /\ Tail(queue) \in Seq(Callers) /\ IsInjective(Tail(queue))
      /\ Range(Tail(queue)) = Range(queue) \ {c}
  BY <1>1, <1>2, Tailed
<1>5. k.st = "waiting" /\ k \in Records
  BY <1>1, <1>4
<1>6. Consistent(c, k, Started(c), h)
  BY DEF IInv
<1> HIDE DEF k, h
<1>7. /\ w \in Records /\ w.st = "running" /\ w.req = k.req /\ w.name = k.name /\ w.got = k.got /\ w.num = k.num
      /\ w.code = k.code /\ w.cors = k.cors /\ w.allow = k.allow /\ w.answers = k.answers
  BY <1>5 DEF Records, Stages
<1> HIDE DEF w
<1>8. ~Started(c) /\ k.answers = 0 /\ k.code = 0 /\ k.got <= MAX_BODY_BYTES
  BY <1>5, <1>6 DEF Consistent
<1>9. Consistent(c, w, TRUE, h)
  <2>1. readFields(w) = readFields(k) /\ (Admissible(w) <=> Admissible(k))
    BY <1>7, SameFields
  <2>2. c \in Conns => Routine(w, TRUE, h)
    <3> SUFFICES ASSUME c \in Conns PROVE Routine(w, TRUE, h)
      OBVIOUS
    <3>1. Routine(k, Started(c), h)
      BY <1>6 DEF Consistent
    <3>2. /\ k.req \in Requests /\ k.name = h.name /\ k.cors = h.cors /\ k.allow = h.allow /\ h.st # "done"
          /\ Admissible(k) /\ k.num = readFields(k).num
          /\ k.req.method = "POST" => k.got = k.req.size
      BY <1>5, <3>1 DEF Routine
    <3> QED
      BY <1>7, <2>1, <3>2 DEF Routine
  <2>3. c \notin Conns => Called(w, TRUE)
    <3> SUFFICES ASSUME c \notin Conns PROVE Called(w, TRUE)
      OBVIOUS
    <3>1. Called(k, Started(c))
      BY <1>6 DEF Consistent
    <3> QED
      BY <1>5, <1>7, <3>1 DEF Called
  <2> QED
    BY <1>7, <1>8, <2>2, <2>3 DEF Consistent
<1>10. Started(c)' = TRUE /\ \A d \in Callers \ {c} : Started(d)' <=> Started(d)
  <2>1. entry \in ran' /\ entry.by = c
    BY <1>2
  <2>2. Started(c)'
    BY <2>1 DEF Started
  <2>3. ASSUME NEW d \in Callers \ {c} PROVE Started(d)' <=> Started(d)
    BY <1>2 DEF Started
  <2> QED
    BY <2>2, <2>3
<1>11. Consistent(c, w, Started(c)', handle(w.req, bind))
  <2>1. handle(w.req, bind) = h
    BY <1>7 DEF h
  <2> HIDE DEF h
  <2> QED
    BY <1>9, <1>10, <2>1
<1>12. /\ conn' \in [Callers -> Records] /\ conn'[c] = w /\ (\A d \in Callers \ {c} : conn'[d] = conn[d])
       /\ plan' \in DOMAIN Plans
       /\ (\A d \in Callers : Consistent(d, conn[d], Started(d), handle(conn[d].req, bind)))'
  BY <1>2, <1>7, <1>10, <1>11, Moved
<1>13. Types'
  BY <1>1, <1>2, <1>4, <1>12 DEF Types
<1>14. Lock'
  <2>1. \A d \in Callers : d \in Range(queue') <=> conn'[d].st = "waiting"
    BY <1>1, <1>2, <1>4, <1>7, <1>12
  <2>2. \A d \in Range(queue') : d \in Callers
    BY <1>1, <1>2, <1>4
  <2>3. Range(queue') = {d \in Callers : conn'[d].st = "waiting"}
    BY <2>1, <2>2
  <2>4. \A d \in Callers : conn'[d].st = "running" <=> holder' = d
    BY <1>1, <1>2, <1>3, <1>7, <1>12
  <2> QED
    BY <1>2, <1>4, <2>3, <2>4 DEF Lock
<1>15. RanAsAsked'
  <2>1. ASSUME NEW e \in ran
        PROVE  /\ e.by \in Callers /\ e.req = conn'[e.by].req
               /\ e.method = (IF e.by \in Conns THEN Asked(conn'[e.by]) ELSE conn'[e.by].name)
    <3>1. e.by # c
      BY <1>8 DEF Started
    <3>2. /\ e.by \in Callers /\ e.req = conn[e.by].req
          /\ e.method = (IF e.by \in Conns THEN Asked(conn[e.by]) ELSE conn[e.by].name)
      BY DEF IInv, RanAsAsked
    <3>3. conn'[e.by] = conn[e.by]
      BY <1>12, <3>1, <3>2
    <3> QED
      BY <3>2, <3>3
  <2>2. /\ entry.by \in Callers /\ entry.req = conn'[entry.by].req
        /\ entry.method = (IF entry.by \in Conns THEN Asked(conn'[entry.by]) ELSE conn'[entry.by].name)
    <3>1. (IF c \in Conns THEN Asked(w) ELSE w.name) = (IF c \in Conns THEN Asked(k) ELSE k.name)
      BY <1>5, <1>7, SameRecord
    <3> QED
      BY <1>7, <1>12, <3>1
  <2> HIDE DEF entry
  <2>3. \A e \in ran' : e \in ran \/ e = entry
    BY <1>2
  <2> QED
    BY <2>1, <2>2, <2>3 DEF RanAsAsked
<1> QED
  BY <1>12, <1>13, <1>14, <1>15 DEF IInv

\* A step that keeps the parts of a record that the request decides.
Keeps(w, k) ==
    /\ w.req = k.req /\ w.name = k.name /\ w.got = k.got /\ w.num = k.num
    /\ w.cors = k.cors /\ w.allow = k.allow

\* Past the lock nothing the request decides is touched.
LEMMA Onward ==
    ASSUME NEW c \in Callers, NEW k \in Records, NEW w \in Records, NEW h, Keeps(w, k),
           k.st \in {"waiting", "running", "replying", "done"}, w.st \in {"waiting", "running", "replying", "done"},
           k.st = "done" <=> w.st = "done", w.status = k.status, NEW s \in BOOLEAN,
           Consistent(c, k, s, h)
    PROVE  IF c \in Conns THEN Routine(w, s, h) ELSE Called(w, s)
<1>1. readFields(w) = readFields(k) /\ (Admissible(w) <=> Admissible(k))
  BY SameFields DEF Keeps
<1>2. CASE c \in Conns
  <2>1. Routine(k, s, h)
    BY <1>2 DEF Consistent
  <2> QED
    BY <1>1, <1>2, <2>1 DEF Routine, Keeps
<1>3. CASE c \notin Conns
  <2>1. Called(k, s)
    BY <1>3 DEF Consistent
  <2> QED
    BY <1>3, <2>1 DEF Called, Keeps
<1> QED
  BY <1>2, <1>3

\* A handler ends, well or badly, and the lock is released.
LEMMA FinishKeeps == ASSUME IInv, NEW c \in Callers, Finish(c) PROVE IInv'
<1> DEFINE k == conn[c]
           h == handle(k.req, bind)
           s == Started(c)
           next == After(c)
           snapshot == responseSnapshot(next, k.num, c \in Conns)
<1>1. /\ conn \in [Callers -> Records] /\ world \in Nat /\ holder = c /\ k.st = "running"
      /\ UNCHANGED <<bind, plan, queue, ran>>
      /\ Succeeds(c) \/ Fails(c)
  BY DEF IInv, Types, Finish
<1>2. \/ /\ world' = next /\ holder' = Released(c, FALSE)
         /\ conn' = [conn EXCEPT ![c].st = "replying", ![c].saw = next, ![c].result = snapshot]
      \/ \E code \in Int \ {0} :
           /\ holder' = Released(c, TRUE) /\ world' = world
           /\ conn' = [conn EXCEPT ![c].st = "replying", ![c].code = code]
  <2>1. CASE Succeeds(c)
    BY <2>1 DEF Succeeds
  <2>2. CASE Fails(c)
    <3>1. PICK code \in HandlerErrors :
            /\ holder' = Released(c, TRUE) /\ world' = world
            /\ conn' = [conn EXCEPT ![c].st = "replying", ![c].code = code]
      BY <2>2 DEF Fails
    <3>2. HandlerErrors \subseteq Int \ {0}
      BY DEF HandlerErrors
    <3> QED
      BY <3>1, <3>2
  <2> QED
    BY <1>1, <2>1, <2>2
<1>3. None \notin Callers
  BY HttpAssumption DEF None, Callers
<1>4. holder' = None
  BY <1>2 DEF Released
<1>5. next \in Nat /\ k \in Records
  BY <1>1 DEF After
<1>6. Consistent(c, k, s, h) /\ s \in BOOLEAN
  BY DEF IInv, Started
<1>7. s /\ k.answers = 0 /\ k.code = 0 /\ k.got <= MAX_BODY_BYTES
  BY <1>1, <1>6 DEF Consistent
<1>8. snapshot \in Results /\ snapshot.world = next /\ snapshot.num = k.num
  <2>1. k.num \in Int
    BY <1>5 DEF Records
  <2> HIDE DEF k, next
  <2>2. ~(c \in Conns) /\ Safe(k.num) => JSNumber(k.num) = k.num
    BY <2>1, Exact
  <2>3. snapshot = [world |-> next, num |-> k.num, live |-> FALSE]
    BY <2>2 DEF responseSnapshot
  <2> HIDE DEF snapshot
  <2> QED
    BY <1>5, <2>1, <2>3 DEF Results
<1> HIDE DEF next, snapshot, h, s
<1>9. PICK w \in Records :
        /\ conn' = [conn EXCEPT ![c] = w] /\ w.st = "replying" /\ Keeps(w, k) /\ w.answers = 0 /\ w.status = k.status
        /\ w.code = 0 => w.result.world = w.saw /\ w.result.num = w.num
  <2>1. CASE conn' = [conn EXCEPT ![c].st = "replying", ![c].saw = next, ![c].result = snapshot]
    <3> DEFINE a == [k EXCEPT !.st = "replying"]
               b == [a EXCEPT !.saw = next]
               w == [b EXCEPT !.result = snapshot]
    <3>1. conn' = [conn EXCEPT ![c] = w]
      BY <1>1, <2>1
    <3> HIDE DEF k
    <3>2. a \in Records /\ a.st = "replying" /\ Keeps(a, k) /\ a.answers = 0 /\ a.status = k.status
      BY <1>5, <1>7 DEF Records, Stages, Keeps
    <3> HIDE DEF a
    <3>3. b \in Records /\ b.st = "replying" /\ Keeps(b, k) /\ b.answers = 0 /\ b.status = k.status /\ b.saw = next
      BY <1>5, <3>2 DEF Records, Keeps
    <3> HIDE DEF b
    <3>4. /\ w \in Records /\ w.st = "replying" /\ Keeps(w, k) /\ w.answers = 0 /\ w.status = k.status /\ w.saw = next
          /\ w.result = snapshot
      BY <1>8, <3>3 DEF Records, Keeps
    <3>5. w.num = k.num
      BY <3>4 DEF Keeps
    <3> HIDE DEF w
    <3> QED
      BY <1>8, <3>1, <3>4, <3>5
  <2>2. ASSUME NEW code \in Int \ {0}, conn' = [conn EXCEPT ![c].st = "replying", ![c].code = code]
        PROVE  \E w \in Records :
                 /\ conn' = [conn EXCEPT ![c] = w] /\ w.st = "replying" /\ Keeps(w, k) /\ w.answers = 0 /\ w.status = k.status
                 /\ w.code = 0 => w.result.world = w.saw /\ w.result.num = w.num
    <3> DEFINE a == [k EXCEPT !.st = "replying"]
               w == [a EXCEPT !.code = code]
    <3>1. conn' = [conn EXCEPT ![c] = w]
      BY <1>1, <2>2
    <3> HIDE DEF k
    <3>2. a \in Records /\ a.st = "replying" /\ Keeps(a, k) /\ a.answers = 0 /\ a.status = k.status
      BY <1>5, <1>7 DEF Records, Stages, Keeps
    <3> HIDE DEF a
    <3>3. code \in Int /\ code # 0
      BY <2>2
    <3>4. w \in Records /\ w.st = "replying" /\ Keeps(w, k) /\ w.answers = 0 /\ w.status = k.status /\ w.code # 0
      BY <3>2, <3>3 DEF Records, Keeps
    <3> HIDE DEF w
    <3> QED
      BY <3>1, <3>4
  <2> QED
    BY <1>2, <2>1, <2>2
<1>10. IF c \in Conns THEN Routine(w, s, h) ELSE Called(w, s)
  BY <1>1, <1>5, <1>6, <1>9, Onward
<1>11. Consistent(c, w, s, h)
  BY <1>7, <1>9, <1>10 DEF Consistent, Keeps
<1>12. w.req = k.req /\ w.name = k.name
  BY <1>9 DEF Keeps
<1>13. Consistent(c, w, Started(c), handle(w.req, bind))
  BY <1>11, <1>12 DEF h, s
<1>14. /\ UNCHANGED <<bind, plan, queue, ran>> /\ holder' \in Callers \cup {None}
       /\ w.st = "running" <=> holder' = c
       /\ \A d \in Callers \ {c} : holder' = d <=> holder = d
  <2>1. w.st = "replying"
    BY <1>9
  <2>2. \A d \in Callers : d # None
    BY <1>3
  <2> HIDE DEF k
  <2>3. holder = c /\ UNCHANGED <<bind, plan, queue, ran>>
    BY <1>1
  <2> QED
    BY <1>4, <2>1, <2>2, <2>3
<1>15. world' \in Nat
  BY <1>1, <1>2, <1>5
<1>16. w.req = conn[c].req /\ w.name = conn[c].name /\ (w.st = "waiting" <=> conn[c].st = "waiting")
  BY <1>1, <1>9, <1>12
<1> QED
  BY <1>9, <1>13, <1>14, <1>15, <1>16, Stepped

\* The reply is written.
LEMMA ReplyKeeps == ASSUME IInv, NEW c \in Callers, Reply(c) PROVE IInv'
<1> DEFINE k == conn[c]
           h == handle(k.req, bind)
           s == Started(c)
           code == IF k.code = 0 THEN 0 ELSE IF c \in Conns /\ isRPCEnvelope(k.name) THEN k.code ELSE 1
           status == IF c \in Conns THEN 200 ELSE IF k.code = 0 THEN 1 ELSE 2
           a == Answered(k, status, code)
           shown == [world |-> IF k.result.live THEN world ELSE k.result.world,
                     num |-> IF c \in Conns THEN writeJSON(k.result.num) ELSE k.result.num]
           w == [a EXCEPT !.shown = shown]
<1>1. /\ conn \in [Callers -> Records] /\ k \in Records /\ k.st = "replying" /\ conn' = [conn EXCEPT ![c] = w]
      /\ UNCHANGED <<bind, plan, queue, holder, world, ran>>
  BY DEF IInv, Types, Reply
<1>2. /\ world \in Nat /\ holder \in Callers \cup {None}
      /\ \A d \in Callers : conn[d].st = "running" <=> holder = d
  BY DEF IInv, Types, Lock
<1>3. holder # c
  BY <1>1, <1>2
<1>4. Consistent(c, k, s, h) /\ s \in BOOLEAN
  BY DEF IInv, Started
<1> HIDE DEF k, h, s
<1>5. /\ s /\ k.answers = 0 /\ k.got <= MAX_BODY_BYTES
      /\ k.code = 0 => k.result.world = k.saw /\ k.result.num = k.num
  BY <1>1, <1>4 DEF Consistent
<1>6. /\ k.result \in Results /\ k.code \in Int
  BY <1>1 DEF Records
<1>7. /\ shown = [world |-> k.result.world, num |-> k.result.num] /\ shown \in Shown
  <2>1. ~k.result.live /\ k.result.world \in Nat /\ k.result.num \in Int
    BY <1>6 DEF Results
  <2> QED
    BY <2>1 DEF writeJSON, Shown
<1>8. code \in Int /\ status \in Nat /\ (code = 0 => k.code = 0) /\ (c \in Conns => status = 200)
  BY <1>6
<1> HIDE DEF shown, code, status
<1>9. Answer(a, k, status, code)
  BY <1>1, <1>8, AnsweredFacts
<1> HIDE DEF a
<1>10. a \in Records /\ a.st = "done" /\ Keeps(a, k) /\ a.answers = 1 /\ a.status = status /\ a.code = code /\ a.saw = k.saw
  BY <1>5, <1>9 DEF Answer, Keeps
<1>11. /\ w \in Records /\ w.st = "done" /\ Keeps(w, k) /\ w.answers = 1 /\ w.status = status /\ w.code = code
       /\ w.saw = k.saw /\ w.shown = shown
  BY <1>7, <1>10 DEF Records, Keeps
<1> HIDE DEF w
<1>12. readFields(w) = readFields(k) /\ (Admissible(w) <=> Admissible(k))
  BY <1>11, SameFields DEF Keeps
<1>13. IF c \in Conns THEN Routine(w, s, h) ELSE Called(w, s)
  <2>1. CASE c \in Conns
    <3>1. Routine(k, s, h)
      BY <1>4, <2>1 DEF Consistent
    <3> QED
      BY <1>1, <1>5, <1>8, <1>11, <1>12, <2>1, <3>1 DEF Routine, Keeps
  <2>2. CASE c \notin Conns
    <3>1. Called(k, s)
      BY <1>4, <2>2 DEF Consistent
    <3> QED
      BY <1>1, <1>11, <2>2, <3>1 DEF Called, Keeps
  <2> QED
    BY <2>1, <2>2
<1>14. w.code = 0 => w.shown.world = w.saw /\ w.shown.num = w.num
  BY <1>5, <1>7, <1>8, <1>11 DEF Keeps
<1>15. Consistent(c, w, s, h)
  BY <1>5, <1>11, <1>13, <1>14 DEF Consistent, Keeps
<1>16. w.req = k.req /\ w.name = k.name
  BY <1>11 DEF Keeps
<1>17. Consistent(c, w, Started(c), handle(w.req, bind))
  BY <1>15, <1>16 DEF h, s
<1>18. w.req = conn[c].req /\ w.name = conn[c].name /\ (w.st = "waiting" <=> conn[c].st = "waiting")
       /\ (w.st = "running" <=> holder' = c)
  BY <1>1, <1>3, <1>11, <1>16 DEF k
<1> QED
  BY <1>1, <1>2, <1>11, <1>17, <1>18, Stepped

\* The client goes away.
LEMMA AbortKeeps == ASSUME IInv, NEW c \in Conns, Abort(c) PROVE IInv'
<1> DEFINE k == conn[c]
           h == handle(k.req, bind)
           s == Started(c)
<1>1. /\ c \in Callers /\ conn \in [Callers -> Records] /\ k \in Records
      /\ k.st \in {"reading", "waiting", "running", "replying"}
      /\ conn' = [conn EXCEPT ![c] = IF k.st = "reading" THEN [Answered(k, 500, 1) EXCEPT !.gone = TRUE]
                                     ELSE [k EXCEPT !.gone = TRUE]]
      /\ UNCHANGED <<bind, plan, queue, holder, world, ran>>
  BY DEF IInv, Types, Abort, Callers
<1>2. /\ world \in Nat /\ holder \in Callers \cup {None}
      /\ \A d \in Callers : conn[d].st = "running" <=> holder = d
  BY DEF IInv, Types, Lock
<1>3. Consistent(c, k, s, h) /\ s \in BOOLEAN
  BY <1>1 DEF IInv, Started
<1>4. CASE k.st = "reading"
  <2> DEFINE a == Answered(k, 500, 1)
             w == [a EXCEPT !.gone = TRUE]
  <2>1. conn' = [conn EXCEPT ![c] = w]
    BY <1>1, <1>4
  <2>2. Reads(c, k, bind)
    BY <1>4, ReadingFacts
  <2> HIDE DEF k
  <2>3. Answer(a, k, 500, 1)
    BY <1>1, AnsweredFacts
  <2> HIDE DEF a
  <2>4. /\ a \in Records /\ a.st = "done" /\ a.status = 500 /\ a.answers = 1 /\ a.req = k.req /\ a.name = k.name
        /\ a.got = k.got /\ a.cors = k.cors /\ a.allow = k.allow
    BY <2>2, <2>3 DEF Answer, Reads
  <2>5. /\ w \in Records /\ w.st = "done" /\ w.status = 500 /\ w.answers = 1 /\ w.req = k.req /\ w.name = k.name
        /\ w.got = k.got /\ w.cors = k.cors /\ w.allow = k.allow
    BY <2>4 DEF Records
  <2> HIDE DEF w
  <2>6. Became(c, w)
    BY <1>1, <2>1, <2>5 DEF Became
  <2>7. h.st = "reading" /\ k.name = h.name /\ k.cors = h.cors /\ k.allow = h.allow /\ k.req \in Requests /\ k.req \in Asking
        /\ k.got <= MAX_BODY_BYTES
    BY <2>2 DEF Reads
  <2> HIDE DEF h
  <2>8. Routine(w, FALSE, h)
    BY <2>5, <2>7 DEF Routine
  <2>9. Consistent(c, w, FALSE, h)
    BY <2>5, <2>7, <2>8 DEF Consistent
  <2>10. Consistent(c, w, FALSE, handle(w.req, bind))
    BY <2>5, <2>9 DEF h
  <2> QED
    BY <1>1, <1>4, <2>5, <2>6, <2>7, <2>10, Enqueued DEF k
<1>5. CASE k.st # "reading"
  <2> DEFINE w == [k EXCEPT !.gone = TRUE]
  <2>1. conn' = [conn EXCEPT ![c] = w]
    BY <1>1, <1>5
  <2>2. k.st = "running" <=> holder' = c
    BY <1>1, <1>2
  <2> HIDE DEF k, h, s
  <2>3. /\ w \in Records /\ w.st = k.st /\ Keeps(w, k) /\ w.answers = k.answers /\ w.status = k.status /\ w.code = k.code
        /\ w.saw = k.saw /\ w.shown = k.shown /\ w.result = k.result
    BY <1>1 DEF Records, Keeps
  <2> HIDE DEF w
  <2>4. Routine(w, s, h)
    BY <1>1, <1>3, <1>5, <2>3, Onward
  <2>5. Consistent(c, w, s, h)
    BY <1>3, <2>3, <2>4 DEF Consistent, Keeps
  <2>6. w.req = k.req /\ w.name = k.name
    BY <2>3 DEF Keeps
  <2>7. Consistent(c, w, Started(c), handle(w.req, bind))
    BY <2>5, <2>6 DEF h, s
  <2>8. w.req = conn[c].req /\ w.name = conn[c].name /\ (w.st = "waiting" <=> conn[c].st = "waiting")
    BY <2>3, <2>6 DEF k
  <2>9. /\ UNCHANGED <<bind, plan, queue, ran>> /\ world' \in Nat /\ holder' \in Callers \cup {None}
        /\ w.st = "running" <=> holder' = c
        /\ \A d \in Callers \ {c} : holder' = d <=> holder = d
    BY <1>1, <1>2, <2>2, <2>3
  <2>10. c \in Callers
    BY <1>1
  <2> QED
    BY <2>1, <2>3, <2>7, <2>8, <2>9, <2>10, Stepped
<1> QED
  BY <1>4, <1>5

-----------------------------------------------------------------------------
(* The invariant holds.                                                    *)

\* The timer mines beside the callers.
LEMMA MineBesideKeeps == ASSUME IInv, MineBeside PROVE IInv'
<1>1. /\ UNCHANGED <<bind, plan, conn, queue, holder, ran>> /\ world' \in Nat
  BY DEF MineBeside, IInv, Types
<1>2. Types' /\ Lock' /\ RanAsAsked'
  BY <1>1 DEF IInv, Types, Lock, RanAsAsked
<1>3. \A c \in Callers : Consistent(c, conn'[c], Started(c)', handle(conn'[c].req, bind'))
  BY <1>1 DEF IInv, Started
<1> QED
  BY <1>2, <1>3 DEF IInv

LEMMA Start == ASSUME HttpInit PROVE IInv
<1>1. /\ plan \in DOMAIN Plans /\ conn = [c \in Callers |-> Idle] /\ queue = << >> /\ holder = None /\ world = 0 /\ ran = {}
  BY DEF HttpInit
<1>2. None \notin Callers /\ MAX_BODY_BYTES \in Nat
  BY HttpAssumption DEF None, Callers
<1>3. Types
  BY <1>1, IdleFacts DEF Types
<1>4. Lock
  <2>1. IsInjective(queue) /\ Range(queue) = {}
    BY <1>1 DEF IsInjective, Range
  <2>2. \A c \in Callers : conn[c].st = "idle"
    BY <1>1, IdleFacts
  <2> QED
    BY <1>1, <1>2, <2>1, <2>2 DEF Lock
<1>5. RanAsAsked
  BY <1>1 DEF RanAsAsked
<1>6. ASSUME NEW c \in Callers PROVE Consistent(c, conn[c], Started(c), handle(conn[c].req, bind))
  <2> DEFINE h == handle(conn[c].req, bind)
  <2>1. conn[c] = Idle
    BY <1>1
  <2>2. Started(c) = FALSE
    BY <1>1 DEF Started
  <2> HIDE DEF h
  <2>3. Consistent(c, Idle, FALSE, h)
    <3>1. Routine(Idle, FALSE, h) /\ Called(Idle, FALSE)
      BY IdleFacts DEF Routine, Called
    <3>2. Idle.got <= MAX_BODY_BYTES
      BY <1>2, IdleFacts
    <3> QED
      BY <3>1, <3>2, IdleFacts DEF Consistent
  <2> QED
    BY <2>1, <2>2, <2>3 DEF h
<1> QED
  BY <1>3, <1>4, <1>5, <1>6 DEF IInv

LEMMA StepKeeps == ASSUME IInv, [HttpNext]_httpVars PROVE IInv'
<1>1. CASE \E c \in Conns : Accept(c) \/ Unparsed(c) \/ Chunk(c) \/ BodyEnd(c) \/ Abort(c)
  BY <1>1, AcceptKeeps, UnparsedKeeps, ChunkKeeps, BodyEndKeeps, AbortKeeps
<1>2. CASE \E p \in Programs : Request(p)
  BY <1>2, RequestKeeps
<1>3. CASE \E c \in Callers : Begin(c) \/ Finish(c) \/ Reply(c)
  BY <1>3, BeginKeeps, FinishKeeps, ReplyKeeps
<1>4. CASE MineBeside
  BY <1>4, MineBesideKeeps
<1>5. CASE UNCHANGED httpVars
  <2>1. UNCHANGED <<bind, plan, conn, queue, holder, world, ran>>
    BY <1>5 DEF httpVars
  <2>2. Types' /\ Lock' /\ RanAsAsked'
    BY <2>1 DEF IInv, Types, Lock, RanAsAsked
  <2>3. \A c \in Callers : Consistent(c, conn'[c], Started(c)', handle(conn'[c].req, bind'))
    BY <2>1 DEF IInv, Started
  <2> QED
    BY <2>2, <2>3 DEF IInv
<1> QED
  BY <1>1, <1>2, <1>3, <1>4, <1>5 DEF HttpNext

-----------------------------------------------------------------------------
(* What it means for the properties.                                       *)

\* What a request was that a handler ran for.
RanFor(e, r, k) ==
    /\ r \in Requests /\ e.req = r /\ Admitted(r, bind) /\ Open(r.method, Path(r)) /\ hasHandler(e.method)
    /\ e.method = (IF isRPCEnvelope(Path(r)) THEN r.rpc ELSE Path(r))
    /\ k.cors => ~isControlRoute(Path(r))
    /\ k.got <= MAX_BODY_BYTES /\ k.got \in Nat
    /\ r.method = "POST" => k.got = r.size

LEMMA RanFacts ==
    ASSUME IInv, NEW e \in ran, e.by \in Conns
    PROVE  RanFor(e, e.req, conn[e.by])
<1> DEFINE c == e.by
           k == conn[c]
           h == handle(k.req, bind)
<1>1. c \in Callers /\ e.req = k.req /\ e.method = Asked(k)
  BY DEF IInv, RanAsAsked
<1>2. k \in Records
  BY <1>1 DEF IInv, Types
<1>3. Consistent(c, k, Started(c), h)
  BY <1>1 DEF IInv
<1>4. Started(c)
  BY DEF Started
<1> HIDE DEF c, k, h
<1>5. k.got <= MAX_BODY_BYTES /\ Routine(k, Started(c), h)
  BY <1>3 DEF Consistent, c
<1>6. /\ k.req \in Requests /\ k.name = h.name /\ k.cors = h.cors /\ h.st # "done" /\ Admissible(k)
      /\ k.req.method = "POST" => k.got = k.req.size
  BY <1>4, <1>5 DEF Routine
<1>7. Decided(k.req, bind, h)
  BY <1>6, Decisions DEF h
<1>8. /\ h.name = Path(k.req) /\ Admitted(k.req, bind) /\ Open(k.req.method, Path(k.req))
      /\ h.cors => ~isControlRoute(Path(k.req))
  BY <1>6, <1>7 DEF Decided
<1>9. Asked(k) = (IF isRPCEnvelope(Path(k.req)) THEN k.req.rpc ELSE Path(k.req))
  BY <1>6, <1>8 DEF Asked
<1>10. hasHandler(Asked(k))
  BY <1>6, <1>8, <1>9 DEF Admissible, Open
<1>11. k.got \in Nat
  BY <1>2 DEF Records
<1> QED
  BY <1>1, <1>5, <1>6, <1>8, <1>9, <1>10, <1>11 DEF RanFor, c, k

\* A path that reaches a handler is declared or added.
LEMMA Reached ==
    ASSUME NEW m, NEW path, Open(m, path), path # <<"tre">>
    PROVE  /\ hasHandler(path) /\ path \in (DOMAIN JAVA_TRON_ROUTES) \cup (DOMAIN DEV_EXTENSIONS)
           /\ methodName(path) = path \/ methodName(path) \in DOMAIN JAVA_TRON_ROUTES
<1>1. hasHandler(path) /\ kindOf(path) # None
  BY Outcomes DEF Open, isRPCEnvelope
<1>2. RouteAssumption
  BY HttpAssumption
<1>3. methodName(path) = Definitions[path] /\ path \in DOMAIN Definitions
  BY <1>1 DEF hasHandler, methodName
<1>4. CASE isExtension(path)
  <2>1. path \in DOMAIN DEV_EXTENSIONS \/ Head(path) = "admin"
    BY <1>4 DEF isExtension
  <2> QED
    BY <1>1, <1>2, <1>3, <2>1 DEF RouteAssumption
<1>5. CASE ~isExtension(path)
  <2>1. path \in DOMAIN JAVA_TRON_ROUTES
    BY <1>1, <1>5 DEF kindOf, routeKind
  <2> QED
    BY <1>1, <1>2, <1>3, <2>1 DEF RouteAssumption
<1> QED
  BY <1>4, <1>5

LEMMA TypeFollows == ASSUME IInv PROVE HttpTypeOK
<1>1. /\ queue \in Seq(Callers) /\ holder \in Callers \cup {None}
      /\ IsInjective(queue) /\ Range(queue) = {c \in Callers : conn[c].st = "waiting"}
      /\ \A c \in Callers : conn[c].st = "running" <=> holder = c
  BY DEF IInv, Types, Lock
<1>2. ASSUME NEW e \in ran, e.by \in Conns PROVE e.req.method \in {"GET", "HEAD", "POST"}
  <2>1. Open(e.req.method, Path(e.req))
    BY <1>2, RanFacts DEF RanFor
  <2> QED
    BY <2>1, Outcomes DEF Open
<1>3. holder \notin Range(queue)
  <2>1. holder \in Callers => conn[holder].st = "running"
    BY <1>1
  <2> QED
    BY <1>1, <2>1
<1> QED
  BY <1>1, <1>2, <1>3 DEF HttpTypeOK

LEMMA EnvelopeFollows == ASSUME IInv PROVE EnvelopeOnly
<1> SUFFICES ASSUME NEW e \in ran, e.by \in Conns, Path(e.req) # <<"tre">>
             PROVE  methodName(e.method) \in (DOMAIN JAVA_TRON_ROUTES) \cup (DOMAIN DEV_EXTENSIONS)
  BY DEF EnvelopeOnly, Path
<1>1. Open(e.req.method, Path(e.req)) /\ e.method = Path(e.req)
  BY RanFacts DEF RanFor, isRPCEnvelope
<1> QED
  BY <1>1, Reached

\* The development handlers lie behind the controls.
LEMMA Guarded ==
    ASSUME IInv, NEW e \in ran, e.by \in Conns, DevelopmentMethod(methodName(e.method))
    PROVE  isControlRoute(Path(e.req)) /\ ~Forbidden(e.req, bind) /\ ~conn[e.by].cors
<1>1. RanFor(e, e.req, conn[e.by])
  BY RanFacts
<1>2. isControlRoute(Path(e.req))
  <2>1. CASE Path(e.req) = <<"tre">>
    BY <2>1 DEF isControlRoute
  <2>2. CASE Path(e.req) # <<"tre">>
    <3>1. Open(e.req.method, Path(e.req)) /\ e.method = Path(e.req)
      BY <1>1, <2>2 DEF RanFor, isRPCEnvelope
    <3>2. /\ Path(e.req) \in (DOMAIN JAVA_TRON_ROUTES) \cup (DOMAIN DEV_EXTENSIONS)
          /\ methodName(Path(e.req)) = Path(e.req) \/ methodName(Path(e.req)) \in DOMAIN JAVA_TRON_ROUTES
      BY <2>2, <3>1, Reached
    <3>3. Path(e.req) \in DOMAIN DEV_EXTENSIONS /\ Path(e.req) # <<"healthcheck">>
      BY <3>1, <3>2 DEF DevelopmentMethod
    <3> QED
      BY <3>3, HttpAssumption DEF RouteAssumption, isControlRoute
  <2> QED
    BY <2>1, <2>2
<1> QED
  BY <1>1, <1>2 DEF RanFor, Admitted

LEMMA ControlFollows == ASSUME IInv PROVE ControlGuarded
<1>1. ASSUME NEW e \in ran, e.by \in Conns, DevelopmentMethod(methodName(e.method))
      PROVE  /\ ~e.req.origin /\ e.req.site # "cross-site"
             /\ bind # "*" => e.req.host \in {"loopback", bind}
             /\ e.req.host \notin {None, "malformed"}
  <2>1. ~Forbidden(e.req, bind)
    BY <1>1, Guarded
  <2>2. isAllowedControlHost(e.req.host, bind) /\ ~e.req.origin /\ e.req.site # "cross-site"
    BY <2>1 DEF Forbidden
  <2>3. requestHostname(e.req.host) # None
    BY <2>2 DEF isAllowedControlHost
  <2>4. requestHostname(e.req.host) = e.req.host /\ e.req.host # "malformed"
    BY <2>3 DEF requestHostname
  <2>5. bind # "*" => e.req.host \in {"loopback", bind}
    BY <2>2, <2>4 DEF isAllowedControlHost, isWildcardBindHost, isLoopbackHostname
  <2> QED
    BY <2>2, <2>3, <2>4, <2>5
<1>2. ASSUME NEW e \in ran, DevelopmentMethod(methodName(e.method)) PROVE ~conn[e.by].cors
  <2>1. CASE e.by \in Conns
    BY <1>2, <2>1, Guarded
  <2>2. CASE e.by \notin Conns
    <3>1. e.by \in Callers
      BY DEF IInv, RanAsAsked
    <3>2. Consistent(e.by, conn[e.by], Started(e.by), handle(conn[e.by].req, bind))
      BY <3>1 DEF IInv
    <3> QED
      BY <2>2, <3>2 DEF Consistent, Called
  <2> QED
    BY <2>1, <2>2
<1> QED
  BY <1>1, <1>2 DEF ControlGuarded

LEMMA AnswersFollow == ASSUME IInv PROVE OneAnswer
BY DEF IInv, Consistent, OneAnswer

LEMMA BodiesFollow == ASSUME IInv PROVE BodyBounded
<1>1. ASSUME NEW c \in Callers PROVE conn[c].got <= MAX_BODY_BYTES
  BY DEF IInv, Consistent
<1>2. ASSUME NEW e \in ran, e.by \in Conns, e.req.method = "POST" PROVE e.req.size <= MAX_BODY_BYTES
  BY <1>2, RanFacts DEF RanFor
<1> QED
  BY <1>1, <1>2 DEF BodyBounded

LEMMA SnapshotsFollow == ASSUME IInv PROVE SnapshotExact
<1> SUFFICES ASSUME NEW c \in Callers, conn[c].st = "done", conn[c].code = 0, Started(c)
             PROVE  conn[c].shown.world = conn[c].saw
  BY DEF SnapshotExact, Started
<1>1. Consistent(c, conn[c], Started(c), handle(conn[c].req, bind))
  BY DEF IInv
<1> QED
  BY <1>1 DEF Consistent

LEMMA NumbersFollow == ASSUME IInv PROVE NumbersExact
<1> SUFFICES ASSUME NEW c \in Callers, conn[c].st = "done", conn[c].code = 0, Started(c)
             PROVE  conn[c].shown.num \in Sent(c)
  BY DEF NumbersExact, Started
<1> DEFINE k == conn[c]
           h == handle(k.req, bind)
<1>1. k \in Records /\ k.st = "done" /\ k.code = 0
  BY DEF IInv, Types
<1>2. Consistent(c, k, Started(c), h)
  BY DEF IInv
<1> HIDE DEF k, h
<1>3. k.shown.num = k.num /\ (IF c \in Conns THEN Routine(k, Started(c), h) ELSE Called(k, Started(c)))
  BY <1>1, <1>2 DEF Consistent
<1>4. CASE c \in Conns
  <2>1. k.req \in Requests /\ Admissible(k) /\ k.num = readFields(k).num
    BY <1>1, <1>3, <1>4 DEF Routine
  <2>2. k.num \in (IF k.req.method = "POST" THEN {k.req.query, k.req.body.num} ELSE {k.req.query})
    BY <1>1, <2>1, FieldsFacts DEF Admissible
  <2>3. c \notin Programs
    BY <1>4, HttpAssumption
  <2> QED
    BY <1>3, <2>2, <2>3 DEF Sent, k
<1>5. CASE c \notin Conns
  <2>1. c \in Programs /\ k.num = k.req.num
    BY <1>1, <1>3, <1>5 DEF Called, Callers
  <2> QED
    BY <1>3, <2>1 DEF Sent, k
<1> QED
  BY <1>4, <1>5

\* A connection that is answered: by the parser, by `handle` at once, or
\* later.
Ended(k, started, host) ==
    \/ k.req = NoRequest /\ k.allow = {} /\ ~started
    \/ LET h == handle(k.req, host)
       IN  /\ k.req \in Requests /\ k.name = Path(k.req) /\ k.allow = h.allow /\ Decided(k.req, host, h)
           /\ h.st = "done" => k.status = h.status /\ ~started
           /\ h.st = "reading" => /\ k.status \in {200, 413, 500}
                                  /\ k.status = 200 => (started <=> Admissible(k))

LEMMA DoneFacts ==
    ASSUME IInv, NEW c \in Conns, conn[c].st = "done"
    PROVE  Ended(conn[c], Started(c), bind)
<1> DEFINE k == conn[c]
           h == handle(k.req, bind)
<1>1. c \in Callers /\ k.st = "done"
  BY DEF Callers
<1>2. Consistent(c, k, Started(c), h)
  BY <1>1 DEF IInv
<1> HIDE DEF k, h
<1>3. Routine(k, Started(c), h)
  BY <1>2 DEF Consistent
<1>4. CASE k.req = NoRequest /\ k.allow = {} /\ ~Started(c)
  BY <1>4 DEF Ended, k
<1>5. CASE ~(k.req = NoRequest /\ k.allow = {} /\ ~Started(c))
  <2>1. /\ k.req \in Requests /\ k.name = h.name /\ k.allow = h.allow
        /\ h.st = "done" => k.status = h.status /\ ~Started(c)
        /\ Started(c) => Admissible(k)
        /\ h.st = "reading" => k.status \in {200, 413, 500} /\ (k.status = 200 /\ Admissible(k) => Started(c))
    BY <1>1, <1>3, <1>5 DEF Routine
  <2>2. Decided(k.req, bind, h)
    BY <2>1, Decisions DEF h
  <2>3. h.name = Path(k.req)
    BY <2>2 DEF Decided
  <2> QED
    BY <2>1, <2>2, <2>3 DEF Ended, k, h
<1> QED
  BY <1>4, <1>5

LEMMA AllowFollows == ASSUME IInv PROVE AllowHonest
<1> SUFFICES ASSUME NEW c \in Conns, NEW d \in Conns, conn[c].st = "done", conn[d].st = "done",
                    conn[c].allow # {}, conn[d].name = conn[c].name,
                    conn[d].req.method \in Served, conn[d].status \notin {403, 413, 426, 500}
             PROVE  (conn[d].status = 405) = (conn[d].req.method \notin conn[c].allow)
  BY DEF AllowHonest, Served
<1> DEFINE k == conn[c]
           w == conn[d]
           h == handle(k.req, bind)
           g == handle(w.req, bind)
           path == Path(k.req)
<1>1. Ended(k, Started(c), bind) /\ Ended(w, Started(d), bind)
  BY DoneFacts
<1>2. k.allow # {} /\ w.name = k.name /\ w.req.method \in Served /\ w.status \notin {403, 413, 426, 500}
  OBVIOUS
<1> HIDE DEF k, w
<1>3. k.name = path /\ k.allow = h.allow /\ Decided(k.req, bind, h)
  BY <1>1, <1>2 DEF Ended
<1>4. NoRequest.method \notin Served
  BY DEF NoRequest, None, Served
<1>5. /\ w.req \in Requests /\ w.name = Path(w.req) /\ Decided(w.req, bind, g)
      /\ g.st = "done" => w.status = g.status
      /\ g.st = "reading" => w.status \in {200, 413, 500}
  BY <1>1, <1>2, <1>4 DEF Ended
<1> HIDE DEF h, g, path
<1>6. path # <<None>> /\ k.allow = allowHeader(kindOf(path))
  BY <1>2, <1>3 DEF Decided, path
<1>7. Path(w.req) = path
  BY <1>2, <1>3, <1>5
<1>8. CASE g.st = "done"
  BY <1>2, <1>5, <1>6, <1>7, <1>8 DEF Decided, k, w
<1>9. CASE g.st = "reading"
  <2>1. Open(w.req.method, path)
    BY <1>5, <1>7, <1>9 DEF Decided
  <2>2. w.req.method \in allowHeader(kindOf(path))
    BY <2>1, Outcomes DEF Open
  <2>3. w.status # 405
    BY <1>5, <1>9
  <2> QED
    BY <1>6, <2>2, <2>3 DEF k, w
<1> QED
  BY <1>5, <1>8, <1>9 DEF Decided

\* The aliases of a method are declared routes of one kind.
LEMMA Aliases ==
    ASSUME NEW p, NEW q, p # q, methodName(p) = methodName(q), hasHandler(p) \/ isRPCEnvelope(p)
    PROVE  /\ hasHandler(p) /\ hasHandler(q) /\ ~isRPCEnvelope(p) /\ ~isRPCEnvelope(q)
           /\ ~isControlRoute(p) /\ ~isControlRoute(q) /\ kindOf(p) = kindOf(q)
<1>1. RouteAssumption
  BY HttpAssumption
<1> DEFINE tre == <<"tre">>
<1>2. /\ tre \notin DOMAIN Definitions
      /\ \A x \in DOMAIN JAVA_TRON_ROUTES : x # tre /\ Head(x) # "admin"
      /\ \A x \in DOMAIN Definitions :
           /\ Definitions[x] \in DOMAIN Definitions
           /\ Definitions[x] # x => /\ x \in DOMAIN JAVA_TRON_ROUTES /\ Definitions[x] \in DOMAIN JAVA_TRON_ROUTES
                                    /\ JAVA_TRON_ROUTES[x] = JAVA_TRON_ROUTES[Definitions[x]]
  BY <1>1 DEF RouteAssumption
<1>3. p \in DOMAIN Definitions \/ p = tre
  BY DEF hasHandler, isRPCEnvelope
<1>4. /\ methodName(p) = (IF p \in DOMAIN Definitions THEN Definitions[p] ELSE p)
      /\ methodName(q) = (IF q \in DOMAIN Definitions THEN Definitions[q] ELSE q)
  BY DEF methodName, hasHandler
<1> HIDE DEF tre
<1>5. p \in DOMAIN Definitions /\ q \in DOMAIN Definitions /\ Definitions[p] = Definitions[q]
  BY <1>2, <1>3, <1>4
<1>6. /\ p \in DOMAIN JAVA_TRON_ROUTES /\ q \in DOMAIN JAVA_TRON_ROUTES
      /\ JAVA_TRON_ROUTES[p] = JAVA_TRON_ROUTES[q]
  BY <1>2, <1>5
<1>7. kindOf(p) = JAVA_TRON_ROUTES[p] /\ kindOf(q) = JAVA_TRON_ROUTES[q]
  BY <1>6 DEF kindOf, routeKind, isExtension
<1>8. p # tre /\ q # tre /\ Head(p) # "admin" /\ Head(q) # "admin"
  BY <1>2, <1>6
<1> QED
  BY <1>5, <1>6, <1>7, <1>8 DEF hasHandler, isRPCEnvelope, isControlRoute, tre

\* One of two aliases is not read unless the other is, for the same request.
LEMMA AlikeRead ==
    ASSUME NEW r \in Requests, NEW s \in Requests, NEW host,
           r.method = s.method, r.version = s.version, Path(r) # Path(s), methodName(Path(r)) = methodName(Path(s)),
           handle(r, host).st = "reading", Path(s) # <<None>>
    PROVE  /\ handle(s, host).st = "reading"
           /\ ~isRPCEnvelope(Path(r)) /\ ~isRPCEnvelope(Path(s))
<1>1. Decided(r, host, handle(r, host)) /\ Decided(s, host, handle(s, host))
  BY Decisions
<1>2. Admitted(r, host) /\ Open(r.method, Path(r))
  BY <1>1 DEF Decided
<1>3. /\ hasHandler(Path(s)) /\ ~isRPCEnvelope(Path(r)) /\ ~isRPCEnvelope(Path(s))
      /\ ~isControlRoute(Path(s)) /\ kindOf(Path(r)) = kindOf(Path(s))
  BY <1>2, Aliases DEF Open
<1>4. Admitted(s, host)
  BY <1>2, <1>3 DEF Admitted
<1>5. Open(s.method, Path(s))
  BY <1>2, <1>3 DEF Open
<1> QED
  BY <1>1, <1>3, <1>4, <1>5 DEF Decided

\* What two connections have in common that ask the same of a method under
\* different names.
Alike(k, w) ==
    /\ k.status = 200 /\ w.status = 200
    /\ k.name # w.name /\ methodName(k.name) = methodName(w.name)
    /\ [k.req EXCEPT !.target = w.req.target] = w.req

LEMMA OneStarts ==
    ASSUME NEW k \in Records, NEW w \in Records, Alike(k, w), NEW host,
           NEW s \in BOOLEAN, NEW t \in BOOLEAN, Ended(k, s, host), Ended(w, t, host), s \/ t
    PROVE  s /\ t
<1> DEFINE h == handle(k.req, host)
           g == handle(w.req, host)
<1>1. DOMAIN k.req = DOMAIN w.req
  BY DEF Alike
<1>2. "version" \notin DOMAIN NoRequest /\ \A r \in Requests : "version" \in DOMAIN r
  BY DEF NoRequest, Requests
<1>3. k.req \in Requests /\ w.req \in Requests
  BY <1>1, <1>2 DEF Ended
<1>4. k.req # NoRequest /\ w.req # NoRequest
  BY <1>2, <1>3
<1> HIDE DEF h, g
<1>5. /\ k.name = Path(k.req) /\ Decided(k.req, host, h)
      /\ h.st = "done" => k.status = h.status /\ ~s
      /\ h.st = "reading" => (s <=> Admissible(k))
  BY <1>4 DEF Ended, Alike, h
<1>6. /\ w.name = Path(w.req) /\ Decided(w.req, host, g)
      /\ g.st = "done" => w.status = g.status /\ ~t
      /\ g.st = "reading" => (t <=> Admissible(w))
  BY <1>4 DEF Ended, Alike, g
<1>7. /\ k.req.method = w.req.method /\ k.req.version = w.req.version /\ k.req.query = w.req.query
      /\ k.req.form = w.req.form /\ k.req.body = w.req.body
  BY <1>3 DEF Alike, Requests
<1>8. Path(k.req) # Path(w.req) /\ methodName(Path(k.req)) = methodName(Path(w.req))
  BY <1>5, <1>6 DEF Alike
<1>9. Path(k.req) # <<None>> /\ Path(w.req) # <<None>>
  BY <1>5, <1>6 DEF Decided, Alike, Admitted
<1>10. (h.st = "reading" \/ g.st = "reading")
  BY <1>5, <1>6 DEF Decided
<1>11. h.st = "reading" /\ g.st = "reading" /\ ~isRPCEnvelope(k.name) /\ ~isRPCEnvelope(w.name)
  BY <1>3, <1>5, <1>6, <1>7, <1>8, <1>9, <1>10, AlikeRead DEF h, g
<1>12. Admissible(k) <=> Admissible(w)
  <2>1. methodName(k.name) = methodName(w.name)
    BY DEF Alike
  <2>2. readFields(k) = readFields(w)
    BY <1>7, <2>1 DEF readFields, isQueryOnly
  <2>3. mergeRefuses(k) <=> mergeRefuses(w)
    BY <1>7, <2>1 DEF mergeRefuses
  <2> QED
    BY <1>11, <2>2, <2>3 DEF Admissible
<1> QED
  BY <1>5, <1>6, <1>11, <1>12

LEMMA AliasFollows == ASSUME IInv PROVE AliasAgrees
<1> SUFFICES ASSUME NEW c \in Conns, NEW d \in Conns, conn[c].st = "done", conn[d].st = "done", Alike(conn[c], conn[d])
             PROVE  Started(c) = Started(d)
  BY DEF AliasAgrees, Alike, Started
<1>1. Ended(conn[c], Started(c), bind) /\ Ended(conn[d], Started(d), bind)
  BY DoneFacts
<1>2. conn[c] \in Records /\ conn[d] \in Records
  BY DEF IInv, Types, Callers
<1>3. Started(c) \in BOOLEAN /\ Started(d) \in BOOLEAN
  BY DEF Started
<1>4. Started(c) \/ Started(d) => Started(c) /\ Started(d)
  BY <1>1, <1>2, <1>3, OneStarts
<1> QED
  BY <1>3, <1>4

LEMMA Sound == ASSUME IInv PROVE ServerSound
BY TypeFollows, AnswersFollow, EnvelopeFollows, ControlFollows, BodiesFollow, SnapshotsFollow, NumbersFollow,
   AllowFollows, AliasFollows DEF ServerSound

\* Whatever is asked of it and in whatever order its steps come, the server
\* (httpServer.ts, http.ts, provider.ts) answers every request once, lets only
\* its own clients reach the controls, holds no more of a body than the
\* ceiling, and replies with the state and the number its handler had.
THEOREM ServerSafe == HttpSpec => []ServerSound
<1>1. HttpInit => IInv
  BY Start
<1>2. IInv /\ [HttpNext]_httpVars => IInv'
  BY StepKeeps
<1>3. IInv => ServerSound
  BY Sound
<1> QED
  BY <1>1, <1>2, <1>3, PTL DEF HttpSpec

-----------------------------------------------------------------------------
(***************************************************************************)
(* The wire forms of a transaction.                                        *)
(***************************************************************************)
\* A chain starts with its genesis block and its times are numbers.
Blocked == blocks \in Seq(Nat) /\ blocks # << >>

\* A queued or executed message is identified by what was signed.
Queued == pending \in Seq(Range(pending))

\* What the checks of a block read in a packed transaction is what its protobuf
\* states, and its reference field tells RefModulus blocks apart.
States(tx, pb) ==
    /\ tx.raw_data.expiration.of = pb.expiration
    /\ tx.raw_data.ref_block_hash.of = pb.ref_block_hash
    /\ tx.raw_data.ref_block_bytes \in 0..(RefModulus - 1)

Identified ==
    /\ \A i \in DOMAIN pending : /\ pending[i].id = pending[i].meant
                                 /\ States(pending[i].tx, pending[i].meant)
    /\ \A e \in executed : e.id = e.meant /\ e.height \in 0..Height

\* The queue holds a message once.
Distinct == \A i, j \in DOMAIN pending : pending[i].meant = pending[j].meant => i = j

\* The answer to a request to build is what it says it is.
Repliable == \A r \in reply : /\ r.tx.bound = {} /\ States(r.tx, r.txID)
                             /\ DOMAIN r.tx = {"visible", "bound", "signature", "raw_data"}
                             /\ {"expiration", "ref_block_hash", "ref_block_bytes", "contract"} \subseteq DOMAIN r.tx.raw_data

EnvelopeInv == Blocked /\ Queued /\ Identified /\ Distinct /\ Repliable /\ ExecutedTimely

-----------------------------------------------------------------------------
LEMMA OnlyOne == ASSUME NEW e PROVE Only({e}) = e
BY DEF Only

LEMMA RangeSeq == ASSUME NEW S, NEW s \in Seq(S) PROVE s \in Seq(Range(s))
<1>1. /\ Len(s) \in Nat /\ DOMAIN s = 1..Len(s) /\ \A i \in 1..Len(s) : s[i] \in Range(s)
  BY DEF Range
<1>2. s = [i \in 1..Len(s) |-> s[i]]
  OBVIOUS
<1> QED BY <1>1, <1>2, IsASeq

\* PackEnvelope keeps what the checks of a block read.
LEMMA PackedEnvelope ==
    ASSUME NEW raw, NEW visible,
           {"expiration", "ref_block_hash", "ref_block_bytes"} \subseteq DOMAIN raw
    PROVE  /\ PackEnvelope(raw, visible).expiration.of = raw.expiration.of
           /\ PackEnvelope(raw, visible).ref_block_hash.of = raw.ref_block_hash.of
           /\ PackEnvelope(raw, visible).ref_block_bytes = raw.ref_block_bytes
           /\ DOMAIN PackEnvelope(raw, visible) = DOMAIN raw
BY DEF PackEnvelope, Number, Hex

LEMMA PackedTransaction ==
    ASSUME NEW raw, NEW visible,
           {"expiration", "ref_block_hash", "ref_block_bytes"} \subseteq DOMAIN raw
    PROVE  /\ PackTransaction(raw, visible).expiration.of = raw.expiration.of
           /\ PackTransaction(raw, visible).ref_block_hash.of = raw.ref_block_hash.of
           /\ PackTransaction(raw, visible).ref_block_bytes = raw.ref_block_bytes
<1> DEFINE inner == [raw EXCEPT !.contract = PackContracts(@, visible)]
<1>1. /\ DOMAIN inner = DOMAIN raw
      /\ inner.expiration = raw.expiration /\ inner.ref_block_hash = raw.ref_block_hash
      /\ inner.ref_block_bytes = raw.ref_block_bytes
  OBVIOUS
<1>2. PackTransaction(raw, visible) = PackEnvelope(inner, visible)
  BY DEF PackTransaction
<1> HIDE DEF inner
<1> QED BY <1>1, <1>2, PackedEnvelope

\* Packing in place changes neither the wire message a transaction is bound to
\* nor its signature, nor what the checks of a block read.
LEMMA PackedTx ==
    ASSUME NEW tx, DOMAIN tx = {"visible", "bound", "signature", "raw_data"},
           {"expiration", "ref_block_hash", "ref_block_bytes"} \subseteq DOMAIN tx.raw_data
    PROVE  /\ Packed(tx).bound = tx.bound /\ Packed(tx).signature = tx.signature
           /\ Packed(tx).raw_data.expiration.of = tx.raw_data.expiration.of
           /\ Packed(tx).raw_data.ref_block_hash.of = tx.raw_data.ref_block_hash.of
           /\ Packed(tx).raw_data.ref_block_bytes = tx.raw_data.ref_block_bytes
<1>1. /\ Packed(tx).bound = tx.bound /\ Packed(tx).signature = tx.signature
      /\ Packed(tx).raw_data = IF tx.bound # {} THEN PackEnvelope(tx.raw_data, FALSE)
                               ELSE PackTransaction(tx.raw_data, tx.visible)
  BY DEF Packed
<1>2. CASE tx.bound # {}
  <2>1. ASSUME NEW raw, raw = tx.raw_data
        PROVE  /\ PackEnvelope(raw, FALSE).expiration.of = raw.expiration.of
               /\ PackEnvelope(raw, FALSE).ref_block_hash.of = raw.ref_block_hash.of
               /\ PackEnvelope(raw, FALSE).ref_block_bytes = raw.ref_block_bytes
    BY <2>1, PackedEnvelope
  <2>2. Packed(tx).raw_data = PackEnvelope(tx.raw_data, FALSE)
    BY <1>1, <1>2
  <2> QED BY <1>1, <2>1, <2>2
<1>3. CASE tx.bound = {}
  BY <1>1, <1>3, PackedTransaction
<1> QED BY <1>2, <1>3

\* The protobuf of a JSON transaction states its window and reference block.
LEMMA EncodedEnvelope ==
    ASSUME NEW raw
    PROVE  /\ Encoded(raw).expiration = raw.expiration.of
           /\ Encoded(raw).ref_block_hash = raw.ref_block_hash.of
<1> DEFINE pb == IF raw.contract = << >> THEN EncodeEnvelope(raw)
                 ELSE IF CanEncodeLocally(raw.contract[1].type) THEN EncodeLocally(raw)
                 ELSE TxJsonToPb(raw)
           env == EnvelopeFields(raw, pb)
<1> DEFINE Stated(m) == /\ {"expiration", "ref_block_hash"} \subseteq DOMAIN m
                       /\ m.expiration = raw.expiration.of
                       /\ m.ref_block_hash = raw.ref_block_hash.of
<1>1. ASSUME NEW cs PROVE Stated(Protobuf(raw, cs))
  BY DEF Protobuf
<1>2. Stated(pb)
  BY <1>1 DEF EncodeEnvelope, EncodeLocally, TxJsonToPb
<1> HIDE DEF pb
<1>3. Stated(env)
  BY <1>2 DEF EnvelopeFields
<1> HIDE DEF env
<1>4. Stated(ContractFields(raw, env))
  BY <1>3 DEF ContractFields
<1>5. Encoded(raw) = ContractFields(raw, env)
  BY DEF Encoded, env, pb
<1> QED BY <1>4, <1>5

\* An admitted transaction passed the checks of a block on its packed form.
LEMMA AdmittedChecks ==
    ASSUME NEW tx, Judged(tx) = "ok"
    PROVE  /\ ~Known(TransactionToPb(Packed(tx)))
           /\ Packed(tx).signature[2] = TransactionToPb(Packed(tx))
<1> DEFINE packed == Packed(tx)
           verdict == IF Known(TransactionToPb(packed)) THEN "DUP_TRANSACTION_ERROR"
                      ELSE ValidateTransaction(packed)
<1>1. Judged(tx) = IF PrepareTransaction(tx) # "ok" THEN PrepareTransaction(tx) ELSE Only({verdict})
  BY DEF Judged
<1>2. verdict = "ok"
  <2>1. Only({verdict}) = verdict
    BY OnlyOne
  <2> HIDE DEF verdict
  <2> QED BY <1>1, <2>1
<1>3. ~Known(TransactionToPb(packed)) /\ ValidateTransaction(packed) = "ok"
  BY <1>2
<1> HIDE DEF packed
<1>4. packed.signature = <<packed.raw_data.contract[1].value.owner_address.of, TransactionToPb(packed)>>
  BY <1>3 DEF ValidateTransaction
<1> QED BY <1>3, <1>4 DEF packed

\* What the queue takes of a transaction that states the message pb.
Fitting(tx, pb) ==
    /\ DOMAIN tx = {"visible", "bound", "signature", "raw_data"}
    /\ {"expiration", "ref_block_hash", "ref_block_bytes"} \subseteq DOMAIN tx.raw_data
    /\ States(tx, pb) /\ tx.bound \in {{}, {pb}} /\ tx.signature[2] = pb

LEMMA AdmittedAsMeant ==
    ASSUME NEW tx, NEW pb, Fitting(tx, pb), Judged(tx) = "ok"
    PROVE  /\ TransactionToPb(Packed(tx)) = pb /\ ~Known(pb)
           /\ States(Packed(tx), pb)
<1>1. /\ Packed(tx).bound = tx.bound /\ Packed(tx).signature = tx.signature
      /\ States(Packed(tx), pb)
  BY PackedTx DEF Fitting, States
<1>2. TransactionToPb(Packed(tx)) = pb
  <2>1. CASE tx.bound = {}
    BY AdmittedChecks, <1>1 DEF Fitting
  <2>2. CASE tx.bound = {pb}
    BY <1>1, <2>2, OnlyOne DEF TransactionToPb
  <2> QED BY <2>1, <2>2 DEF Fitting
<1> QED BY <1>1, <1>2, AdmittedChecks

\* The queue after an admission.
LEMMA AdmitKeeps ==
    ASSUME EnvelopeInv, NEW tx, NEW meant, NEW form, NEW answer,
           answer = Judged(tx), Fitting(tx, meant), Admit(tx, meant, form, answer),
           UNCHANGED <<blocks, executed>>
    PROVE  (Blocked /\ Queued /\ Identified /\ Distinct /\ ExecutedTimely)'
<1>1. CASE answer # "ok"
  <2>1. pending' = pending
    BY <1>1 DEF Admit
  <2> QED BY <2>1 DEF EnvelopeInv, Blocked, Queued, Identified, Distinct, ExecutedTimely, ExecutedOnce,
                      ExecutedFresh, States, Height, Range
<1>2. CASE answer = "ok"
  <2> DEFINE entry == [tx |-> Packed(tx), id |-> TransactionToPb(Packed(tx)), meant |-> meant, form |-> form]
             S == Range(pending) \cup {entry}
  <2>1. pending' = Append(pending, entry)
    BY <1>2 DEF Admit
  <2>2. entry.id = meant /\ entry.meant = meant /\ States(entry.tx, meant) /\ ~Known(meant)
    BY <1>2, AdmittedAsMeant
  <2> HIDE DEF entry
  <2>3. pending \in Seq(S) /\ entry \in S
    BY SeqMonotonic DEF EnvelopeInv, Queued
  <2> HIDE DEF S
  <2>4. /\ Len(pending) \in Nat /\ DOMAIN pending = 1..Len(pending)
        /\ pending' \in Seq(S) /\ DOMAIN pending' = 1..(Len(pending) + 1)
        /\ \A i \in 1..Len(pending) : pending'[i] = pending[i]
        /\ pending'[Len(pending) + 1] = entry
    BY <2>1, <2>3
  <2>5. Queued'
    BY <2>4, RangeSeq DEF Queued
  <2>6. \A i \in 1..Len(pending) : pending[i].meant # meant
    BY <2>2, <2>4 DEF Known, EnvelopeInv, Identified
  <2>7. \A e \in executed : e.meant # meant
    BY <2>2 DEF Known, EnvelopeInv, Identified
  <2>8. \A i \in DOMAIN pending' : i \in DOMAIN pending \/ i = Len(pending) + 1
    BY <2>4
  <2>9. Identified'
    <3>1. ASSUME NEW i \in DOMAIN pending'
          PROVE  pending'[i].id = pending'[i].meant /\ States(pending'[i].tx, pending'[i].meant)
      BY <2>2, <2>4, <2>8 DEF EnvelopeInv, Identified
    <3> QED BY <3>1 DEF EnvelopeInv, Identified, Height, States
  <2>10. Distinct'
    <3>1. ASSUME NEW i \in DOMAIN pending', NEW j \in DOMAIN pending', pending'[i].meant = pending'[j].meant
          PROVE  i = j
      BY <3>1, <2>2, <2>4, <2>6, <2>8 DEF EnvelopeInv, Distinct
    <3> QED BY <3>1 DEF Distinct
  <2>11. ExecutedOnce'
    <3>1. ASSUME NEW i \in DOMAIN pending', NEW e \in executed PROVE e.meant # pending'[i].meant
      BY <2>2, <2>4, <2>7, <2>8 DEF EnvelopeInv, ExecutedTimely, ExecutedOnce
    <3> QED BY <3>1 DEF EnvelopeInv, ExecutedTimely, ExecutedOnce
  <2>12. ExecutedFresh' /\ Blocked'
    BY DEF EnvelopeInv, ExecutedTimely, ExecutedFresh, Blocked
  <2> QED BY <2>5, <2>9, <2>10, <2>11, <2>12 DEF ExecutedTimely
<1> QED BY <1>1, <1>2

\* Either wire form of a message fits it.
LEMMA MeantRef == ASSUME NEW c, NEW ref \in Nat, NEW expiration
                  PROVE  Meant(c, ref, expiration).ref_block_bytes \in 0..(RefModulus - 1)
<1>1. ref % RefModulus \in 0..(RefModulus - 1)
  BY EnvelopeAssumption
<1> QED BY <1>1 DEF Meant

LEMMA SpelledFits ==
    ASSUME NEW c, NEW pb, pb.ref_block_bytes \in 0..(RefModulus - 1), NEW style, NEW visible
    PROVE  Fitting(Spelled(c, pb, style, visible), pb)
<1> DEFINE tx == Spelled(c, pb, style, visible)
<1>1. /\ DOMAIN tx = {"visible", "bound", "signature", "raw_data"}
      /\ tx.bound = {} /\ tx.signature = <<c.value.owner_address, pb>>
      /\ {"expiration", "ref_block_hash", "ref_block_bytes"} \subseteq DOMAIN tx.raw_data
      /\ tx.raw_data.ref_block_bytes = pb.ref_block_bytes
  BY DEF Spelled
<1>2. tx.raw_data.expiration.of = pb.expiration /\ tx.raw_data.ref_block_hash.of = pb.ref_block_hash
  BY DEF Spelled
<1> HIDE DEF tx
<1>3. tx.signature[2] = pb
  BY <1>1
<1>4. Fitting(tx, pb)
  BY <1>1, <1>2, <1>3 DEF Fitting, States
<1> QED BY <1>4 DEF tx

LEMMA DecodedFits ==
    ASSUME NEW owner, NEW pb, pb.ref_block_bytes \in 0..(RefModulus - 1)
    PROVE  Fitting(DecodeHexTransaction(pb, <<owner, pb>>), pb)
<1> DEFINE tx == DecodeHexTransaction(pb, <<owner, pb>>)
<1>1. /\ DOMAIN tx = {"visible", "bound", "signature", "raw_data"}
      /\ tx.bound = {pb} /\ tx.signature = <<owner, pb>>
      /\ {"expiration", "ref_block_hash", "ref_block_bytes"} \subseteq DOMAIN tx.raw_data
      /\ tx.raw_data.ref_block_bytes = pb.ref_block_bytes
  BY DEF DecodeHexTransaction
<1>2. tx.raw_data.expiration.of = pb.expiration /\ tx.raw_data.ref_block_hash.of = pb.ref_block_hash
  BY DEF DecodeHexTransaction, Hex
<1> HIDE DEF tx
<1>3. tx.signature[2] = pb
  BY <1>1
<1>4. Fitting(tx, pb)
  BY <1>1, <1>2, <1>3 DEF Fitting, States
<1> QED BY <1>4 DEF tx

LEMMA Steady ==
    ASSUME EnvelopeInv, UNCHANGED <<blocks, pending, executed>>
    PROVE  (Blocked /\ Queued /\ Identified /\ Distinct /\ ExecutedTimely)'
BY DEF EnvelopeInv, Blocked, Queued, Identified, Distinct, ExecutedTimely, ExecutedOnce,
       ExecutedFresh, States, Height, Range

LEMMA SameReply == ASSUME Repliable, UNCHANGED reply PROVE Repliable'
BY DEF Repliable, States

LEMMA BroadcastKeeps ==
    ASSUME EnvelopeInv, NEW style, NEW visible, NEW ref \in 0..Height, NEW expiration,
           Broadcast(style, visible, ref, expiration)
    PROVE  EnvelopeInv'
<1>1. PICK pb \in {Meant(content, ref, expiration)} : \E tx \in {Spelled(content, pb, style, visible)} :
        \E answer \in {Judged(tx)} : Admit(tx, pb, "json", answer) /\ UNCHANGED <<blocks, executed, reply>>
  BY DEF Broadcast
<1>2. PICK tx \in {Spelled(content, pb, style, visible)} :
        \E answer \in {Judged(tx)} : Admit(tx, pb, "json", answer) /\ UNCHANGED <<blocks, executed, reply>>
  BY <1>1
<1>3. ref \in Nat
  BY DEF EnvelopeInv, Blocked, Height
<1>4. Fitting(tx, pb)
  <2>1. pb.ref_block_bytes \in 0..(RefModulus - 1)
    BY <1>3, MeantRef
  <2> QED BY <1>2, <2>1, SpelledFits
<1>5. PICK answer \in {Judged(tx)} : Admit(tx, pb, "json", answer) /\ UNCHANGED <<blocks, executed, reply>>
  BY <1>2
<1> QED BY <1>4, <1>5, AdmitKeeps, SameReply DEF EnvelopeInv

LEMMA BroadcastHexKeeps ==
    ASSUME EnvelopeInv, NEW ref \in 0..Height, NEW expiration, BroadcastHex(ref, expiration)
    PROVE  EnvelopeInv'
<1>1. PICK pb \in {Meant(content, ref, expiration)} :
        \E tx \in {DecodeHexTransaction(pb, <<content.value.owner_address, pb>>)} :
        \E answer \in {Judged(tx)} : Admit(tx, pb, "hex", answer) /\ UNCHANGED <<blocks, executed, reply>>
  BY DEF BroadcastHex
<1>2. PICK tx \in {DecodeHexTransaction(pb, <<content.value.owner_address, pb>>)} :
        \E answer \in {Judged(tx)} : Admit(tx, pb, "hex", answer) /\ UNCHANGED <<blocks, executed, reply>>
  BY <1>1
<1>3. ref \in Nat
  BY DEF EnvelopeInv, Blocked, Height
<1>4. Fitting(tx, pb)
  <2>1. pb.ref_block_bytes \in 0..(RefModulus - 1)
    BY <1>3, MeantRef
  <2> QED BY <1>2, <2>1, DecodedFits
<1>5. PICK answer \in {Judged(tx)} : Admit(tx, pb, "hex", answer) /\ UNCHANGED <<blocks, executed, reply>>
  BY <1>2
<1> QED BY <1>4, <1>5, AdmitKeeps, SameReply DEF EnvelopeInv

\* What was built states what it is identified by.
LEMMA BuildKeeps ==
    ASSUME EnvelopeInv, NEW style, NEW visible, BuildTransaction(style, visible)
    PROVE  EnvelopeInv'
<1>1. PICK request \in {[type |-> content.type, value |-> SpelledValue(content, style, visible)]} :
        \E tx \in {BuildUnsignedTx(content.type, CanonicalMessage(content.type, request.value, visible),
                                  content.Permission_id, content.data)} :
           reply' = {[tx |-> Printed(tx, visible), txID |-> TransactionToPb(tx), at |-> Height]}
  BY DEF BuildTransaction
<1> DEFINE value == CanonicalMessage(content.type, request.value, visible)
<1>2. PICK tx \in {BuildUnsignedTx(content.type, value, content.Permission_id, content.data)} :
        reply' = {[tx |-> Printed(tx, visible), txID |-> TransactionToPb(tx), at |-> Height]}
  BY <1>1
<1> HIDE DEF value
<1>3. Height % RefModulus \in 0..(RefModulus - 1)
  BY EnvelopeAssumption DEF EnvelopeInv, Blocked, Height
<1>4. /\ DOMAIN tx = {"visible", "bound", "signature", "raw_data"} /\ tx.bound = {} /\ tx.visible = FALSE
      /\ {"expiration", "ref_block_hash", "ref_block_bytes", "contract"} \subseteq DOMAIN tx.raw_data
      /\ tx.raw_data.ref_block_bytes \in 0..(RefModulus - 1)
  BY <1>2, <1>3 DEF BuildUnsignedTx
<1> DEFINE printed == Printed(tx, visible)
           id == TransactionToPb(tx)
<1>5. /\ DOMAIN printed = DOMAIN tx /\ printed.bound = {}
      /\ DOMAIN printed.raw_data = DOMAIN tx.raw_data
      /\ printed.raw_data.expiration = tx.raw_data.expiration
      /\ printed.raw_data.ref_block_hash = tx.raw_data.ref_block_hash
      /\ printed.raw_data.ref_block_bytes = tx.raw_data.ref_block_bytes
  BY <1>4 DEF Printed
<1>6. id.expiration = tx.raw_data.expiration.of /\ id.ref_block_hash = tx.raw_data.ref_block_hash.of
  <2> DEFINE raw == PackTransaction(tx.raw_data, tx.visible)
  <2>1. id = Encoded(raw)
    BY <1>4, OnlyOne DEF TransactionToPb
  <2>2. raw.expiration.of = tx.raw_data.expiration.of /\ raw.ref_block_hash.of = tx.raw_data.ref_block_hash.of
    BY <1>4, PackedTransaction
  <2> HIDE DEF raw, id
  <2> QED BY <2>1, <2>2, EncodedEnvelope
<1>7. Repliable'
  <2> HIDE DEF printed, id
  <2>1. reply' = {[tx |-> printed, txID |-> id, at |-> Height]}
    BY <1>2 DEF printed, id
  <2>2. States(printed, id)
    BY <1>4, <1>5, <1>6 DEF States
  <2> QED BY <2>1, <2>2, <1>4, <1>5 DEF Repliable, States
<1>8. UNCHANGED <<blocks, pending, executed>>
  BY DEF BuildTransaction
<1> QED BY <1>7, <1>8, Steady DEF EnvelopeInv

LEMMA SignedReplyKeeps == ASSUME EnvelopeInv, BroadcastReply PROVE EnvelopeInv'
<1>1. PICK r \in reply : /\ Admit(SignedReply(r), r.txID, "json", Judged(SignedReply(r)))
                         /\ reply' = {} /\ UNCHANGED <<blocks, executed>>
  BY DEF BroadcastReply
<1> DEFINE tx == SignedReply(r)
<1>2. Fitting(tx, r.txID)
  <2>1. /\ r.tx.bound = {} /\ States(r.tx, r.txID) /\ DOMAIN r.tx = {"visible", "bound", "signature", "raw_data"}
        /\ {"expiration", "ref_block_hash", "ref_block_bytes"} \subseteq DOMAIN r.tx.raw_data
    BY <1>1 DEF EnvelopeInv, Repliable
  <2>2. DOMAIN tx = DOMAIN r.tx /\ tx.bound = {} /\ tx.raw_data = r.tx.raw_data
    BY <2>1 DEF SignedReply
  <2>3. tx.signature = <<content.value.owner_address, r.txID>>
    BY <2>1 DEF SignedReply
  <2> HIDE DEF tx
  <2>4. tx.signature[2] = r.txID
    BY <2>3
  <2> QED BY <2>1, <2>2, <2>4 DEF Fitting, States
<1> HIDE DEF tx
<1>3. (Blocked /\ Queued /\ Identified /\ Distinct /\ ExecutedTimely)'
  <2>1. Admit(tx, r.txID, "json", Judged(tx)) /\ UNCHANGED <<blocks, executed>>
    BY <1>1 DEF tx
  <2> QED BY <1>2, <2>1, AdmitKeeps
<1>4. Repliable'
  BY <1>1 DEF Repliable
<1> QED BY <1>3, <1>4 DEF EnvelopeInv

\* A message that passed the checks of a block at this head is fresh at it: the
\* low bits of the reference name one block of the last RefModulus.
LEMMA ValidIsFresh ==
    ASSUME Blocked, NEW tx, NEW pb, States(tx, pb), ValidateTransaction(tx) = "ok"
    PROVE  /\ pb.expiration \in (HeadTime + Interval)..(HeadTime + MaxExpiration)
           /\ \E ref \in 0..Height : /\ Height - ref < RefModulus
                                     /\ pb.ref_block_hash = <<ref, blocks[ref + 1]>>
<1>1. ValidateTapos(tx.raw_data) /\ ValidateCommon(tx.raw_data)
  BY DEF ValidateTransaction
<1>2. Height \in Nat /\ HeadTime \in Nat
  BY DEF Blocked, Height, HeadTime
<1>3. pb.expiration \in (HeadTime + Interval)..(HeadTime + MaxExpiration)
  BY <1>1 DEF ValidateCommon, States, Interval
<1> DEFINE low == tx.raw_data.ref_block_bytes
           near == (Height - (Height % RefModulus)) + low
           refHeight == IF near > Height THEN near - RefModulus ELSE near
<1>4. refHeight >= 0 /\ pb.ref_block_hash = <<refHeight, blocks[refHeight + 1]>>
  BY <1>1 DEF ValidateTapos, States
<1>5. low \in 0..(RefModulus - 1) /\ Height % RefModulus \in 0..(RefModulus - 1)
  BY <1>2, EnvelopeAssumption DEF States
<1>6. refHeight \in Int /\ refHeight <= Height /\ Height - refHeight < RefModulus
  BY <1>2, <1>5, EnvelopeAssumption
<1> HIDE DEF refHeight
<1> QED BY <1>2, <1>3, <1>4, <1>6

\* What is left of a queue without its first entries.
LEMMA RestOf ==
    ASSUME NEW S, NEW s \in Seq(S), NEW b \in 0..Len(s)
    PROVE  /\ SubSeq(s, b + 1, Len(s)) \in Seq(S)
           /\ Len(SubSeq(s, b + 1, Len(s))) = Len(s) - b
           /\ \A i \in 1..(Len(s) - b) : SubSeq(s, b + 1, Len(s))[i] = s[b + i]
<1> DEFINE rest == SubSeq(s, b + 1, Len(s))
<1>1. PICK n \in Nat : n = Len(s)
  OBVIOUS
<1>2. b \in Nat /\ b <= n /\ b + 1 \in Int /\ n - (b + 1) + 1 = n - b
  BY <1>1
<1>3. \A i \in (b + 1)..n : s[i] \in S
  BY <1>1, <1>2
<1>4. /\ rest \in Seq(S) /\ Len(rest) = IF b + 1 <= n THEN n - (b + 1) + 1 ELSE 0
      /\ \A i \in 1..(n - (b + 1) + 1) : rest[i] = s[b + 1 + i - 1]
  BY <1>1, <1>2, <1>3, SubSeqProperties
<1> HIDE DEF rest
<1>5. Len(rest) = n - b
  BY <1>2, <1>4
<1>6. ASSUME NEW i \in 1..(n - b) PROVE rest[i] = s[b + i]
  <2>1. b + 1 + i - 1 = b + i
    BY <1>2
  <2> QED BY <1>2, <1>4, <2>1
<1> QED BY <1>1, <1>4, <1>5, <1>6 DEF rest

\* A block over the head of the queue.
LEMMA ProduceKeeps ==
    ASSUME EnvelopeInv, NEW batch \in 0..Len(pending), NEW allowEmpty, NEW time \in Nat,
           ProduceBlock(batch, allowEmpty, time)
    PROVE  EnvelopeInv'
<1> DEFINE good == {i \in 1..batch : StillValid(pending[i])}
           Receipt(i) == [id |-> pending[i].id, meant |-> pending[i].meant, form |-> pending[i].form,
                          reading |-> Reading(pending[i].tx.raw_data.contract[1]), height |-> Height,
                          time |-> HeadTime]
<1>1. /\ executed' = executed \cup {Receipt(i) : i \in good}
      /\ blocks' = blocks \/ blocks' = Append(blocks, time)
      /\ pending' = SubSeq(pending, batch + 1, Len(pending)) /\ reply' = reply
  BY DEF ProduceBlock, Left
<1>2. \A i \in good : /\ Receipt(i).id = pending[i].id /\ Receipt(i).meant = pending[i].meant
                     /\ Receipt(i).height = Height /\ Receipt(i).time = HeadTime
  OBVIOUS
<1>3. /\ blocks \in Seq(Nat) /\ Len(blocks) \in Nat \ {0} /\ Height \in Nat
      /\ Len(pending) \in Nat /\ DOMAIN pending = 1..Len(pending)
  BY DEF EnvelopeInv, Blocked, Queued, Height
<1>4. good \subseteq DOMAIN pending /\ \A i \in good : i <= batch /\ StillValid(pending[i])
  BY <1>3
<1> HIDE DEF good, Receipt
<1>5. /\ blocks' \in Seq(Nat) /\ blocks' # << >> /\ Height' \in Nat /\ Height <= Height'
      /\ \A i \in 1..Len(blocks) : blocks'[i] = blocks[i]
  <2>1. CASE blocks' = blocks
    BY <2>1, <1>3 DEF Height
  <2>2. CASE blocks' = Append(blocks, time)
    BY <2>2, <1>3 DEF Height
  <2> QED BY <1>1, <2>1, <2>2
<1>6. /\ Queued' /\ DOMAIN pending' = 1..(Len(pending) - batch)
      /\ \A i \in DOMAIN pending' : pending'[i] = pending[batch + i] /\ batch + i \in DOMAIN pending
  <2>1. pending \in Seq(Range(pending)) /\ batch \in Nat /\ batch <= Len(pending)
    BY DEF EnvelopeInv, Queued
  <2>3. /\ pending' \in Seq(Range(pending)) /\ Len(pending') = Len(pending) - batch
        /\ \A i \in 1..(Len(pending) - batch) : pending'[i] = pending[batch + i]
    BY <1>1, <2>1, RestOf
  <2>4. DOMAIN pending' = 1..(Len(pending) - batch)
    BY <2>3
  <2>5. Queued'
    BY <2>3, RangeSeq DEF Queued
  <2> QED BY <2>1, <2>3, <2>4, <2>5, <1>3
<1>7. Identified'
  <2>1. ASSUME NEW i \in DOMAIN pending'
        PROVE  pending'[i].id = pending'[i].meant /\ States(pending'[i].tx, pending'[i].meant)
    BY <1>6 DEF EnvelopeInv, Identified
  <2>2. ASSUME NEW e \in executed' PROVE e.id = e.meant /\ e.height \in 0..Height'
    <3>1. CASE e \in executed
      BY <3>1, <1>3, <1>5 DEF EnvelopeInv, Identified
    <3>2. CASE \E i \in good : e = Receipt(i)
      BY <3>2, <1>2, <1>3, <1>4, <1>5 DEF EnvelopeInv, Identified
    <3> QED BY <1>1, <3>1, <3>2
  <2> QED BY <2>1, <2>2 DEF Identified, States
<1>8. Distinct'
  <2>1. ASSUME NEW i \in DOMAIN pending', NEW j \in DOMAIN pending', pending'[i].meant = pending'[j].meant
        PROVE  i = j
    <3>1. batch + i = batch + j
      BY <2>1, <1>6 DEF EnvelopeInv, Distinct
    <3> QED BY <3>1, <1>3, <1>6
  <2> QED BY <2>1 DEF Distinct
<1>9. ExecutedOnce'
  <2>1. ASSUME NEW e \in executed', NEW g \in executed', e.meant = g.meant PROVE e = g
    <3>1. CASE e \in executed /\ g \in executed
      BY <3>1, <2>1 DEF EnvelopeInv, ExecutedTimely, ExecutedOnce
    <3>2. ASSUME NEW i \in good, NEW x \in executed PROVE x.meant # Receipt(i).meant
      BY <1>2, <1>4 DEF EnvelopeInv, ExecutedTimely, ExecutedOnce
    <3>3. ASSUME NEW i \in good, NEW j \in good, Receipt(i).meant = Receipt(j).meant PROVE i = j
      BY <3>3, <1>2, <1>4 DEF EnvelopeInv, Distinct
    <3> QED BY <2>1, <1>1, <3>1, <3>2, <3>3
  <2>2. ASSUME NEW i \in DOMAIN pending', NEW e \in executed' PROVE e.meant # pending'[i].meant
    <3>1. CASE e \in executed
      BY <3>1, <1>6 DEF EnvelopeInv, ExecutedTimely, ExecutedOnce
    <3>2. ASSUME NEW k \in good, e = Receipt(k) PROVE e.meant # pending'[i].meant
      <4>1. k # batch + i
        BY <1>3, <1>4, <1>6
      <4> QED BY <4>1, <3>2, <1>2, <1>4, <1>6 DEF EnvelopeInv, Distinct
    <3> QED BY <1>1, <3>1, <3>2
  <2> QED BY <2>1, <2>2 DEF ExecutedOnce
<1>10. ExecutedFresh'
  <2> DEFINE Fresh(e) == /\ e.meant.expiration \in (e.time + Interval)..(e.time + MaxExpiration)
                         /\ \E ref \in 0..e.height : /\ e.height - ref < RefModulus
                                                     /\ e.meant.ref_block_hash = <<ref, blocks[ref + 1]>>
  <2>1. ASSUME NEW e \in executed' PROVE Fresh(e)
    <3>1. CASE e \in executed
      BY <3>1 DEF EnvelopeInv, ExecutedTimely, ExecutedFresh
    <3>2. ASSUME NEW i \in good, e = Receipt(i) PROVE Fresh(e)
      <4>1. States(pending[i].tx, pending[i].meant) /\ ValidateTransaction(pending[i].tx) = "ok"
        BY <1>4 DEF EnvelopeInv, Identified, StillValid
      <4>2. e.meant = pending[i].meant /\ e.height = Height /\ e.time = HeadTime
        BY <3>2, <1>2
      <4> QED BY <4>1, <4>2, ValidIsFresh DEF EnvelopeInv
    <3> QED BY <1>1, <3>1, <3>2
  <2>2. ASSUME NEW e \in executed' PROVE e.height \in 0..Height
    <3>1. CASE e \in executed
      BY <3>1 DEF EnvelopeInv, Identified
    <3>2. CASE \E i \in good : e = Receipt(i)
      BY <3>2, <1>2, <1>3
    <3> QED BY <1>1, <3>1, <3>2
  <2>3. ASSUME NEW h \in 0..Height, NEW ref \in 0..h PROVE blocks'[ref + 1] = blocks[ref + 1]
    BY <1>3, <1>5 DEF Height
  <2> QED BY <2>1, <2>2, <2>3 DEF ExecutedFresh
<1>11. Repliable'
  BY <1>1, SameReply DEF EnvelopeInv
<1> QED BY <1>5, <1>6, <1>7, <1>8, <1>9, <1>10, <1>11 DEF EnvelopeInv, Blocked, ExecutedTimely

\* However a message is spelled and whichever wire form it takes, it runs once,
\* at a head whose time and last blocks are the ones it was signed for: admission
\* (broadcastTransaction, broadcastHex) and the second look of produceBlock.
THEOREM EnvelopeExecution == EnvelopeSpec => []ExecutedTimely
<1>1. EnvelopeInit => EnvelopeInv
  <2> SUFFICES ASSUME EnvelopeInit PROVE EnvelopeInv
    OBVIOUS
  <2>1. blocks = <<0>> /\ pending = << >> /\ executed = {} /\ reply = {}
    BY DEF EnvelopeInit
  <2> QED BY <2>1 DEF EnvelopeInv, Blocked, Queued, Identified, Distinct, Repliable, ExecutedTimely,
                      ExecutedOnce, ExecutedFresh
<1>2. EnvelopeInv /\ [EnvelopeNext]_vars => EnvelopeInv'
  <2> SUFFICES ASSUME EnvelopeInv, [EnvelopeNext]_vars PROVE EnvelopeInv'
    OBVIOUS
  <2>1. ASSUME NEW ref \in 0..Height, NEW expiration, NEW style, NEW visible,
               Broadcast(style, visible, ref, expiration)
        PROVE  EnvelopeInv'
    BY <2>1, BroadcastKeeps
  <2>2. ASSUME NEW ref \in 0..Height, NEW expiration, BroadcastHex(ref, expiration) PROVE EnvelopeInv'
    BY <2>2, BroadcastHexKeeps
  <2>3. ASSUME NEW pb, BroadcastCut(pb) PROVE EnvelopeInv'
    BY <2>3, Steady, SameReply DEF BroadcastCut, EnvelopeInv
  <2>4. ASSUME NEW style, NEW visible, BuildTransaction(style, visible) PROVE EnvelopeInv'
    BY <2>4, BuildKeeps
  <2>5. CASE BroadcastReply
    BY <2>5, SignedReplyKeeps
  <2>6. ASSUME NEW time \in HeadTime..MaxTime, Mine(time) \/ MineIndividually(time) PROVE EnvelopeInv'
    <3>1. time \in Nat
      BY EnvelopeAssumption DEF EnvelopeInv, Blocked, HeadTime
    <3>2. Len(pending) \in Nat /\ (pending # << >> => 1 \in 0..Len(pending))
      BY DEF EnvelopeInv, Queued
    <3>3. ASSUME NEW batch \in 0..Len(pending), NEW allowEmpty, ProduceBlock(batch, allowEmpty, time)
          PROVE  EnvelopeInv'
      BY <3>1, <3>3, ProduceKeeps
    <3>4. CASE Mine(time)
      <4>1. Len(pending) \in 0..Len(pending)
        BY <3>2
      <4>2. ProduceBlock(Len(pending), TRUE, time)
        BY <3>4 DEF Mine
      <4> QED BY <4>1, <4>2, <3>3
    <3>5. CASE MineIndividually(time)
      <4>1. 1 \in 0..Len(pending)
        BY <3>2, <3>5 DEF MineIndividually
      <4>2. ProduceBlock(1, FALSE, time)
        BY <3>5 DEF MineIndividually
      <4> QED BY <4>1, <4>2, <3>3
    <3> QED BY <2>6, <3>4, <3>5
  <2>7. CASE UNCHANGED vars
    BY <2>7, Steady, SameReply DEF vars, EnvelopeInv
  <2>8. CASE EnvelopeNext
    BY <2>1, <2>2, <2>3, <2>4, <2>5, <2>6, <2>8 DEF EnvelopeNext
  <2> QED BY <2>7, <2>8
<1>3. EnvelopeInv => ExecutedTimely
  BY DEF EnvelopeInv
<1> QED BY <1>1, <1>2, <1>3, PTL DEF EnvelopeSpec
=============================================================================
