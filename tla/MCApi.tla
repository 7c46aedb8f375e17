------------------------------- MODULE MCApi -------------------------------
(***************************************************************************)
(* Either the wire forms of a transaction, with one contract message of    *)
(* every encoding path and figures at the edges; or the HTTP server, with  *)
(* two connections and a program: one client with every spelling, origin   *)
(* and body; every verb beside a preflight; a route beside its alias; and  *)
(* three callers that meet at the lock.                                    *)
(***************************************************************************)
EXTENDS Envelope, HttpServer, TLC

VARIABLE which

A == <<4, 1>>
B == <<4, 2>>
Written(type, value, permission, provider, data, refNum, auths) ==
    [type |-> type, value |-> value, Permission_id |-> permission, provider |-> provider, data |-> data,
     ref_block_num |-> refNum, auths |-> auths]
Bare(type, value) == Written(type, value, 0, << >>, << >>, 0, << >>)
Authority == <<[permission_name |-> <<3, 1>>, address |-> A]>>
MCContracts ==
    {Bare("TransferContract", [owner_address |-> A, to_address |-> B, amount |-> 0]),
     Written("TransferContract", [owner_address |-> A, to_address |-> B, amount |-> -3], 1, <<5>>, <<2, 3>>, 2, Authority),
     Bare("TransferContract", [owner_address |-> A, to_address |-> <<4>>, amount |-> 1]),
     Bare("TransferContract", [owner_address |-> A, to_address |-> B, amount |-> 11]),
     Written("AssetIssueContract", [owner_address |-> A, name |-> <<6>>, total_supply |-> 15, frozen_supply |-> <<11, -16>>],
          1, << >>, << >>, 1, << >>),
     Bare("AssetIssueContract", [owner_address |-> A, name |-> <<1, 7>>, total_supply |-> -1, frozen_supply |-> << >>]),
     Bare("UnfreezeAssetContract", [owner_address |-> A]),
     Bare("AccountCreateContract", [owner_address |-> A, account_address |-> B, type |-> 2]),
     Bare("FreezeBalanceContract", [owner_address |-> A, frozen_balance |-> 5, resource |-> 1]),
     Bare("TriggerSmartContract", [owner_address |-> A, contract_address |-> B, data |-> <<7, 0>>]),
     Bare("VoteAssetContract", [owner_address |-> A, count |-> 1])}

NowBlock == <<"wallet", "getnowblock">>
NowBlockSolidity == <<"walletsolidity", "getnowblock">>
CreateRoute == <<"wallet", "createtransaction">>
BroadcastRoute == <<"wallet", "broadcasttransaction">>
Stats == <<"monitor", "getstatsinfo">>
Unserved == <<"wallet", "getspendingkey">>
MiningRoute == <<"tre_mine">>
AccountsRoute == <<"admin", "accounts">>
Generate == <<"admin", "accounts-generation">>
Health == <<"healthcheck">>
Tre == <<"tre">>
Nowhere == <<"nowhere">>

MCRoutes == NowBlock :> "B" @@ NowBlockSolidity :> "B" @@ CreateRoute :> "S" @@ BroadcastRoute :> "P" @@ Stats :> "G" @@ Unserved :> "B"
MCExtensions == Tre :> "P" @@ <<"admin">> :> "G" @@ AccountsRoute :> "G" @@ Generate :> "P" @@ Health :> "B"
MCDefinitions == NowBlock :> NowBlock @@ NowBlockSolidity :> NowBlock @@ CreateRoute :> CreateRoute @@ BroadcastRoute :> BroadcastRoute
                 @@ MiningRoute :> MiningRoute @@ <<"admin">> :> <<"admin">> @@ AccountsRoute :> AccountsRoute @@ Generate :> Generate @@ Health :> Health
MCQueryOnly == {NowBlock, Generate, Health}
MCMerged == {CreateRoute}
MCWriters == {BroadcastRoute, MiningRoute, Generate}

Segment(name) == [name |-> name, escape |-> "none"]
Target(path) == [slashes |-> 1, segments |-> [i \in DOMAIN path |-> Segment(path[i])]]
Content(shape, num) == [shape |-> shape, depth |-> 1, num |-> num]

Ask(method, path) ==
    [version |-> 1, target |-> Target(path), method |-> method, host |-> "loopback", origin |-> FALSE, site |-> None,
     form |-> FALSE, size |-> 1, body |-> Content("object", 1), query |-> 2, rpc |-> MiningRoute]

\* Every verb at every kind of path.
Verbs == {Ask(v, p) : v \in {"GET", "HEAD", "POST", "PUT", "OPTIONS", "TRACE", "PATCH"},
                      p \in {NowBlock, CreateRoute, BroadcastRoute, Stats, Unserved, MiningRoute, AccountsRoute, Tre, Nowhere, <<"admin", "x">>}}

\* Control paths in every spelling from every kind of client.
Spellings(path) == {Target(path), [Target(path) EXCEPT !.slashes = 2],
                  [Target(path) EXCEPT !.segments[1].escape = "good"], [Target(path) EXCEPT !.segments[1].escape = "bad"]}
Clients == {[Ask("POST", Tre) EXCEPT !.target = t, !.host = h, !.origin = o, !.site = s] :
              t \in Spellings(Tre) \cup Spellings(Generate) \cup {Target(<<"TRE">>)},
              h \in {"loopback", "lan", "elsewhere", "malformed", None}, o \in BOOLEAN,
              s \in {None, "same-origin", "cross-site"}}

\* Bodies of every shape, at the ceiling and past it.
Bodies == {[Ask("POST", p) EXCEPT !.body = b, !.form = f] :
             p \in {NowBlock, CreateRoute}, f \in BOOLEAN,
             b \in {Content(s, 9) : s \in {"empty", "null", "malformed", "array", "object", "mistyped", "fields"}}
                   \cup {[Content("object", n) EXCEPT !.depth = d] : n \in {7, 8, 9}, d \in {2, 3}}}
          \cup {[Ask("POST", p) EXCEPT !.size = n] : p \in {BroadcastRoute, NowBlock}, n \in {0, 2, 3, 5}}
          \cup {[Ask("POST", Tre) EXCEPT !.rpc = p] : p \in {BroadcastRoute, Nowhere, Generate}}
          \cup {[Ask("GET", NowBlock) EXCEPT !.version = 2], [Ask("GET", NowBlock) EXCEPT !.query = 9]}

Preflights == {Ask("OPTIONS", p) : p \in {NowBlock, CreateRoute, BroadcastRoute, Stats, Nowhere, Tre}}

\* The same for a route and for its alias.
Same(path) == {[Ask("POST", path) EXCEPT !.body = Content(s, 9), !.form = f] : s \in {"empty", "object", "fields"}, f \in BOOLEAN}

\* What meets at the lock.
Meeting == {Ask("POST", Tre), [Ask("POST", BroadcastRoute) EXCEPT !.size = 3], Ask("GET", NowBlock)}
MCCalls == {[method |-> "call", name |-> p, num |-> n, accepted |-> a] :
              p \in {BroadcastRoute, Nowhere}, n \in {9}, a \in BOOLEAN}

Plan(binds, one, two, calls) == [binds |-> binds, asks |-> "c1" :> one @@ "c2" :> two @@ "p" :> calls]
UnreadableRequests == {[fault |-> f, token |-> b, two |-> b, longLine |-> b] :
                 f \in {"method", "version", "overflow", "other"}, b \in BOOLEAN}
MCPlans == "clients" :> Plan({"loopback", "lan", "*"}, Clients, {}, {})
           @@ "bodies" :> Plan({"loopback"}, Bodies \cup UnreadableRequests, {}, {})
           @@ "verbs" :> Plan({"loopback"}, Verbs, Preflights, {})
           @@ "aliases" :> Plan({"loopback"}, Same(NowBlock), Same(NowBlockSolidity), {})
           @@ "lock" :> Plan({"loopback"}, Meeting, Meeting, MCCalls)

NoEnvelope == /\ content = Bare("UnfreezeAssetContract", [owner_address |-> A])
              /\ blocks = <<0>> /\ pending = << >> /\ executed = {} /\ reply = {} /\ last = Nothing /\ sent = 0
NoServer == /\ plan = "lock" /\ bind = "loopback" /\ conn = [c \in Callers |-> Idle] /\ queue = << >>
            /\ holder = None /\ world = 0 /\ ran = {}

MCInit == \/ which = "envelope" /\ EnvelopeInit /\ NoServer
          \/ which = "server" /\ HttpInit /\ NoEnvelope
MCNext == \/ which = "envelope" /\ EnvelopeNext /\ UNCHANGED <<which, httpVars>>
          \/ which = "server" /\ HttpNext /\ UNCHANGED <<which, vars>>
MCSpec == MCInit /\ [][MCNext]_<<which, vars, httpVars>> /\ HttpFairness
=============================================================================
