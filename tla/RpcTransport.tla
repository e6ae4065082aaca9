---------------------------- MODULE RpcTransport ----------------------------
(* FailoverJsonRpc: one object per chain, shared by the threads that read    *)
(* blocks, ask for the pending nonce and broadcast.  A call walks over the   *)
(* endpoints in the order of their priority; before an endpoint may answer,  *)
(* its identity and head are probed (or a recent probe is taken from the     *)
(* cache) and compared with the endpoint that answered last.                 *)
(*                                                                           *)
(* Every request to an endpoint is a step of its own: other threads and the  *)
(* chain move between two requests of a call.  The fields of the object are  *)
(* shared and not locked; the view (view, pinned) is thread-local.           *)
EXTENDS Naturals, Sequences

CONSTANTS
    Threads,      \* callers of one transport
    MethodsOf,    \* the methods each thread calls: "read", "nonce", "send"
    Endpoints,    \* sorted by priority: a sequence
    Foreign,      \* endpoints that serve another chain
    Heads,        \* the heads an endpoint can have
    Height(_),    \* the height of a head
    Block(_, _),  \* the hash of the block of a chain with this head at a height
    MaxNonce,     \* bound: pending nonces
    MaxDrift,     \* bound: changes of the outside world
    Lag,          \* maximum_lag_blocks
    PinHealth,    \* pin_health_during_view
    HeaderBehind, \* previous_header_fallback
    None

Names == {Endpoints[i] : i \in DOMAIN Endpoints}

ASSUME RpcAssumption ==
    /\ Endpoints \in Seq(Names)
    /\ Foreign \subseteq Names
    /\ None \notin Names \union (0..MaxNonce) \union [at : Heads, fresh : BOOLEAN]
    /\ {Lag, MaxNonce, MaxDrift} \subseteq Nat
    /\ \A h \in Heads : Height(h) \in Nat \ {0}

VARIABLES
    \* the endpoints
    head, pending, down, drift,
    \* FailoverJsonRpc
    health, highest, nonce, last,
    \* one call of each thread
    pc, method, index, switched, seen,
    \* threading.local, and who answered in the open view
    view, pinned, answeredBy,
    \* history: the largest pending nonce a caller was given, and the endpoints
    \* that could have answered during all of a call
    given, fitting

world == <<head, pending, down, drift>>
shared == <<health, highest, nonce, last>>
calls == <<pc, method, index, switched, seen>>
local == <<view, pinned, answeredBy>>
rvars == <<world, shared, calls, local, given, fitting>>

\* No call is running; the last one returned, or raised RpcUnavailable.
Idle(t) == pc[t] \in {"idle", "refused"}

RTypeOK ==
    /\ head \in [Names -> Heads] /\ pending \in [Names -> 0..MaxNonce]
    /\ down \subseteq Names /\ drift \in 0..MaxDrift
    /\ last \in Names \union {None}
    /\ pc \in [Threads -> {"idle", "refused", "probe", "gate", "ask"}]
    /\ \A t \in Threads : ~Idle(t) => index[t] \in DOMAIN Endpoints
    /\ pinned \in [Threads -> Names \union {None}]

RInit ==
    /\ \E h \in Heads : head = [e \in Names |-> h]
    /\ pending \in [Names -> 0..MaxNonce] /\ \A e \in Foreign : pending[e] = 0
    /\ down = {} /\ drift = 0
    /\ health = [e \in Names |-> None] /\ highest = 0 /\ last = None
    /\ nonce = None
    /\ pc = [t \in Threads |-> "idle"] /\ method = [t \in Threads |-> None]
    /\ index = [t \in Threads |-> 0] /\ switched = [t \in Threads |-> FALSE]
    /\ seen = [t \in Threads |-> 0]
    /\ view = [t \in Threads |-> FALSE] /\ pinned = [t \in Threads |-> None]
    /\ answeredBy = [t \in Threads |-> {}]
    /\ given = 0 /\ fitting = [t \in Threads |-> Names]

-----------------------------------------------------------------------------
(* The outside: heads move and reorganise, mempools differ, endpoints fail.  *)

Drift ==
    /\ drift < MaxDrift /\ drift' = drift + 1
    /\ \E e \in Names \ Foreign :
          \/ \E h \in Heads \ {head[e]} :
                head' = [head EXCEPT ![e] = h] /\ UNCHANGED <<pending, down>>
          \/ \E n \in (0..MaxNonce) \ {pending[e]} :
                pending' = [pending EXCEPT ![e] = n] /\ UNCHANGED <<head, down>>
          \/ /\ down' = (down \ {e}) \union ({e} \ down)
             /\ UNCHANGED <<head, pending>>
    /\ UNCHANGED <<shared, calls, local, given>>

\* identity_ttl_seconds have passed since the endpoint was probed.
Expire(e) ==
    /\ health[e] # None /\ health[e].fresh
    /\ health' = [health EXCEPT ![e].fresh = FALSE]
    /\ UNCHANGED <<world, highest, nonce, last, calls, local, given>>

Answers(e) == e \notin down

-----------------------------------------------------------------------------
(* One call                                                                  *)

At(t) == Endpoints[index[t]]

\* Mutant: the pin is forgotten.
AllEndpoints(t) == DOMAIN Endpoints

\* The loop runs over the pinned endpoint, or over all of them.
Candidates(t) ==
    {i \in DOMAIN Endpoints : pinned[t] \in {None, Endpoints[i]}}

\* The transport asks the endpoint only once to take a transaction.
OneShot(m) == m = "send"

\* The call returns, or raises RpcUnavailable: its locals are gone.
Return(t, how) ==
    /\ pc' = [pc EXCEPT ![t] = how] /\ method' = [method EXCEPT ![t] = None]
    /\ index' = [index EXCEPT ![t] = 0] /\ seen' = [seen EXCEPT ![t] = 0]
    /\ switched' = [switched EXCEPT ![t] = FALSE]

\* Turn to candidate i: a switch is judged against the endpoint that answered
\* last at this moment.
Try(t, i) ==
    /\ index' = [index EXCEPT ![t] = i]
    /\ switched' = [switched EXCEPT ![t] = last # None /\ Endpoints[i] # last]
    /\ pc' = [pc EXCEPT ![t] = "probe"]
    /\ seen' = [seen EXCEPT ![t] = 0]

Call(t, m) ==
    /\ Idle(t) /\ m \in MethodsOf[t]
    /\ method' = [method EXCEPT ![t] = m]
    /\ \E i \in Candidates(t) : (\A j \in Candidates(t) : i <= j) /\ Try(t, i)
    /\ UNCHANGED <<world, shared, local, given>>

\* Candidates left after the one the thread is at fails.
Rest(t) == IF pinned[t] # None \/ OneShot(method[t]) THEN {}
           ELSE {i \in Candidates(t) : i > index[t]}

\* except ...: the next endpoint, or RpcUnavailable.
Failed(t) ==
    /\ IF Rest(t) = {}
       THEN Return(t, "refused")
       ELSE /\ \E i \in Rest(t) : (\A j \in Rest(t) : i <= j) /\ Try(t, i)
            /\ UNCHANGED method
    /\ UNCHANGED <<world, shared, local, given>>

\* The endpoint is not behind what any endpoint has shown before.
Stale(n) == n + Lag < highest

\* Mutant: only an equal head will do.
SameHead(t) == Answers(At(t)) /\ head[At(t)] = health[last].at

\* The block the last endpoint was seen at is also a block of this one, whose
\* head is not below it.
Agrees(t) ==
    LET old == health[last].at IN
    /\ Height(old) <= seen[t]
    /\ Answers(At(t)) /\ Height(old) <= Height(head[At(t)])
    /\ Block(head[At(t)], Height(old)) = Block(old, Height(old))

\* A pending nonce from a backup needs one that was seen before.
Unanchored(t) ==
    /\ method[t] = "nonce" /\ nonce = None
    /\ \E i \in Candidates(t) : i < index[t]

\* Mutant: the nonce of whichever endpoint answers is taken.
AnyNonce(t) == FALSE

\* The mempool of this endpoint knows less than one that was asked before.
NonceFell(t) == method[t] = "nonce" /\ nonce # None /\ pending[At(t)] < nonce

\* The request itself and, on success, everything the call records; n is the
\* head the endpoint was probed at.
Ask(t, n) ==
    IF Unanchored(t) \/ ~Answers(At(t)) \/ NonceFell(t)
    THEN Failed(t)
    ELSE /\ nonce' = IF method[t] = "nonce" THEN pending[At(t)] ELSE nonce
         /\ given' = IF method[t] = "nonce" /\ pending[At(t)] > given
                     THEN pending[At(t)] ELSE given
         /\ highest' = IF n > highest THEN n ELSE highest
         /\ last' = At(t)
         /\ pinned' = IF view[t] THEN [pinned EXCEPT ![t] = At(t)] ELSE pinned
         /\ answeredBy' = IF view[t]
                          THEN [answeredBy EXCEPT ![t] = @ \union {At(t)}]
                          ELSE answeredBy
         /\ Return(t, "idle")
         /\ UNCHANGED <<world, health, view>>

\* The head is accepted; only after a switch does that take a request.
Judge(t, n) ==
    IF Stale(n) THEN Failed(t) ELSE Ask(t, n)

\* A probe of this endpoint is not repeated: within an open view on it, or
\* while it is fresh and the endpoint answered last.
CacheServes(t) ==
    /\ health[At(t)] # None
    /\ \/ PinHealth /\ view[t] /\ pinned[t] = At(t)
       \/ health[At(t)].fresh /\ ~switched[t]

ProbeCached(t) ==
    /\ pc[t] = "probe" /\ CacheServes(t)
    /\ IF switched[t]
       THEN /\ seen' = [seen EXCEPT ![t] = Height(health[At(t)].at)]
            /\ pc' = [pc EXCEPT ![t] = "gate"]
            /\ UNCHANGED <<world, shared, method, index, switched, local, given>>
       ELSE Judge(t, Height(health[At(t)].at))

\* The header that is stored: that of the height just read, or with the
\* fallback that of the height before.
HeadersOf(e) ==
    {h \in Heads :
        /\ \/ Height(h) = Height(head[e])
           \/ HeaderBehind /\ Height(h) + 1 = Height(head[e])
        /\ Block(h, Height(h)) = Block(head[e], Height(h))}

\* eth_chainId, eth_blockNumber and eth_getBlockByNumber: a head that moves
\* between the three is the head they find, or fails the probe.
Probe(t) ==
    /\ pc[t] = "probe" /\ ~CacheServes(t)
    /\ IF Answers(At(t)) /\ At(t) \notin Foreign
       THEN /\ \E h \in HeadersOf(At(t)) :
                  /\ health' = [health EXCEPT ![At(t)] = [at |-> h, fresh |-> TRUE]]
                  /\ seen' = [seen EXCEPT ![t] = Height(h)]
            /\ pc' = [pc EXCEPT ![t] = "gate"]
            /\ UNCHANGED <<world, highest, nonce, last, method, index, switched, local, given>>
       ELSE Failed(t)

Gate(t) ==
    /\ pc[t] = "gate"
    /\ IF ~switched[t] THEN Judge(t, seen[t])
       ELSE IF Stale(seen[t]) \/ ~Agrees(t) THEN Failed(t)
       ELSE /\ pc' = [pc EXCEPT ![t] = "ask"]
            /\ UNCHANGED <<world, shared, method, index, switched, seen, local, given>>

AskNow(t) == pc[t] = "ask" /\ Ask(t, seen[t])

\* with rpc.consistent_view(): ... ; an inner view changes nothing.
OpenView(t) ==
    /\ Idle(t) /\ ~view[t] /\ "read" \in MethodsOf[t]
    /\ view' = [view EXCEPT ![t] = TRUE]
    /\ pinned' = [pinned EXCEPT ![t] = None]
    /\ UNCHANGED <<world, shared, calls, answeredBy, given>>

CloseView(t) ==
    /\ Idle(t) /\ view[t]
    /\ view' = [view EXCEPT ![t] = FALSE]
    /\ pinned' = [pinned EXCEPT ![t] = None]
    /\ answeredBy' = [answeredBy EXCEPT ![t] = {}]
    /\ UNCHANGED <<world, shared, calls, given>>

\* An endpoint of the chain is up, has the block the last one was seen at, is
\* not behind, and no outdated probe of it is still fresh.
Fits(e) ==
    /\ e \notin down \union Foreign /\ Height(head[e]) >= highest
    /\ health[e] # None => ~health[e].fresh \/ health[e].at = head[e]
    /\ last # None => /\ Height(health[last].at) <= Height(head[e])
                      /\ Block(head[e], Height(health[last].at))
                            = Block(health[last].at, Height(health[last].at))

Watch ==
    fitting' = [t \in Threads |->
                   IF Idle(t)' THEN Names ELSE {e \in fitting[t] : head'[e] = head[e] /\ Fits(e)'}]

Step(t) ==
    \/ \E m \in MethodsOf[t] : Call(t, m)
    \/ ProbeCached(t) \/ Probe(t) \/ Gate(t) \/ AskNow(t)
    \/ OpenView(t) \/ CloseView(t)

RNext ==
    /\ Drift \/ (\E e \in Names : Expire(e)) \/ (\E t \in Threads : Step(t))
    /\ Watch

RSpec == RInit /\ [][RNext]_rvars

-----------------------------------------------------------------------------
(* Properties                                                                *)

\* A pending nonce that a caller is given is never below one given before,
\* whichever endpoint answers and whatever the other threads have switched:
\* otherwise two transactions would be signed with one nonce.
NonceNeverFalls ==
    [][nonce' # nonce => nonce' >= given]_rvars

\* The answers of one view come from one endpoint, although another thread
\* may have failed over in between.
ViewKeepsEndpoint ==
    \A t \in Threads : \A e, f \in answeredBy[t] : e = f

\* A read outside a view is refused only when no endpoint could have answered
\* during all of the call: the loss of an endpoint is survived.
LossSurvived ==
    [][\A t \in Threads :
          /\ ~Idle(t) /\ pc'[t] = "refused"
          /\ method[t] = "read" /\ ~view[t]
          => fitting[t] = {}]_rvars
=============================================================================
