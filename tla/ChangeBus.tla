----------------------------- MODULE ChangeBus -----------------------------
(***************************************************************************)
(* The dashboard's change bus (DashboardChangeBus of fomo/web/server.py):  *)
(* one thread compares the signatures of the files each source reads, and  *)
(* every WebSocket client waits for the next revision and is told which    *)
(* sources changed with it.  The bus keeps the sources of one revision,    *)
(* the latest.                                                             *)
(***************************************************************************)
EXTENDS Integers, FiniteSets

CONSTANTS
    Sources, Clients,
    MaxClients,     \* maximum_clients
    MaxChanges,     \* bound: changes of a source's files
    MaxRevision     \* bound: revisions

ASSUME BusAssumption == IsFiniteSet(Clients) /\ MaxRevision \in Nat

VARIABLES
    contents,       \* [Sources -> Nat], what stat says of the files of a source
    signatures,     \* [Sources -> Nat], what the watcher saw of them
    found,          \* the sources that differed so far in a round of the watcher
    unchecked,      \* the sources a round has still to look at
    revision, changed, connected, stopped,
    client,         \* [Clients -> [at, since, after, taken, names]]
    told,           \* history: [Clients -> the sources it has been told of, with the revision]
    noticed,        \* history: [1..MaxRevision -> the sources of a revision]
    overrun         \* history: the clients for which a revision came between two looks at it

busVars == <<contents, signatures, found, unchecked, revision, changed, connected, stopped,
             client, told, noticed, overrun>>

Away == [at |-> "away", since |-> 0, after |-> 0, taken |-> 0, names |-> {}]

BusInit ==
    /\ contents = [s \in Sources |-> 0] /\ signatures = contents
    /\ found = {} /\ unchecked = {}
    /\ revision = 0 /\ changed = {} /\ connected = 0 /\ stopped = FALSE
    /\ client = [c \in Clients |-> Away]
    /\ told = [c \in Clients |-> {}]
    /\ noticed = [n \in 1..MaxRevision |-> {}]
    /\ overrun = {}

-----------------------------------------------------------------------------
(* The watcher.                                                              *)

FileChanges(s) ==
    /\ contents[s] < MaxChanges
    /\ contents' = [contents EXCEPT ![s] = @ + 1]
    /\ UNCHANGED <<signatures, found, unchecked, revision, changed, connected, stopped, client, told, noticed, overrun>>

RoundBegins ==
    /\ ~stopped /\ unchecked = {} /\ found = {} /\ revision < MaxRevision
    /\ unchecked' = Sources
    /\ UNCHANGED <<contents, signatures, found, revision, changed, connected, stopped, client, told, noticed, overrun>>

Look(s) ==
    /\ s \in unchecked
    /\ unchecked' = unchecked \ {s}
    /\ signatures' = [signatures EXCEPT ![s] = contents[s]]
    /\ found' = IF contents[s] # signatures[s] THEN found \cup {s} ELSE found
    /\ UNCHANGED <<contents, revision, changed, connected, stopped, client, told, noticed, overrun>>

Publish ==
    /\ unchecked = {} /\ found # {}
    /\ changed' = found /\ revision' = revision + 1
    /\ noticed' = [noticed EXCEPT ![revision'] = found]
    /\ found' = {}
    /\ UNCHANGED <<contents, signatures, unchecked, connected, stopped, client, told, overrun>>

\* the clients are woken and hear heartbeats from then on
Stop ==
    /\ ~stopped /\ stopped' = TRUE
    /\ UNCHANGED <<contents, signatures, found, unchecked, revision, changed, connected, client, told, noticed, overrun>>

-----------------------------------------------------------------------------
(* A client's connection.                                                    *)

Goes(c, r) == client' = [client EXCEPT ![c] = r]

Connect(c) ==
    /\ client[c].at = "away" /\ connected < MaxClients
    /\ connected' = connected + 1
    /\ Goes(c, [Away EXCEPT !.at = "greeted", !.since = revision])
    /\ told' = [told EXCEPT ![c] = {}] /\ overrun' = overrun \ {c}
    /\ UNCHANGED <<contents, signatures, found, unchecked, revision, changed, stopped, noticed>>

\* the revision in the greeting is read before the one the client waits beyond
BeginWaiting(c) ==
    /\ client[c].at = "greeted"
    /\ Goes(c, [client[c] EXCEPT !.at = "waiting", !.after = revision])
    /\ overrun' = IF revision > client[c].since THEN overrun \cup {c} ELSE overrun
    /\ UNCHANGED <<contents, signatures, found, unchecked, revision, changed, connected, stopped, told, noticed>>

\* wait: woken by a revision; on a stop, or after 15 s, the answer is empty and a
\* heartbeat is sent
Wake(c) ==
    /\ client[c].at = "waiting" /\ revision > client[c].after
    /\ Goes(c, [client[c] EXCEPT !.at = "sending", !.taken = revision, !.names = changed])
    /\ overrun' = IF revision > client[c].after + 1 THEN overrun \cup {c} ELSE overrun
    /\ UNCHANGED <<contents, signatures, found, unchecked, revision, changed, connected, stopped, told, noticed>>

\* a mutant: the client goes on from the revision of now
FromNow(c) == revision

FromTaken(c) == client[c].taken

Send(c) ==
    /\ client[c].at = "sending"
    /\ told' = [told EXCEPT ![c] = @ \cup {<<s, client[c].taken>> : s \in client[c].names}]
    /\ Goes(c, [client[c] EXCEPT !.at = "waiting", !.after = FromTaken(c), !.names = {}])
    /\ UNCHANGED <<contents, signatures, found, unchecked, revision, changed, connected, stopped, noticed, overrun>>

\* a heartbeat or a message that cannot be sent ends the connection
Disconnect(c) ==
    /\ client[c].at # "away"
    /\ Goes(c, Away)
    /\ connected' = connected - 1
    /\ told' = [told EXCEPT ![c] = {}] /\ overrun' = overrun \ {c}
    /\ UNCHANGED <<contents, signatures, found, unchecked, revision, changed, stopped, noticed>>

BusNext ==
    \/ \E s \in Sources : FileChanges(s) \/ Look(s)
    \/ RoundBegins \/ Publish \/ Stop
    \/ \E c \in Clients : Connect(c) \/ BeginWaiting(c) \/ Wake(c) \/ Send(c) \/ Disconnect(c)

-----------------------------------------------------------------------------
(* Properties.                                                               *)

\* A client that was never overrun by a revision has been told of every source that
\* changed since it was greeted, once the message about it was sent, and the bus counts
\* the clients it has (DashboardChangeBus.wait and _run, the WebSocket loop of do_GET).
ChangesAreTold ==
    /\ connected = Cardinality({c \in Clients : client[c].at # "away"})
    /\ \A c \in Clients \ overrun : client[c].at # "away" =>
         \A n \in (client[c].since + 1)..revision : \A s \in noticed[n] :
             \/ <<s, n>> \in told[c]
             \/ client[c].at = "sending" /\ client[c].taken = n /\ s \in client[c].names
             \/ client[c].at = "sending" /\ n > client[c].taken
             \/ client[c].at = "waiting" /\ n > client[c].after
             \/ client[c].at = "greeted"
=============================================================================
