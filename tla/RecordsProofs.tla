---------------------------- MODULE RecordsProofs ----------------------------
(***************************************************************************)
(* Theorems about what the program keeps for later and who reads it: the   *)
(* dashboard's change bus, the profiles of behaviour behind their cache,   *)
(* the archive of the ranking, the logs rotated by day with the index and  *)
(* the feed that read them, and the store of the fills with the profiles   *)
(* made from it, each as a specification of its own.                       *)
(***************************************************************************)
EXTENDS ChangeBus, BehaviorProfiles, Leaderboard, AuditIndex, SidecarFeed, Performance,
        FiniteSetTheorems, TLAPS

-----------------------------------------------------------------------------
(* The dashboard's change bus.                                               *)

BusSpec == BusInit /\ [][BusNext]_busVars

ClientRecord == [at : {"away", "greeted", "waiting", "sending"}, since : Nat, after : Nat,
                 taken : Nat, names : SUBSET Sources]

BusTypes ==
    /\ found \subseteq Sources /\ unchecked \subseteq Sources
    /\ revision \in 0..MaxRevision /\ changed \subseteq Sources /\ connected \in Int
    /\ client \in [Clients -> ClientRecord]
    /\ told \in [Clients -> SUBSET (Sources \X Nat)]
    /\ noticed \in [1..MaxRevision -> SUBSET Sources]
    /\ overrun \subseteq Clients

\* While a round of the watcher is under way there is a revision left for it.
RoomForRound == unchecked # {} \/ found # {} => revision < MaxRevision

\* The bus keeps the sources of its revision.
ChangedIsLatest == revision > 0 => changed = noticed[revision]

\* Where a client stands among the revisions.
ClientInStep(c) ==
    /\ client[c].at # "away" => client[c].since <= revision
    /\ client[c].at = "waiting" => client[c].since <= client[c].after /\ client[c].after <= revision
    /\ client[c].at = "sending" => /\ client[c].since < client[c].taken /\ client[c].taken <= revision
                                   /\ client[c].names = noticed[client[c].taken]

\* A client has been told of the revisions after its greeting up to n.
ToldUpTo(c, n) == \A m \in (client[c].since + 1)..n : \A s \in noticed[m] : <<s, m>> \in told[c]

\* A client that was never overrun has been told of all revisions before the one at hand.
ClientTold(c) ==
    c \notin overrun =>
        /\ client[c].at = "waiting" => ToldUpTo(c, client[c].after)
        /\ client[c].at = "sending" => ToldUpTo(c, client[c].taken - 1)

Connections == {c \in Clients : client[c].at # "away"}

BusInv ==
    /\ BusTypes /\ RoomForRound /\ ChangedIsLatest
    /\ \A c \in Clients : ClientInStep(c) /\ ClientTold(c)
    /\ connected = Cardinality(Connections)

LEMMA BusInitially == BusInit => BusInv
<1> SUFFICES ASSUME BusInit PROVE BusInv
  OBVIOUS
<1> USE BusAssumption DEF BusInit
<1>1. BusTypes
  BY DEF BusTypes, ClientRecord, Away
<1>2. RoomForRound /\ ChangedIsLatest
  BY DEF RoomForRound, ChangedIsLatest
<1>3. \A c \in Clients : client[c].at = "away"
  BY DEF Away
<1>4. \A c \in Clients : ClientInStep(c) /\ ClientTold(c)
  BY <1>3 DEF ClientInStep, ClientTold
<1>5. Connections = {}
  BY <1>3 DEF Connections
<1>6. connected = Cardinality(Connections)
  BY <1>5, FS_EmptySet
<1>7. QED
  BY <1>1, <1>2, <1>4, <1>6 DEF BusInv

\* A step of one client that leaves the bus alone concerns this client only.
LEMMA OneClientStep ==
    ASSUME BusInv, NEW c \in Clients, NEW r \in ClientRecord,
           client' = [client EXCEPT ![c] = r],
           UNCHANGED <<found, unchecked, revision, changed, noticed>>,
           told' \in [Clients -> SUBSET (Sources \X Nat)], overrun' \subseteq Clients,
           \A o \in Clients \ {c} : told'[o] = told[o] /\ (o \in overrun' <=> o \in overrun),
           ClientInStep(c)', ClientTold(c)'
    PROVE  /\ connected' \in Int => BusTypes'
           /\ RoomForRound' /\ ChangedIsLatest'
           /\ \A o \in Clients : ClientInStep(o)' /\ ClientTold(o)'
<1>1. connected' \in Int => BusTypes'
  BY DEF BusInv, BusTypes
<1>2. RoomForRound' /\ ChangedIsLatest'
  BY DEF BusInv, RoomForRound, ChangedIsLatest
<1>3. ASSUME NEW o \in Clients \ {c} PROVE ClientInStep(o)' /\ ClientTold(o)'
  <2>1. client'[o] = client[o] /\ told'[o] = told[o]
    BY DEF BusInv, BusTypes
  <2>2. ClientInStep(o) /\ ClientTold(o)
    BY DEF BusInv
  <2>3. ClientInStep(o)'
    BY <2>1, <2>2 DEF ClientInStep
  <2>4. ToldUpTo(o, client[o].after)' <=> ToldUpTo(o, client[o].after)
    BY <2>1 DEF ToldUpTo
  <2>5. ToldUpTo(o, client[o].taken - 1)' <=> ToldUpTo(o, client[o].taken - 1)
    BY <2>1 DEF ToldUpTo
  <2>6. ClientTold(o)'
    BY <2>1, <2>2, <2>4, <2>5 DEF ClientTold
  <2>7. QED
    BY <2>3, <2>6
<1>4. QED
  BY <1>1, <1>2, <1>3

\* The connections after a step of a client that stays connected.
LEMMA StillConnected ==
    ASSUME BusInv, NEW c \in Clients, NEW r \in ClientRecord, client' = [client EXCEPT ![c] = r],
           client[c].at # "away", r.at # "away"
    PROVE  Connections' = Connections
BY DEF BusInv, BusTypes, Connections

LEMMA BusStep == BusInv /\ [BusNext]_busVars => BusInv'
<1> SUFFICES ASSUME BusInv, [BusNext]_busVars PROVE BusInv'
  OBVIOUS
<1> USE BusAssumption
<1>0. /\ revision \in Nat /\ MaxRevision \in Nat /\ revision <= MaxRevision
      /\ client \in [Clients -> ClientRecord]
  BY DEF BusInv, BusTypes
<1>1. ASSUME UNCHANGED <<revision, changed, connected, client, told, noticed, overrun>>,
             found' \subseteq Sources, unchecked' \subseteq Sources, RoomForRound'
      PROVE  BusInv'
  <2>1. BusTypes'
    BY <1>1 DEF BusInv, BusTypes
  <2>2. ChangedIsLatest' /\ connected' = Cardinality(Connections)'
    BY <1>1 DEF BusInv, ChangedIsLatest, Connections
  <2>3. \A c \in Clients : ClientInStep(c)' /\ ClientTold(c)'
    BY <1>1 DEF BusInv, ClientInStep, ClientTold, ToldUpTo
  <2>4. QED
    BY <1>1, <2>1, <2>2, <2>3 DEF BusInv
<1>2. ASSUME NEW s \in Sources, FileChanges(s) PROVE BusInv'
  <2>1. found' \subseteq Sources /\ unchecked' \subseteq Sources /\ RoomForRound'
    BY <1>2 DEF FileChanges, BusInv, BusTypes, RoomForRound
  <2>2. QED
    BY <1>1, <1>2, <2>1 DEF FileChanges
<1>3. ASSUME NEW s \in Sources, Look(s) PROVE BusInv'
  <2>1. found' \subseteq Sources /\ unchecked' \subseteq Sources
    BY <1>3 DEF Look, BusInv, BusTypes
  <2>2. RoomForRound'
    BY <1>3 DEF Look, BusInv, RoomForRound
  <2>3. QED
    BY <1>1, <1>3, <2>1, <2>2 DEF Look
<1>4. CASE RoundBegins
  <2>1. found' \subseteq Sources /\ unchecked' \subseteq Sources /\ RoomForRound'
    BY <1>4 DEF RoundBegins, BusInv, BusTypes, RoomForRound
  <2>2. QED
    BY <1>1, <1>4, <2>1 DEF RoundBegins
<1>5. CASE Publish
  <2>1. /\ revision' = revision + 1 /\ revision' \in 1..MaxRevision /\ changed' = found
        /\ found \subseteq Sources /\ found' = {} /\ unchecked' = {}
        /\ noticed \in [1..MaxRevision -> SUBSET Sources]
        /\ noticed' = [noticed EXCEPT ![revision'] = found]
        /\ UNCHANGED <<connected, client, told, overrun>>
    BY <1>0, <1>5 DEF Publish, BusInv, BusTypes, RoomForRound
  <2>2. BusTypes'
    BY <2>1 DEF BusInv, BusTypes
  <2>3. RoomForRound' /\ ChangedIsLatest'
    BY <2>1 DEF RoomForRound, ChangedIsLatest
  <2>4. \A n \in 1..MaxRevision : n <= revision => noticed'[n] = noticed[n]
    BY <1>0, <2>1
  <2>5. ASSUME NEW c \in Clients PROVE ClientInStep(c)' /\ ClientTold(c)'
    <3>1. ClientInStep(c) /\ ClientTold(c) /\ client[c] \in ClientRecord
      BY <1>0 DEF BusInv
    <3>2. ClientInStep(c)'
      BY <1>0, <2>1, <2>4, <3>1 DEF ClientInStep, ClientRecord
    <3>3. \A n \in Int : n <= revision /\ ToldUpTo(c, n) => ToldUpTo(c, n)'
      <4> SUFFICES ASSUME NEW n \in Int, n <= revision, ToldUpTo(c, n),
                          NEW m \in (client[c].since + 1)..n, NEW s \in noticed'[m]
                   PROVE  <<s, m>> \in told[c]
        BY <2>1 DEF ToldUpTo
      <4>1. m \in 1..MaxRevision /\ m <= revision
        BY <1>0, <3>1 DEF ClientRecord
      <4>2. s \in noticed[m]
        BY <2>4, <4>1
      <4>3. QED
        BY <4>2 DEF ToldUpTo
    <3>4. ClientTold(c)'
      <4>1. client'[c] = client[c] /\ overrun' = overrun
        BY <2>1
      <4>2. client[c].at = "waiting" => client[c].after \in Int /\ client[c].after <= revision
        BY <3>1 DEF ClientInStep, ClientRecord
      <4>3. client[c].at = "sending" => client[c].taken - 1 \in Int /\ client[c].taken - 1 <= revision
        BY <1>0, <3>1 DEF ClientInStep, ClientRecord
      <4>4. ASSUME c \notin overrun, client[c].at = "waiting" PROVE ToldUpTo(c, client[c].after)'
        BY <2>1, <3>1, <3>3, <4>1, <4>2, <4>4 DEF ClientTold, ToldUpTo
      <4>5. ASSUME c \notin overrun, client[c].at = "sending" PROVE ToldUpTo(c, client[c].taken - 1)'
        BY <2>1, <3>1, <3>3, <4>1, <4>3, <4>5 DEF ClientTold, ToldUpTo
      <4>6. QED
        BY <4>1, <4>4, <4>5 DEF ClientTold
    <3>5. QED
      BY <3>2, <3>4
  <2>6. connected' = Cardinality(Connections)'
    BY <2>1 DEF BusInv, Connections
  <2>7. QED
    BY <2>2, <2>3, <2>5, <2>6 DEF BusInv
<1>6. CASE Stop
  <2>1. found' \subseteq Sources /\ unchecked' \subseteq Sources /\ RoomForRound'
    BY <1>6 DEF Stop, BusInv, BusTypes, RoomForRound
  <2>2. QED
    BY <1>1, <1>6, <2>1 DEF Stop
<1>7. ASSUME NEW c \in Clients, Connect(c) PROVE BusInv'
  <2> DEFINE r == [Away EXCEPT !.at = "greeted", !.since = revision]
  <2>1. r \in ClientRecord /\ r.at = "greeted" /\ r.since = revision
    BY <1>0 DEF Away, ClientRecord
  <2>2. /\ r \in ClientRecord /\ client' = [client EXCEPT ![c] = r] /\ client'[c] = r
        /\ told' = [told EXCEPT ![c] = {}] /\ overrun' = overrun \ {c}
        /\ UNCHANGED <<found, unchecked, revision, changed, noticed>>
        /\ connected' = connected + 1
    BY <1>0, <1>7, <2>1 DEF Connect, Goes, ClientRecord
  <2>3. r.at = "greeted" /\ r.since = revision
    BY <2>1
  <2> HIDE DEF r
  <2>4. ClientInStep(c)' /\ ClientTold(c)'
    BY <1>0, <2>2, <2>3 DEF ClientInStep, ClientTold
  <2>5. told' \in [Clients -> SUBSET (Sources \X Nat)] /\ overrun' \subseteq Clients /\ connected' \in Int
    BY <2>2 DEF BusInv, BusTypes
  <2>6. \A o \in Clients \ {c} : told'[o] = told[o] /\ (o \in overrun' <=> o \in overrun)
    BY <2>2 DEF BusInv, BusTypes
  <2>7. Connections' = Connections \cup {c} /\ c \notin Connections
    BY <1>0, <1>7, <2>2, <2>3 DEF Connections, Connect
  <2>8. IsFiniteSet(Connections)
    BY FS_Subset DEF Connections
  <2>9. connected' = Cardinality(Connections)'
    BY <2>2, <2>7, <2>8, FS_AddElement DEF BusInv
  <2>10. QED
    BY <2>2, <2>4, <2>5, <2>6, <2>9, OneClientStep DEF BusInv
<1>8. ASSUME NEW c \in Clients, BeginWaiting(c) PROVE BusInv'
  <2> DEFINE r == [client[c] EXCEPT !.at = "waiting", !.after = revision]
  <2>1. r \in ClientRecord /\ r.at = "waiting" /\ r.since = client[c].since /\ r.after = revision
    BY <1>0 DEF ClientRecord
  <2>2. /\ r \in ClientRecord /\ client' = [client EXCEPT ![c] = r] /\ client'[c] = r
        /\ told' = told /\ overrun' = IF revision > client[c].since THEN overrun \cup {c} ELSE overrun
        /\ UNCHANGED <<found, unchecked, revision, changed, noticed, connected>>
        /\ client[c].at = "greeted"
    BY <1>0, <1>8, <2>1 DEF BeginWaiting, Goes, ClientRecord
  <2>3. r.at = "waiting" /\ r.since = client[c].since /\ r.after = revision /\ r.since \in Nat
    BY <1>0, <2>1 DEF ClientRecord
  <2> HIDE DEF r
  <2>4. r.since <= revision
    BY <2>2, <2>3 DEF BusInv, ClientInStep
  <2>5. ClientInStep(c)'
    BY <1>0, <2>2, <2>3, <2>4 DEF ClientInStep
  <2>6. ClientTold(c)'
    <3> SUFFICES ASSUME c \notin overrun' PROVE ToldUpTo(c, client[c].after)'
      BY <2>2, <2>3 DEF ClientTold
    <3>1. ~(revision > r.since)
      BY <2>2, <2>3
    <3>2. (r.since + 1)..revision = {}
      BY <1>0, <2>3, <2>4, <3>1
    <3>3. QED
      BY <2>2, <2>3, <3>2 DEF ToldUpTo
  <2>7. told' \in [Clients -> SUBSET (Sources \X Nat)] /\ overrun' \subseteq Clients /\ connected' \in Int
    BY <2>2 DEF BusInv, BusTypes
  <2>8. \A o \in Clients \ {c} : told'[o] = told[o] /\ (o \in overrun' <=> o \in overrun)
    BY <2>2
  <2>9. connected' = Cardinality(Connections)'
    BY <2>2, <2>3, StillConnected DEF BusInv
  <2>10. QED
    BY <2>2, <2>5, <2>6, <2>7, <2>8, <2>9, OneClientStep DEF BusInv
<1>9. ASSUME NEW c \in Clients, Wake(c) PROVE BusInv'
  <2> DEFINE r == [client[c] EXCEPT !.at = "sending", !.taken = revision, !.names = changed]
  <2>1. /\ r \in ClientRecord /\ r.at = "sending" /\ r.since = client[c].since
        /\ r.after = client[c].after /\ r.taken = revision /\ r.names = changed
    BY <1>0 DEF ClientRecord, BusInv, BusTypes
  <2>2. /\ r \in ClientRecord /\ client' = [client EXCEPT ![c] = r] /\ client'[c] = r
        /\ told' = told /\ overrun' = IF revision > client[c].after + 1 THEN overrun \cup {c} ELSE overrun
        /\ UNCHANGED <<found, unchecked, revision, changed, noticed, connected>>
        /\ client[c].at = "waiting" /\ revision > client[c].after
    BY <1>0, <1>9, <2>1 DEF Wake, Goes, ClientRecord, BusInv, BusTypes
  <2>3. /\ r.at = "sending" /\ r.since = client[c].since /\ r.after = client[c].after /\ r.taken = revision
        /\ r.names = changed /\ r.since \in Nat /\ r.after \in Nat
    BY <1>0, <2>1 DEF ClientRecord
  <2> HIDE DEF r
  <2>4. r.since <= r.after /\ ClientTold(c)
    BY <2>2, <2>3 DEF BusInv, ClientInStep
  <2>5. ClientInStep(c)'
    <3>1. changed = noticed[revision]
      BY <1>0, <2>2, <2>3 DEF BusInv, ChangedIsLatest
    <3>2. QED
      BY <1>0, <2>2, <2>3, <2>4, <3>1 DEF ClientInStep
  <2>6. ClientTold(c)'
    <3> SUFFICES ASSUME c \notin overrun' PROVE ToldUpTo(c, client[c].taken - 1)'
      BY <2>2, <2>3 DEF ClientTold
    <3>1. revision - 1 = client[c].after /\ c \notin overrun
      BY <1>0, <2>2, <2>3
    <3>2. ToldUpTo(c, client[c].after)
      BY <2>2, <2>4, <3>1 DEF ClientTold
    <3>3. QED
      BY <2>2, <2>3, <3>1, <3>2 DEF ToldUpTo
  <2>7. told' \in [Clients -> SUBSET (Sources \X Nat)] /\ overrun' \subseteq Clients /\ connected' \in Int
    BY <2>2 DEF BusInv, BusTypes
  <2>8. \A o \in Clients \ {c} : told'[o] = told[o] /\ (o \in overrun' <=> o \in overrun)
    BY <2>2
  <2>9. connected' = Cardinality(Connections)'
    BY <2>2, <2>3, StillConnected DEF BusInv
  <2>10. QED
    BY <2>2, <2>5, <2>6, <2>7, <2>8, <2>9, OneClientStep DEF BusInv
<1>10. ASSUME NEW c \in Clients, Send(c) PROVE BusInv'
  <2> DEFINE r == [client[c] EXCEPT !.at = "waiting", !.after = client[c].taken, !.names = {}]
             news == {<<s, client[c].taken>> : s \in client[c].names}
  <2>1. r \in ClientRecord /\ r.at = "waiting" /\ r.since = client[c].since /\ r.after = client[c].taken
    BY <1>0 DEF ClientRecord
  <2>2. /\ r \in ClientRecord /\ client' = [client EXCEPT ![c] = r] /\ client'[c] = r
        /\ told' = [told EXCEPT ![c] = @ \cup news] /\ overrun' = overrun
        /\ UNCHANGED <<found, unchecked, revision, changed, noticed, connected>>
        /\ client[c].at = "sending"
    BY <1>0, <1>10, <2>1 DEF Send, Goes, ClientRecord, FromTaken
  <2>3. /\ r.at = "waiting" /\ r.since = client[c].since /\ r.after = client[c].taken
        /\ client[c].since \in Nat /\ client[c].taken \in Nat /\ client[c].names \subseteq Sources
    BY <1>0, <2>1 DEF ClientRecord
  <2> HIDE DEF r
  <2>4. /\ client[c].since < client[c].taken /\ client[c].taken <= revision
        /\ client[c].names = noticed[client[c].taken] /\ ClientTold(c)
    BY <2>2 DEF BusInv, ClientInStep
  <2>5. ClientInStep(c)'
    BY <1>0, <2>2, <2>3, <2>4 DEF ClientInStep
  <2>6. told'[c] = told[c] \cup news
    BY <2>2 DEF BusInv, BusTypes
  <2>7. ClientTold(c)'
    <3> SUFFICES ASSUME c \notin overrun,
                        NEW m \in (client[c].since + 1)..(client[c].taken), NEW s \in noticed[m]
                 PROVE  <<s, m>> \in told[c] \cup news
      BY <2>2, <2>3, <2>6 DEF ClientTold, ToldUpTo
    <3>1. CASE m = client[c].taken
      BY <2>4, <3>1
    <3>2. CASE m # client[c].taken
      <4>1. m \in (client[c].since + 1)..(client[c].taken - 1)
        BY <2>3, <3>2
      <4>2. ToldUpTo(c, client[c].taken - 1)
        BY <2>2, <2>4 DEF ClientTold
      <4>3. QED
        BY <4>1, <4>2 DEF ToldUpTo
    <3>3. QED
      BY <3>1, <3>2
  <2>8. told' \in [Clients -> SUBSET (Sources \X Nat)] /\ overrun' \subseteq Clients /\ connected' \in Int
    <3>1. news \subseteq Sources \X Nat
      BY <2>3
    <3> HIDE DEF news
    <3>2. QED
      BY <2>2, <3>1 DEF BusInv, BusTypes
  <2>9. \A o \in Clients \ {c} : told'[o] = told[o] /\ (o \in overrun' <=> o \in overrun)
    BY <2>2 DEF BusInv, BusTypes
  <2>10. connected' = Cardinality(Connections)'
    BY <2>2, <2>3, StillConnected DEF BusInv
  <2>11. QED
    BY <2>2, <2>5, <2>7, <2>8, <2>9, <2>10, OneClientStep DEF BusInv
<1>11. ASSUME NEW c \in Clients, Disconnect(c) PROVE BusInv'
  <2>1. /\ Away \in ClientRecord /\ Away.at = "away"
        /\ client' = [client EXCEPT ![c] = Away] /\ client'[c] = Away
        /\ told' = [told EXCEPT ![c] = {}] /\ overrun' = overrun \ {c}
        /\ UNCHANGED <<found, unchecked, revision, changed, noticed>>
        /\ connected' = connected - 1
    BY <1>0, <1>11 DEF Disconnect, Goes, ClientRecord, Away
  <2>2. ClientInStep(c)' /\ ClientTold(c)'
    BY <2>1 DEF ClientInStep, ClientTold
  <2>3. told' \in [Clients -> SUBSET (Sources \X Nat)] /\ overrun' \subseteq Clients /\ connected' \in Int
    BY <2>1 DEF BusInv, BusTypes
  <2>4. \A o \in Clients \ {c} : told'[o] = told[o] /\ (o \in overrun' <=> o \in overrun)
    BY <2>1 DEF BusInv, BusTypes
  <2>5. Connections' = Connections \ {c} /\ c \in Connections
    BY <1>0, <1>11, <2>1 DEF Connections, Disconnect
  <2>6. IsFiniteSet(Connections)
    BY FS_Subset DEF Connections
  <2>7. connected' = Cardinality(Connections)'
    BY <2>1, <2>5, <2>6, FS_RemoveElement DEF BusInv
  <2>8. QED
    BY <2>1, <2>2, <2>3, <2>4, <2>7, OneClientStep DEF BusInv
<1>12. CASE UNCHANGED busVars
  <2>1. found' \subseteq Sources /\ unchecked' \subseteq Sources /\ RoomForRound'
    BY <1>12 DEF busVars, BusInv, BusTypes, RoomForRound
  <2>2. QED
    BY <1>1, <1>12, <2>1 DEF busVars
<1>13. QED
  BY <1>2, <1>3, <1>4, <1>5, <1>6, <1>7, <1>8, <1>9, <1>10, <1>11, <1>12 DEF BusNext

\* A client that was never overrun has been told, or is about to be told, of every source
\* that changed since it was greeted, and the bus counts the clients it has.
THEOREM ClientsAreTold == BusSpec => []ChangesAreTold
<1>1. ASSUME BusInv PROVE ChangesAreTold
  <2>1. connected = Cardinality({c \in Clients : client[c].at # "away"})
    BY <1>1 DEF BusInv, Connections
  <2>2. ASSUME NEW c \in Clients \ overrun, client[c].at # "away",
               NEW n \in (client[c].since + 1)..revision, NEW s \in noticed[n]
        PROVE  \/ <<s, n>> \in told[c]
               \/ client[c].at = "sending" /\ client[c].taken = n /\ s \in client[c].names
               \/ client[c].at = "sending" /\ n > client[c].taken
               \/ client[c].at = "waiting" /\ n > client[c].after
               \/ client[c].at = "greeted"
    <3>1. /\ ClientInStep(c) /\ ClientTold(c) /\ client[c] \in ClientRecord /\ revision \in Nat
      BY <1>1 DEF BusInv, BusTypes
    <3>2. client[c].since \in Nat /\ client[c].after \in Nat /\ client[c].taken \in Nat /\ n \in Int
          /\ client[c].at \in {"greeted", "waiting", "sending"}
      BY <2>2, <3>1 DEF ClientRecord
    <3>3. CASE client[c].at = "waiting" /\ ~(n > client[c].after)
      <4>1. n \in (client[c].since + 1)..(client[c].after)
        BY <3>2, <3>3
      <4>2. QED
        BY <3>1, <3>3, <4>1 DEF ClientTold, ToldUpTo
    <3>4. CASE client[c].at = "sending" /\ n < client[c].taken
      <4>1. n \in (client[c].since + 1)..(client[c].taken - 1)
        BY <3>2, <3>4
      <4>2. QED
        BY <3>1, <3>4, <4>1 DEF ClientTold, ToldUpTo
    <3>5. CASE client[c].at = "sending" /\ n = client[c].taken
      BY <3>1, <3>5 DEF ClientInStep
    <3>6. QED
      BY <3>2, <3>3, <3>4, <3>5
  <2>3. QED
    BY <2>1, <2>2 DEF ChangesAreTold
<1>2. QED
  BY BusInitially, BusStep, <1>1, PTL DEF BusSpec

-----------------------------------------------------------------------------
(* The cache of the behaviour profiles.                                      *)

BehaviorSpec == BehaviorInit /\ [][BehaviorNext]_bvars

\* What a payload may be.
Payloads == {{}} \cup {Payload(rows) : rows \in SUBSET Observed}

BehaviorTypes ==
    /\ events \subseteq Observed
    /\ cache \in [revision : Int, payload : Payloads]
    /\ asking \in [Consoles -> [at : {"idle", "cache", "rows", "store"}, revision : Nat, payload : Payloads]]

\* A payload made from rows that are still there, at least as many as its revision says.
MadeFromRows(s) == \E rows \in SUBSET events : s.revision <= Cardinality(rows) /\ s.payload = Payload(rows)

CacheMade == cache.revision = -1 \/ MadeFromRows(cache)

\* A running snapshot's revision is not ahead of the events; what it has computed is made
\* from at least so many.
AskingMade ==
    \A c \in Consoles :
        /\ asking[c].at \in {"cache", "rows"} => asking[c].revision <= Cardinality(events)
        /\ asking[c].at = "store" => MadeFromRows(asking[c])

BehaviorInv == BehaviorTypes /\ CacheMade /\ AskingMade

LEMMA BehaviorInitially == BehaviorInit => BehaviorInv
  BY DEF BehaviorInit, BehaviorInv, BehaviorTypes, CacheMade, AskingMade, NotAsking, Payloads

\* Events only ever come, so what was made from rows stays so.
LEMMA RowsStay ==
    ASSUME BehaviorTypes, BehaviorTypes', events \subseteq events'
    PROVE  /\ Cardinality(events) \in Nat /\ Cardinality(events') \in Nat
           /\ Cardinality(events) <= Cardinality(events')
           /\ \A s : MadeFromRows(s) => \E rows \in SUBSET events' :
                                          s.revision <= Cardinality(rows) /\ s.payload = Payload(rows)
<1>1. IsFiniteSet(events) /\ IsFiniteSet(events')
  BY ObservedAssumption, FS_Subset DEF BehaviorTypes
<1>2. /\ Cardinality(events) \in Nat /\ Cardinality(events') \in Nat
      /\ Cardinality(events) <= Cardinality(events')
  BY <1>1, FS_CardinalityType, FS_Subset
<1>3. ASSUME NEW s, MadeFromRows(s)
      PROVE  \E rows \in SUBSET events' : s.revision <= Cardinality(rows) /\ s.payload = Payload(rows)
  <2>1. PICK rows \in SUBSET events : s.revision <= Cardinality(rows) /\ s.payload = Payload(rows)
    BY <1>3 DEF MadeFromRows
  <2>2. rows \in SUBSET events'
    BY <2>1
  <2>3. QED
    BY <2>1, <2>2
<1>4. QED
  BY <1>2, <1>3

\* A step that only adds events.
LEMMA EventsCome ==
    ASSUME BehaviorInv, events \subseteq events', events' \subseteq Observed, UNCHANGED <<cache, asking>>
    PROVE  BehaviorInv'
<1>1. BehaviorTypes'
  BY DEF BehaviorInv, BehaviorTypes
<1>2. CacheMade'
  BY <1>1, RowsStay DEF BehaviorInv, CacheMade, MadeFromRows
<1>3. AskingMade'
  <2> SUFFICES ASSUME NEW c \in Consoles
               PROVE  /\ asking[c].at \in {"cache", "rows"} => asking[c].revision <= Cardinality(events')
                      /\ asking[c].at = "store" =>
                           \E rows \in SUBSET events' : /\ asking[c].revision <= Cardinality(rows)
                                                        /\ asking[c].payload = Payload(rows)
    BY DEF AskingMade, MadeFromRows
  <2>1. asking[c].revision \in Nat
    BY DEF BehaviorInv, BehaviorTypes
  <2>2. QED
    BY <1>1, <2>1, RowsStay DEF BehaviorInv, AskingMade
<1>4. QED
  BY <1>1, <1>2, <1>3 DEF BehaviorInv

\* A step of a console: the events stay.
LEMMA OneConsoleStep ==
    ASSUME BehaviorInv, NEW c \in Consoles,
           NEW r \in [at : {"idle", "cache", "rows", "store"}, revision : Nat, payload : Payloads],
           asking' = [asking EXCEPT ![c] = r], events' = events,
           r.at \in {"cache", "rows"} => r.revision <= Cardinality(events),
           r.at = "store" => MadeFromRows(r),
           cache' = cache \/ (cache' \in [revision : Int, payload : Payloads] /\ MadeFromRows(cache'))
    PROVE  BehaviorInv'
<1>1. BehaviorTypes'
  BY DEF BehaviorInv, BehaviorTypes
<1>2. \A o \in Consoles : asking'[o] = IF o = c THEN r ELSE asking[o]
  BY DEF BehaviorInv, BehaviorTypes
<1>3. AskingMade'
  BY <1>2 DEF AskingMade, BehaviorInv, MadeFromRows
<1>4. CacheMade'
  BY DEF CacheMade, BehaviorInv, MadeFromRows
<1>5. QED
  BY <1>1, <1>3, <1>4 DEF BehaviorInv

LEMMA BehaviorStep ==
    ASSUME BehaviorInv, [BehaviorNext]_bvars
    PROVE  BehaviorInv'
<1> DEFINE Running == [at : {"idle", "cache", "rows", "store"}, revision : Nat, payload : Payloads]
<1>1. BehaviorTypes /\ AskingMade /\ Cardinality(events) \in Nat
  <2>1. IsFiniteSet(events)
    BY ObservedAssumption, FS_Subset DEF BehaviorInv, BehaviorTypes
  <2>2. QED
    BY <2>1, FS_CardinalityType DEF BehaviorInv
<1>2. ASSUME NEW e \in Observed, RecordEvent(e) PROVE BehaviorInv'
  BY <1>1, <1>2, EventsCome DEF RecordEvent, BehaviorTypes
<1>3. CASE IngestOrderRows
  <2>1. events \subseteq events' /\ events' \subseteq Observed /\ UNCHANGED <<cache, asking>>
    BY <1>1, <1>3 DEF IngestOrderRows, BehaviorTypes
  <2>2. QED
    BY <2>1, EventsCome
<1>4. ASSUME NEW c \in Consoles, AskRevision(c) PROVE BehaviorInv'
  <2> DEFINE r == [NotAsking EXCEPT !.at = "cache", !.revision = Cardinality(events)]
  <2>1. r \in Running /\ r.at = "cache" /\ r.revision = Cardinality(events)
    BY <1>1 DEF NotAsking, Payloads
  <2>2. asking' = [asking EXCEPT ![c] = r] /\ events' = events /\ cache' = cache
    BY <1>4 DEF AskRevision
  <2> HIDE DEF r
  <2>3. r.revision <= Cardinality(events)
    BY <1>1, <2>1
  <2>4. QED
    BY <2>1, <2>2, <2>3, OneConsoleStep DEF MadeFromRows
<1>5. ASSUME NEW c \in Consoles, AskCache(c) PROVE BehaviorInv'
  <2> DEFINE r == IF cache.revision = asking[c].revision THEN NotAsking ELSE [asking[c] EXCEPT !.at = "rows"]
  <2>1. /\ r \in Running /\ r.at # "store"
        /\ r.at \in {"cache", "rows"} => r.revision <= Cardinality(events)
    BY <1>1, <1>5 DEF NotAsking, Payloads, AskCache, BehaviorTypes, AskingMade
  <2>2. asking' = [asking EXCEPT ![c] = r] /\ events' = events /\ cache' = cache
    BY <1>1, <1>5 DEF AskCache, BehaviorTypes
  <2> HIDE DEF r
  <2>3. QED
    BY <2>1, <2>2, OneConsoleStep DEF MadeFromRows
<1>6. ASSUME NEW c \in Consoles, Compute(c) PROVE BehaviorInv'
  <2> DEFINE r == [asking[c] EXCEPT !.at = "store", !.payload = Payload(events)]
  <2>1. Payload(events) \in Payloads
    BY <1>1 DEF Payloads, BehaviorTypes
  <2>2. /\ r \in Running /\ r.at = "store" /\ r.revision = asking[c].revision /\ r.payload = Payload(events)
    BY <1>1, <2>1 DEF BehaviorTypes
  <2>3. asking' = [asking EXCEPT ![c] = r] /\ events' = events /\ cache' = cache
    BY <1>1, <1>6 DEF Compute, BehaviorTypes
  <2>4. asking[c].revision <= Cardinality(events)
    BY <1>1, <1>6 DEF Compute, AskingMade
  <2> HIDE DEF r
  <2>5. MadeFromRows(r)
    BY <2>2, <2>4 DEF MadeFromRows
  <2>6. QED
    BY <2>2, <2>3, <2>5, OneConsoleStep DEF MadeFromRows
<1>7. ASSUME NEW c \in Consoles, StoreCache(c) PROVE BehaviorInv'
  <2>1. /\ cache'.revision = asking[c].revision /\ cache'.payload = asking[c].payload
        /\ cache' \in [revision : Int, payload : Payloads]
    BY <1>1, <1>7 DEF StoreCache, RevisionStored, BehaviorTypes
  <2>2. MadeFromRows(asking[c]) /\ asking' = [asking EXCEPT ![c] = NotAsking] /\ events' = events
    BY <1>1, <1>7 DEF StoreCache, AskingMade
  <2>3. NotAsking \in Running /\ NotAsking.at = "idle"
    BY DEF NotAsking, Payloads
  <2>4. MadeFromRows(cache')
    BY <2>1, <2>2 DEF MadeFromRows
  <2>5. QED
    BY <2>1, <2>2, <2>3, <2>4, OneConsoleStep
<1>8. CASE UNCHANGED bvars
  BY <1>1, <1>8, EventsCome DEF bvars, BehaviorTypes
<1>9. QED
  BY <1>2, <1>3, <1>4, <1>5, <1>6, <1>7, <1>8 DEF BehaviorNext

\* A cache that would be answered from holds what all the events give, however events
\* come while consoles compute and whichever of them stores its answer last: rows no
\* fewer than all the events there are, and of them, are all of them (snapshot).
THEOREM CacheStaysCurrent == BehaviorSpec => []CacheIsCurrent
<1>1. BehaviorInv => CacheIsCurrent
  <2> SUFFICES ASSUME BehaviorInv, cache.revision = Cardinality(events)
               PROVE  cache.payload = Payload(events)
    BY DEF CacheIsCurrent
  <2>1. IsFiniteSet(events)
    BY ObservedAssumption, FS_Subset DEF BehaviorInv, BehaviorTypes
  <2>2. Cardinality(events) \in Nat
    BY <2>1, FS_CardinalityType
  <2>3. PICK rows \in SUBSET events : Cardinality(events) <= Cardinality(rows) /\ cache.payload = Payload(rows)
    BY <2>2 DEF BehaviorInv, CacheMade, MadeFromRows
  <2>4. rows = events
    <3>1. Cardinality(rows) \in Nat /\ Cardinality(rows) <= Cardinality(events)
      BY <2>1, FS_Subset, FS_CardinalityType
    <3>2. Cardinality(rows) = Cardinality(events)
      BY <2>2, <2>3, <3>1
    <3>3. QED
      BY <2>1, <3>2, FS_Subset
  <2>5. QED
    BY <2>3, <2>4
<1>2. QED
  BY <1>1, BehaviorInitially, BehaviorStep, PTL DEF BehaviorSpec

-----------------------------------------------------------------------------
(* Greatest elements and days.                                               *)

\* A set of natural numbers has a least element.
LEMMA LeastNatural ==
    ASSUME NEW T \in SUBSET Nat, T # {}
    PROVE  \E x \in T : \A y \in T : x <= y
<1> DEFINE R == {ss \in Nat \X Nat : ss[1] < ss[2]}
<1>0. IsWellFoundedOn(R, Nat)
  BY NatLessThanWellFounded DEF OpToRel
<1> HIDE DEF R
<1>1. PICK x \in T : \A y \in T : ~ (<<y, x>> \in R)
  BY <1>0, WFMin
<1>2. \A y \in T : ~(y < x)
  BY <1>1 DEF R
<1>3. QED
  BY <1>2

\* Of a finite set the elements that exceed the fewest others are the least: turned round,
\* a function has a greatest value on a finite set.
LEMMA GreatestValue ==
    ASSUME NEW S, IsFiniteSet(S), S # {}, NEW f \in [S -> Nat]
    PROVE  \E x \in S : \A y \in S : f[y] <= f[x]
<1> DEFINE Above(x) == {y \in S : f[y] > f[x]}
<1> DEFINE Sizes == {Cardinality(Above(x)) : x \in S}
<1>1. \A x \in S : IsFiniteSet(Above(x)) /\ Cardinality(Above(x)) \in Nat
  BY FS_Subset, FS_CardinalityType
<1>2. PICK n \in Sizes : \A m \in Sizes : n <= m
  <2>1. Sizes \subseteq Nat /\ Sizes # {}
    BY <1>1
  <2> HIDE DEF Sizes
  <2>2. QED
    BY <2>1, LeastNatural
<1>3. PICK x \in S : n = Cardinality(Above(x))
  BY <1>2
<1>4. ASSUME NEW y \in S, f[y] > f[x] PROVE FALSE
  <2>1. Above(y) \subseteq Above(x) /\ y \in Above(x) /\ y \notin Above(y)
    BY <1>4
  <2>2. Cardinality(Above(y)) <= Cardinality(Above(x)) /\ Cardinality(Above(y)) # Cardinality(Above(x))
    BY <1>1, <2>1, FS_Subset
  <2>3. Cardinality(Above(x)) <= Cardinality(Above(y))
    BY <1>2, <1>3
  <2>4. Cardinality(Above(x)) \in Nat /\ Cardinality(Above(y)) \in Nat
    BY <1>1
  <2> HIDE DEF Above
  <2>5. QED
    BY <2>2, <2>3, <2>4
<1>5. QED
  BY <1>4

LEMMA DivMonotone ==
    ASSUME NEW n \in Nat \ {0}, NEW a \in Nat, NEW b \in Nat, a <= b
    PROVE  /\ a \div n \in Nat /\ a \div n <= b \div n
<1> DEFINE p == a \div n
           q == b \div n
<1>1. p \in Int /\ q \in Int
  OBVIOUS
<1>2. a = n * p + (a % n) /\ 0 <= a % n /\ a % n < n
  OBVIOUS
<1>3. b = n * q + (b % n) /\ 0 <= b % n /\ b % n < n
  OBVIOUS
<1> HIDE DEF p, q
<1>4. a % n \in Nat /\ b % n \in Nat
  OBVIOUS
<1>5. p <= q
  <2> SUFFICES ASSUME p >= q + 1 PROVE FALSE
    BY <1>1
  <2>1. n * p >= n * (q + 1)
    BY <1>1
  <2>2. n * (q + 1) = n * q + n
    BY <1>1
  <2>3. QED
    BY <1>1, <1>2, <1>3, <1>4, <2>1, <2>2
<1>6. p >= 0
  <2> SUFFICES ASSUME p <= -1 PROVE FALSE
    BY <1>1
  <2>1. n * p <= n * (-1)
    BY <1>1
  <2>2. QED
    BY <1>1, <1>2, <1>4, <2>1
<1>7. QED
  BY <1>1, <1>5, <1>6 DEF p, q

-----------------------------------------------------------------------------
(* The archive of the ranking.                                               *)

BoardSpec == BoardInit /\ [][BoardNext]_boardVars

People == UNION Rankings

RowRecord     == [status : {"none", "failed", "success"}, id : Nat, users : SUBSET People]
FileRecord    == [members : SUBSET People, final : BOOLEAN]
CaptureRecord == [at : {"idle", "fetch", "commit", "hourly", "finalize", "daily"},
                  slot : Slots \cup {-1}, users : SUBSET People, ending : Days \cup {-1}]

BoardTypes ==
    /\ hour \in Slots
    /\ snapshots \in [Slots -> RowRecord]
    /\ hourly \in [Slots -> (SUBSET People) \cup {Unwritten}]
    /\ daily \in [Days -> FileRecord \cup {Unwritten}]
    /\ capture \in [Workers -> CaptureRecord]
    /\ incomplete \in BOOLEAN /\ twoSlots \in BOOLEAN

\* A capture that has read its slot.
Running(w) == capture[w].at \notin {"idle", "fetch"}

\* The rows that were written have ids and are of hours that were.
IdsGiven ==
    /\ \A s \in Slots : snapshots[s].id # 0 <=> snapshots[s].status # "none"
    /\ \A s \in Slots : snapshots[s].id # 0 => s <= hour
    /\ \A w \in Workers : IF Running(w) THEN capture[w].slot \in 0..hour ELSE capture[w].slot = -1

\* The ids are in the order of the hours, and no hour after that of a running capture,
\* or of the two, has a row.
InSlotOrder ==
    /\ \A s, t \in Slots : s < t /\ snapshots[s].id # 0 /\ snapshots[t].id # 0 => snapshots[s].id < snapshots[t].id
    /\ \A w \in Workers : Running(w) => \A s \in Slots : snapshots[s].id # 0 => s <= capture[w].slot
    /\ \A w, o \in Workers : Running(w) /\ Running(o) => capture[w].slot = capture[o].slot

\* One capture at most stands between its commit and its files, with the ranking of its row.
OneCommitted ==
    /\ \A w, o \in Workers : HasCommitted(w) /\ HasCommitted(o) => w = o
    /\ \A w \in Workers : HasCommitted(w) => /\ capture[w].slot \in Successes
                                             /\ snapshots[capture[w].slot].users = capture[w].users

\* The day to finalize beside a capture of a day: the last of the successes before, unless
\* there are none or one is of that day.
Ends(day, before, e) ==
    \/ e = -1 /\ (before # {} => \E x \in before : Day(x) = day)
    \/ e # day /\ (\E x \in before : Day(x) = e) /\ \A x \in before : Day(x) <= e

\* A capture that can still commit, or has, knows the day to finalize.
EndingRight ==
    \A w \in Workers : HasCommitted(w) \/ (Running(w) /\ capture[w].slot \notin Successes) =>
        Ends(Day(capture[w].slot), Successes \ {capture[w].slot}, capture[w].ending)

\* The successes the daily files are about; those the finalization is about.
Filed  == {s \in Successes : \A w \in Workers : HasCommitted(w) => capture[w].slot # s}
Closed == IF \E w \in Workers : capture[w].at \in {"hourly", "finalize"} THEN Filed ELSE Successes

Gathered(table, some, d) == UNION {table[s].users : s \in {x \in some : Day(x) = d}}

HourWritten(s) ==
    hourly[s] = IF s \in Successes /\ \A w \in Workers : capture[w].at = "hourly" => capture[w].slot # s
                THEN snapshots[s].users ELSE Unwritten

DayWritten(d) ==
    IF \E s \in Filed : Day(s) = d
    THEN /\ daily[d] # Unwritten
         /\ daily[d].members = Gathered(snapshots, Filed, d)
         /\ daily[d].final <=> \E s \in Closed : Day(s) > d
    ELSE daily[d] = Unwritten

FilesInStep == (\A s \in Slots : HourWritten(s)) /\ (\A d \in Days : DayWritten(d))

BoardInv ==
    /\ BoardTypes /\ IdsGiven
    /\ ~twoSlots => InSlotOrder /\ OneCommitted /\ EndingRight
    /\ ~twoSlots /\ ~incomplete => FilesInStep

LEMMA SlotsAndDays ==
    /\ IsFiniteSet(Slots) /\ Slots # {} /\ Slots \subseteq Nat
    /\ \A s \in Slots : Day(s) \in Days /\ Day(s) \in Nat
    /\ \A s, t \in Slots : s <= t => Day(s) <= Day(t)
    /\ Days \subseteq Nat
<1>1. IsFiniteSet(Slots) /\ Slots # {} /\ Slots \subseteq Nat
  <2>1. 0 \in Slots /\ Slots \subseteq Nat
    BY BoardAssumption DEF Slots
  <2>2. IsFiniteSet(0..MaxSlot)
    BY BoardAssumption, FS_Interval
  <2>3. QED
    BY <2>1, <2>2 DEF Slots
<1>2. ASSUME NEW s \in Slots, NEW t \in Slots, s <= t PROVE Day(s) \in Nat /\ Day(s) <= Day(t)
  <2>1. FirstHour + s \in Nat /\ FirstHour + t \in Nat /\ FirstHour + s <= FirstHour + t
    BY <1>1, <1>2, BoardAssumption
  <2>2. QED
    BY <2>1, BoardAssumption, DivMonotone DEF Day
<1>3. \A s \in Slots : s <= s
  BY <1>1
<1>4. QED
  BY <1>1, <1>2, <1>3 DEF Days

LEMMA BoardInitially == BoardInit => BoardInv
<1> SUFFICES ASSUME BoardInit PROVE BoardInv
  OBVIOUS
<1>1. BoardTypes
  <2>1. hour \in Slots
    BY BoardAssumption DEF BoardInit, Slots
  <2>2. NotCapturing \in CaptureRecord
    BY DEF NotCapturing, CaptureRecord
  <2>3. [status |-> "none", id |-> 0, users |-> {}] \in RowRecord
    BY DEF RowRecord
  <2>4. snapshots \in [Slots -> RowRecord]
    BY <2>3 DEF BoardInit
  <2>5. capture \in [Workers -> CaptureRecord]
    BY <2>2 DEF BoardInit
  <2>6. hourly \in [Slots -> (SUBSET People) \cup {Unwritten}]
    <3> DEFINE Files == (SUBSET People) \cup {Unwritten}
    <3>1. Unwritten \in Files
      OBVIOUS
    <3> HIDE DEF Files
    <3>2. hourly \in [Slots -> Files]
      BY <3>1 DEF BoardInit
    <3>3. QED
      BY <3>2 DEF Files
  <2>7. daily \in [Days -> FileRecord \cup {Unwritten}]
    BY DEF BoardInit
  <2>8. incomplete \in BOOLEAN /\ twoSlots \in BOOLEAN
    BY DEF BoardInit
  <2>9. QED
    BY <2>1, <2>4, <2>5, <2>6, <2>7, <2>8 DEF BoardTypes
<1>2. /\ \A s \in Slots : snapshots[s].status = "none" /\ snapshots[s].id = 0 /\ hourly[s] = Unwritten
      /\ \A w \in Workers : capture[w].at = "idle" /\ capture[w].slot = -1
      /\ \A d \in Days : daily[d] = Unwritten
  BY DEF BoardInit, NotCapturing
<1>3. Successes = {}
  BY <1>2 DEF Successes
<1>4. IdsGiven /\ InSlotOrder /\ OneCommitted /\ EndingRight
  BY <1>2, <1>3 DEF IdsGiven, InSlotOrder, OneCommitted, EndingRight, Running, HasCommitted
<1>5. FilesInStep
  BY <1>2, <1>3 DEF FilesInStep, HourWritten, DayWritten, Filed
<1>6. QED
  BY <1>1, <1>4, <1>5 DEF BoardInv

\* The new id is above all there are.
LEMMA NewIdIsNew ==
    ASSUME BoardTypes
    PROVE  NewId \in Nat /\ \A s \in Slots : snapshots[s].id < NewId
<1> DEFINE f == [s \in Slots |-> snapshots[s].id]
           ids == {snapshots[s].id : s \in Slots}
<1>1. f \in [Slots -> Nat] /\ \A s \in Slots : f[s] = snapshots[s].id
  BY DEF BoardTypes, RowRecord
<1> HIDE DEF f
<1>2. PICK most \in Slots : \A s \in Slots : f[s] <= f[most]
  BY <1>1, SlotsAndDays, GreatestValue
<1>3. snapshots[most].id \in ids /\ \A i \in ids : i <= snapshots[most].id /\ i \in Nat
  BY <1>1, <1>2
<1>4. Max(ids) \in ids /\ \A i \in ids : Max(ids) >= i
  <2> HIDE DEF ids
  <2>1. \E x \in ids : \A y \in ids : x >= y
    BY <1>3
  <2>2. QED
    BY <2>1 DEF Max
<1>5. NewId = Max(ids) + 1
  BY DEF NewId
<1> HIDE DEF ids
<1>6. Max(ids) \in Nat
  BY <1>3, <1>4
<1>7. \A s \in Slots : snapshots[s].id \in ids
  BY DEF ids
<1>8. QED
  BY <1>3, <1>4, <1>5, <1>6, <1>7

\* The latest success is one, whatever the order of the ids.
LEMMA LatestIsADay ==
    ASSUME BoardTypes, Successes # {}
    PROVE  LatestDay \in Days
<1> DEFINE f == [s \in Successes |-> snapshots[s].id]
<1>1. Successes \subseteq Slots /\ IsFiniteSet(Successes)
  BY SlotsAndDays, FS_Subset DEF Successes
<1>2. f \in [Successes -> Nat] /\ \A s \in Successes : f[s] = snapshots[s].id
  BY <1>1 DEF BoardTypes, RowRecord
<1> HIDE DEF f
<1>3. \E s \in Successes : \A o \in Successes : snapshots[o].id <= snapshots[s].id
  <2>1. \E s \in Successes : \A o \in Successes : f[o] <= f[s]
    BY <1>1, <1>2, GreatestValue
  <2>2. QED
    BY <1>2, <2>1
<1>4. \E s \in Successes : LatestDay = Day(s)
  BY <1>3 DEF LatestDay
<1>5. QED
  BY <1>1, <1>4, SlotsAndDays

\* The day of the success with the greatest id is the last day with one.
LEMMA LatestIsLast ==
    ASSUME BoardTypes, IdsGiven, InSlotOrder, Successes # {}
    PROVE  (\E x \in Successes : Day(x) = LatestDay) /\ \A x \in Successes : Day(x) <= LatestDay
<1> DEFINE f == [s \in Successes |-> s]
           Greatest(s) == \A o \in Successes : snapshots[o].id <= snapshots[s].id
           latest == CHOOSE s \in Successes : Greatest(s)
<1>1. Successes \subseteq Slots /\ IsFiniteSet(Successes)
  BY SlotsAndDays, FS_Subset DEF Successes
<1>2. \A s \in Successes : snapshots[s].id # 0
  BY DEF IdsGiven, Successes
<1>3. \A s \in Slots : snapshots[s].id \in Nat
  BY DEF BoardTypes, RowRecord
<1>4. f \in [Successes -> Nat]
  BY <1>1, SlotsAndDays
<1>5. PICK m \in Successes : \A o \in Successes : o <= m
  <2>1. \A s \in Successes : f[s] = s
    OBVIOUS
  <2> HIDE DEF f
  <2>2. QED
    BY <1>1, <1>4, <2>1, GreatestValue
<1>6. Greatest(m)
  <2> SUFFICES ASSUME NEW o \in Successes PROVE snapshots[o].id <= snapshots[m].id
    OBVIOUS
  <2>1. CASE o = m
    BY <1>1, <1>3, <2>1
  <2>2. CASE o < m
    BY <1>1, <1>2, <1>3, <2>2 DEF InSlotOrder
  <2>3. QED
    BY <1>1, <1>5, <2>1, <2>2, SlotsAndDays
<1>7. latest \in Successes /\ Greatest(latest)
  BY <1>6
<1>8. latest = m
  <2>1. snapshots[m].id <= snapshots[latest].id
    BY <1>7
  <2>2. latest <= m /\ latest \in Nat /\ m \in Nat
    BY <1>1, <1>5, <1>7, SlotsAndDays
  <2>3. ~(latest < m)
    <3> SUFFICES ASSUME latest < m PROVE FALSE
      OBVIOUS
    <3>1. snapshots[latest].id < snapshots[m].id
      BY <1>1, <1>2, <1>7 DEF InSlotOrder
    <3>2. QED
      BY <1>1, <1>3, <1>7, <2>1, <3>1
  <2> HIDE DEF latest
  <2>4. QED
    BY <2>2, <2>3
<1>9. LatestDay = Day(latest)
  BY <1>1 DEF LatestDay
<1>10. QED
  BY <1>1, <1>5, <1>8, <1>9, SlotsAndDays

\* What is gathered of a day's successes depends on those alone.
LEMMA Gathering ==
    ASSUME NEW table, NEW other, NEW some, NEW more, NEW d,
           \A s : (s \in some /\ Day(s) = d) <=> (s \in more /\ Day(s) = d),
           \A s \in some : Day(s) = d => table[s].users = other[s].users
    PROVE  Gathered(table, some, d) = Gathered(other, more, d)
  BY DEF Gathered

\* A day's file stays right when neither it nor what it is about changes.
LEMMA DayStays ==
    ASSUME NEW d \in Days, DayWritten(d), daily'[d] = daily[d],
           Filed' = Filed, \A s \in Filed : snapshots'[s].users = snapshots[s].users,
           (\E s \in Filed : Day(s) = d) =>
               ((\E s \in Closed : Day(s) > d) <=> (\E s \in Closed' : Day(s) > d))
    PROVE  DayWritten(d)'
<1>1. Gathered(snapshots, Filed, d) = Gathered(snapshots', Filed, d)
  BY Gathering
<1>2. Gathered(snapshots, Filed, d)' = Gathered(snapshots', Filed', d)
  BY DEF Gathered
<1>3. Gathered(snapshots', Filed', d) = Gathered(snapshots', Filed, d)
  BY DEF Gathered
<1>4. QED
  BY <1>1, <1>2, <1>3 DEF DayWritten

\* A worker ends its capture, or begins one anew, and the hour may get a failure: the
\* files stay as they are.
LEMMA Leaves ==
    ASSUME BoardInv, NEW w \in Workers, NEW r \in CaptureRecord,
           r.at \in {"idle", "fetch"}, r.slot = -1,
           capture' = [capture EXCEPT ![w] = r], UNCHANGED <<hour, hourly, daily>>,
           incomplete' = (incomplete \/ HasCommitted(w)),
           \/ snapshots' = snapshots /\ twoSlots' = twoSlots
           \/ /\ snapshots' = [snapshots EXCEPT ![hour] = WithFailure(snapshots[hour])]
              /\ twoSlots' = (twoSlots \/ BesideAnother(w))
    PROVE  BoardInv'
<1>1. BoardTypes /\ hour \in Slots /\ hour \in Nat /\ NewId \in Nat /\ NewId # 0
      /\ \A s \in Slots : snapshots[s].id < NewId /\ snapshots[s].id \in Nat /\ s \in Nat
  <2>1. NewId \in Nat /\ \A s \in Slots : snapshots[s].id < NewId /\ snapshots[s].id \in Nat
    BY NewIdIsNew DEF BoardInv, BoardTypes, RowRecord
  <2>2. hour \in Slots /\ hour \in Nat /\ \A s \in Slots : s \in Nat
    BY SlotsAndDays DEF BoardInv, BoardTypes
  <2>3. QED
    BY <2>1, <2>2 DEF BoardInv
<1>2. \A o \in Workers : capture'[o] = IF o = w THEN r ELSE capture[o]
  BY <1>1 DEF BoardTypes
<1>3. \A s \in Slots :
        /\ snapshots'[s] \in RowRecord
        /\ \/ snapshots'[s] = snapshots[s]
           \/ /\ s = hour /\ (~twoSlots' => ~BesideAnother(w))
              /\ snapshots[s].status = "none" /\ snapshots'[s].status = "failed" /\ snapshots'[s].id = NewId
  <2>1. WithFailure(snapshots[hour]) \in RowRecord
    BY <1>1 DEF WithFailure, BoardTypes, RowRecord
  <2>2. \/ WithFailure(snapshots[hour]) = snapshots[hour]
        \/ /\ snapshots[hour].status = "none"
           /\ WithFailure(snapshots[hour]).status = "failed" /\ WithFailure(snapshots[hour]).id = NewId
    BY DEF WithFailure
  <2>3. \A s \in Slots : snapshots[s] \in RowRecord
    BY <1>1 DEF BoardTypes
  <2>4. CASE snapshots' = snapshots
    BY <2>3, <2>4
  <2>5. CASE snapshots' # snapshots
    BY <1>1, <2>1, <2>2, <2>3, <2>5 DEF BoardTypes
  <2>6. QED
    BY <2>4, <2>5
<1>4. BoardTypes'
  <2>1. snapshots' \in [Slots -> RowRecord]
    BY <1>1, <1>3 DEF BoardTypes
  <2>2. twoSlots' \in BOOLEAN /\ incomplete' \in BOOLEAN
    BY <1>1 DEF BoardTypes, BesideAnother, HasCommitted
  <2>3. QED
    BY <1>1, <2>1, <2>2 DEF BoardTypes
<1>5. Successes' = Successes /\ \A s \in Successes : snapshots'[s] = snapshots[s]
  BY <1>3 DEF Successes
<1>6. IdsGiven'
  BY <1>1, <1>2, <1>3 DEF BoardInv, IdsGiven, Running
<1>7. ASSUME ~twoSlots' PROVE InSlotOrder' /\ OneCommitted' /\ EndingRight'
  <2>1. ~twoSlots /\ InSlotOrder /\ OneCommitted /\ EndingRight
    BY <1>1, <1>7 DEF BoardInv, BoardTypes
  <2>2. \A o \in Workers : Running(o)' => o # w /\ Running(o)
    BY <1>2 DEF Running
  <2>3. \A o \in Workers : HasCommitted(o)' => o # w /\ HasCommitted(o) /\ Running(o)
    BY <1>2 DEF HasCommitted, Running
  <2>4. ASSUME NEW s \in Slots, NEW t \in Slots, s < t, snapshots'[s].id # 0, snapshots'[t].id # 0
        PROVE  snapshots'[s].id < snapshots'[t].id
    <3>1. s # hour \/ snapshots'[s] = snapshots[s]
      BY <1>1, <1>3, <2>4, <1>6 DEF IdsGiven
    <3>2. QED
      BY <1>1, <1>3, <2>1, <2>4, <3>1 DEF InSlotOrder
  <2>5. ASSUME NEW o \in Workers, Running(o)', NEW s \in Slots, snapshots'[s].id # 0
        PROVE  s <= capture'[o].slot
    <3>1. Running(o) /\ o # w /\ capture'[o] = capture[o] /\ capture[o].slot \in 0..hour
      BY <1>2, <2>2, <2>5 DEF BoardInv, IdsGiven
    <3>2. CASE snapshots'[s] = snapshots[s]
      BY <2>1, <2>5, <3>1, <3>2 DEF InSlotOrder
    <3>3. CASE snapshots'[s] # snapshots[s]
      <4>1. s = hour /\ ~BesideAnother(w)
        BY <1>3, <1>7, <3>3
      <4>2. capture[o].slot = hour
        BY <1>1, <3>1, <4>1 DEF BesideAnother
      <4>3. QED
        BY <1>1, <3>1, <4>1, <4>2
    <3>4. QED
      BY <3>2, <3>3
  <2>6. InSlotOrder'
    BY <1>2, <2>1, <2>2, <2>4, <2>5 DEF InSlotOrder
  <2>7. OneCommitted'
    BY <1>2, <1>5, <2>1, <2>3 DEF OneCommitted
  <2>8. EndingRight'
    BY <1>2, <1>5, <2>1, <2>2, <2>3 DEF EndingRight
  <2>9. QED
    BY <2>6, <2>7, <2>8
<1>8. ASSUME ~twoSlots', ~incomplete' PROVE FilesInStep'
  <2>1. ~twoSlots /\ ~incomplete /\ ~HasCommitted(w) /\ FilesInStep
    BY <1>1, <1>8 DEF BoardInv, BoardTypes
  <2>2. \A o \in Workers : /\ HasCommitted(o)' <=> HasCommitted(o)
                           /\ HasCommitted(o) => capture'[o] = capture[o]
    BY <1>2, <2>1 DEF HasCommitted
  <2>3. \A o \in Workers : /\ capture'[o].at = "hourly" <=> capture[o].at = "hourly"
                           /\ capture'[o].at \in {"hourly", "finalize"} <=> capture[o].at \in {"hourly", "finalize"}
    BY <1>2, <2>1 DEF HasCommitted
  <2>4. Filed' = Filed /\ Closed' = Closed /\ Filed \subseteq Successes
    <3>1. Filed' = Filed /\ Filed \subseteq Successes
      BY <1>5, <2>2 DEF Filed
    <3>2. (\E o \in Workers : capture'[o].at \in {"hourly", "finalize"})
            <=> \E o \in Workers : capture[o].at \in {"hourly", "finalize"}
      BY <2>3
    <3>3. QED
      BY <1>5, <3>1, <3>2 DEF Closed
  <2>5. \A s \in Slots : HourWritten(s)'
    BY <1>5, <2>1, <2>2, <2>3 DEF FilesInStep, HourWritten, HasCommitted
  <2>6. \A d \in Days : DayWritten(d)'
    BY <1>5, <2>1, <2>4, DayStays DEF FilesInStep
  <2>7. QED
    BY <2>5, <2>6 DEF FilesInStep
<1>9. QED
  BY <1>4, <1>6, <1>7, <1>8 DEF BoardInv

\* A capture reads its slot and the day to finalize.
LEMMA Reads ==
    ASSUME BoardInv, NEW w \in Workers, NEW users \in Rankings, ReadSlot(w, users)
    PROVE  BoardInv'
<1> DEFINE e == IF LatestDay = Day(hour) THEN -1 ELSE LatestDay
           r == [at |-> "commit", slot |-> hour, users |-> users, ending |-> e]
<1>1. BoardTypes /\ hour \in Slots /\ hour \in Nat /\ IdsGiven /\ ~Running(w) /\ ~HasCommitted(w)
  BY SlotsAndDays DEF BoardInv, BoardTypes, ReadSlot, Running, HasCommitted
<1>2. UNCHANGED <<hour, snapshots, hourly, daily, incomplete>>
  BY DEF ReadSlot, board
<1>3. e \in Days \cup {-1}
  <2>1. CASE Successes = {}
    BY <2>1 DEF LatestDay
  <2>2. CASE Successes # {}
    <3>1. LatestDay \in Days
      BY <1>1, <2>2, LatestIsADay
    <3>2. QED
      BY <3>1
  <2>3. QED
    BY <2>1, <2>2
<1> HIDE DEF e
<1>4. r \in CaptureRecord /\ r.at = "commit" /\ r.slot = hour /\ r.ending = e
  BY <1>1, <1>3 DEF CaptureRecord, People
<1>5. capture' = [capture EXCEPT ![w] = r]
  BY DEF ReadSlot, e
<1> HIDE DEF r
<1>6. \A o \in Workers : capture'[o] = IF o = w THEN r ELSE capture[o]
  BY <1>1, <1>5 DEF BoardTypes
<1>7. BoardTypes'
  BY <1>1, <1>2, <1>4, <1>5 DEF BoardTypes, ReadSlot, BesideAnother
<1>8. /\ \A o \in Workers : Running(o)' <=> o = w \/ Running(o)
      /\ \A o \in Workers : HasCommitted(o)' <=> HasCommitted(o)
      /\ \A o \in Workers : HasCommitted(o) => o # w /\ capture'[o] = capture[o]
      /\ Successes' = Successes
  BY <1>1, <1>2, <1>4, <1>6 DEF Running, HasCommitted, Successes
<1>9. IdsGiven'
  <2>1. \A o \in Workers : IF Running(o)' THEN capture'[o].slot \in 0..hour ELSE capture'[o].slot = -1
    BY <1>1, <1>4, <1>6, <1>8 DEF IdsGiven
  <2>2. QED
    BY <1>1, <1>2, <2>1 DEF IdsGiven
<1>10. ASSUME ~twoSlots' PROVE InSlotOrder' /\ OneCommitted' /\ EndingRight'
  <2>1. ~twoSlots /\ ~BesideAnother(w) /\ InSlotOrder /\ OneCommitted /\ EndingRight
    BY <1>1, <1>10 DEF BoardInv, BoardTypes, ReadSlot
  <2>2. \A o \in Workers : Running(o)' => capture'[o].slot = hour
    BY <1>1, <1>4, <1>6, <1>8, <2>1 DEF BesideAnother, IdsGiven
  <2>3. InSlotOrder'
    BY <1>1, <1>2, <2>1, <2>2 DEF InSlotOrder, IdsGiven
  <2>4. OneCommitted'
    BY <1>2, <1>8, <2>1 DEF OneCommitted
  <2>5. ASSUME hour \notin Successes PROVE Ends(Day(hour), Successes \ {hour}, e)
    <3>1. CASE Successes = {}
      BY <3>1 DEF e, LatestDay, Ends
    <3>2. CASE Successes # {}
      <4>1. (\E x \in Successes : Day(x) = LatestDay) /\ \A x \in Successes : Day(x) <= LatestDay
        BY <1>1, <2>1, <3>2, LatestIsLast
      <4>2. Successes \ {hour} = Successes
        BY <2>5
      <4>3. QED
        BY <4>1, <4>2 DEF e, Ends
    <3>3. QED
      BY <3>1, <3>2
  <2>6. EndingRight'
    <3> SUFFICES ASSUME NEW o \in Workers,
                        HasCommitted(o)' \/ (Running(o)' /\ capture'[o].slot \notin Successes)
                 PROVE  Ends(Day(capture'[o].slot), Successes \ {capture'[o].slot}, capture'[o].ending)
      BY <1>8 DEF EndingRight
    <3>1. CASE o = w
      BY <1>4, <1>6, <1>8, <2>5, <3>1
    <3>2. CASE o # w
      BY <1>6, <1>8, <2>1, <3>2 DEF EndingRight
    <3>3. QED
      BY <3>1, <3>2
  <2>7. QED
    BY <2>3, <2>4, <2>6
<1>11. ASSUME ~twoSlots', ~incomplete' PROVE FilesInStep'
  <2>1. FilesInStep
    BY <1>1, <1>2, <1>11 DEF BoardInv, BoardTypes, ReadSlot
  <2>2. \A o \in Workers : /\ capture'[o].at = "hourly" <=> capture[o].at = "hourly"
                           /\ capture'[o].at \in {"hourly", "finalize"} <=> capture[o].at \in {"hourly", "finalize"}
    BY <1>1, <1>4, <1>6 DEF Running
  <2>3. Filed' = Filed /\ Closed' = Closed
    <3>1. Filed' = Filed
      BY <1>8 DEF Filed
    <3>2. (\E o \in Workers : capture'[o].at \in {"hourly", "finalize"})
            <=> \E o \in Workers : capture[o].at \in {"hourly", "finalize"}
      BY <2>2
    <3>3. QED
      BY <1>8, <3>1, <3>2 DEF Closed
  <2>4. \A s \in Slots : HourWritten(s)'
    BY <1>2, <1>8, <2>1, <2>2 DEF FilesInStep, HourWritten, HasCommitted
  <2>5. \A d \in Days : DayWritten(d)'
    BY <1>2, <2>1, <2>3, DayStays DEF FilesInStep
  <2>6. QED
    BY <2>4, <2>5 DEF FilesInStep
<1>12. QED
  BY <1>7, <1>9, <1>10, <1>11 DEF BoardInv

\* A capture commits its ranking.
LEMMA Commits ==
    ASSUME BoardInv, NEW w \in Workers, Commit(w), ~AlreadyCaptured(capture[w].slot)
    PROVE  BoardInv'
<1> DEFINE s == capture[w].slot
           i == IF snapshots[s].id = 0 THEN NewId ELSE snapshots[s].id
           row == [status |-> "success", id |-> i, users |-> capture[w].users]
           r == [capture[w] EXCEPT !.at = "hourly"]
<1>1. BoardTypes /\ IdsGiven /\ Running(w) /\ ~HasCommitted(w)
      /\ s \in Slots /\ s <= hour /\ s \in Nat /\ hour \in Nat
  <2>1. BoardTypes /\ IdsGiven /\ Running(w) /\ ~HasCommitted(w)
    BY DEF BoardInv, Commit, Running, HasCommitted
  <2>2. s \in 0..hour /\ s \in Slots \cup {-1} /\ hour \in Nat
    BY <2>1, SlotsAndDays DEF IdsGiven, BoardTypes, CaptureRecord
  <2>3. QED
    BY <2>1, <2>2
<1>2. UNCHANGED <<hour, hourly, daily, incomplete, twoSlots>>
  BY DEF Commit
<1>3. \A x \in Slots : snapshots[x].id < NewId /\ snapshots[x].id \in Nat /\ NewId \in Nat /\ x \in Nat
  BY <1>1, NewIdIsNew, SlotsAndDays DEF BoardTypes, RowRecord
<1>4. i \in Nat /\ i # 0 /\ (snapshots[s].id # 0 => i = snapshots[s].id) /\ (snapshots[s].id = 0 => i = NewId)
  BY <1>1, <1>3
<1>5. snapshots' = [snapshots EXCEPT ![s] = row] /\ capture' = [capture EXCEPT ![w] = r]
  BY <1>1 DEF Commit, BoardTypes
<1> HIDE DEF i
<1>6. row \in RowRecord /\ row.status = "success" /\ row.id = i /\ row.users = capture[w].users
  BY <1>1, <1>4 DEF BoardTypes, RowRecord, CaptureRecord
<1>7. /\ r \in CaptureRecord /\ r.at = "hourly" /\ r.slot = s /\ r.users = capture[w].users
      /\ r.ending = capture[w].ending
  BY <1>1 DEF BoardTypes, CaptureRecord
<1> HIDE DEF row, r
<1>8. /\ \A x \in Slots : snapshots'[x] = IF x = s THEN row ELSE snapshots[x]
      /\ \A o \in Workers : capture'[o] = IF o = w THEN r ELSE capture[o]
  BY <1>1, <1>5 DEF BoardTypes
<1>9. BoardTypes'
  BY <1>1, <1>2, <1>5, <1>6, <1>7 DEF BoardTypes
<1>10. /\ s \notin Successes /\ Successes' = Successes \cup {s}
  <2>1. s \notin Successes
    BY <1>1 DEF Successes, AlreadyCaptured
  <2>2. \A x \in Slots : snapshots'[x].status = "success" <=> x = s \/ snapshots[x].status = "success"
    BY <1>6, <1>8
  <2>3. QED
    BY <1>1, <2>1, <2>2 DEF Successes
<1>11. /\ \A o \in Workers : Running(o)' <=> Running(o)
       /\ \A o \in Workers : capture'[o].slot = capture[o].slot /\ capture'[o].ending = capture[o].ending
                             /\ capture'[o].users = capture[o].users
       /\ \A o \in Workers : HasCommitted(o)' <=> o = w \/ HasCommitted(o)
  BY <1>1, <1>7, <1>8 DEF Running, HasCommitted
<1>12. IdsGiven'
  <2>1. \A x \in Slots : snapshots'[x].id # 0 <=> snapshots'[x].status # "none"
    BY <1>1, <1>4, <1>6, <1>8 DEF IdsGiven
  <2>2. \A x \in Slots : snapshots'[x].id # 0 => x <= hour
    BY <1>1, <1>8 DEF IdsGiven
  <2>3. \A o \in Workers : IF Running(o)' THEN capture'[o].slot \in 0..hour ELSE capture'[o].slot = -1
    BY <1>1, <1>11 DEF IdsGiven
  <2>4. QED
    BY <1>2, <2>1, <2>2, <2>3 DEF IdsGiven
<1>13. ASSUME ~twoSlots PROVE InSlotOrder' /\ OneCommitted' /\ EndingRight' /\ \A o \in Workers : ~HasCommitted(o)
  <2>1. InSlotOrder /\ OneCommitted /\ EndingRight
    BY <1>13 DEF BoardInv
  <2>2. \A o \in Workers : ~HasCommitted(o)
    <3> SUFFICES ASSUME NEW o \in Workers, HasCommitted(o) PROVE FALSE
      OBVIOUS
    <3>1. Running(o) /\ capture[o].slot \in Successes
      BY <2>1 DEF OneCommitted, HasCommitted, Running
    <3>2. capture[o].slot = s
      BY <1>1, <2>1, <3>1 DEF InSlotOrder
    <3>3. QED
      BY <1>10, <3>1, <3>2
  <2>3. \A x \in Slots : snapshots[x].id # 0 => x <= s
    BY <1>1, <2>1 DEF InSlotOrder
  <2>4. ASSUME NEW x \in Slots, NEW y \in Slots, x < y, snapshots'[x].id # 0, snapshots'[y].id # 0
        PROVE  snapshots'[x].id < snapshots'[y].id
    <3>1. CASE x = s
      <4>1. snapshots'[y] = snapshots[y] /\ ~(y <= s)
        BY <1>1, <1>3, <1>8, <2>4, <3>1
      <4>2. QED
        BY <2>3, <2>4, <4>1
    <3>2. CASE y = s
      <4>1. snapshots'[x] = snapshots[x] /\ snapshots'[y].id = i
        BY <1>3, <1>6, <1>8, <2>4, <3>2
      <4>2. CASE snapshots[s].id = 0
        BY <1>3, <1>4, <4>1, <4>2
      <4>3. CASE snapshots[s].id # 0
        BY <1>4, <2>1, <2>4, <3>2, <4>1, <4>3 DEF InSlotOrder
      <4>4. QED
        BY <4>2, <4>3
    <3>3. CASE x # s /\ y # s
      BY <1>8, <2>1, <2>4, <3>3 DEF InSlotOrder
    <3>4. QED
      BY <3>1, <3>2, <3>3
  <2>5. ASSUME NEW o \in Workers, Running(o)', NEW x \in Slots, snapshots'[x].id # 0
        PROVE  x <= capture'[o].slot
    <3>1. capture'[o].slot = s
      BY <1>1, <1>11, <2>1, <2>5 DEF InSlotOrder
    <3>2. x = s \/ snapshots'[x] = snapshots[x]
      BY <1>8
    <3>3. QED
      BY <1>3, <2>3, <2>5, <3>1, <3>2
  <2>6. InSlotOrder'
    BY <1>11, <2>1, <2>4, <2>5 DEF InSlotOrder
  <2>7. OneCommitted'
    BY <1>1, <1>6, <1>7, <1>8, <1>10, <1>11, <2>2 DEF OneCommitted
  <2>8. EndingRight'
    <3> SUFFICES ASSUME NEW o \in Workers,
                        HasCommitted(o)' \/ (Running(o)' /\ capture'[o].slot \notin Successes')
                 PROVE  Ends(Day(capture'[o].slot), Successes' \ {capture'[o].slot}, capture'[o].ending)
      BY DEF EndingRight
    <3>1. o = w
      BY <1>1, <1>10, <1>11, <2>1, <2>2 DEF InSlotOrder
    <3>2. Successes' \ {s} = Successes \ {s}
      BY <1>10
    <3>3. Ends(Day(s), Successes \ {s}, capture[w].ending)
      BY <1>1, <1>10, <2>1 DEF EndingRight
    <3>4. QED
      BY <1>11, <3>1, <3>2, <3>3
  <2>9. QED
    BY <2>2, <2>6, <2>7, <2>8
<1>14. ASSUME ~twoSlots, ~incomplete PROVE FilesInStep'
  <2>1. FilesInStep /\ \A o \in Workers : ~HasCommitted(o)
    BY <1>13, <1>14 DEF BoardInv
  <2>2. \A o \in Workers : /\ capture[o].at \notin {"hourly", "finalize"}
                           /\ capture'[o].at \in {"hourly", "finalize"} <=> o = w
                           /\ capture'[o].at = "hourly" <=> o = w
                           /\ HasCommitted(o)' <=> o = w
    BY <1>7, <1>8, <1>11, <2>1 DEF HasCommitted
  <2>3. Filed = Successes /\ Closed = Successes /\ Filed' = Successes
    <3>1. Filed = Successes
      BY <2>1 DEF Filed
    <3>2. Closed = Successes
      BY <2>2 DEF Closed
    <3>3. Filed' = Successes
      BY <1>10, <1>11, <2>2 DEF Filed
    <3>4. QED
      BY <3>1, <3>2, <3>3
  <2>4. Closed' = Successes
    BY <2>2, <2>3 DEF Closed
  <2>5. \A x \in Successes : snapshots'[x] = snapshots[x]
    BY <1>8, <1>10 DEF Successes
  <2>6. ASSUME NEW x \in Slots PROVE HourWritten(x)'
    <3>1. CASE x = s
      <4>1. hourly[s] = Unwritten
        BY <1>1, <1>10, <2>1 DEF FilesInStep, HourWritten
      <4>2. QED
        BY <1>2, <1>11, <2>2, <3>1, <4>1 DEF HourWritten
    <3>2. CASE x # s
      BY <1>2, <1>8, <1>10, <1>11, <2>1, <2>2, <3>2 DEF FilesInStep, HourWritten
    <3>3. QED
      BY <3>1, <3>2
  <2>7. \A d \in Days : DayWritten(d)'
    BY <1>2, <2>1, <2>3, <2>4, <2>5, DayStays DEF FilesInStep
  <2>8. QED
    BY <2>6, <2>7 DEF FilesInStep
<1>15. QED
  BY <1>2, <1>9, <1>12, <1>13, <1>14 DEF BoardInv

\* A capture writes the file of its hour.
LEMMA WritesHourly ==
    ASSUME BoardInv, NEW w \in Workers, WriteHourly(w)
    PROVE  BoardInv'
<1> DEFINE s == capture[w].slot
           next == IF capture[w].ending = -1 THEN "daily" ELSE "finalize"
           r == [capture[w] EXCEPT !.at = next]
<1>1. BoardTypes /\ IdsGiven /\ Running(w) /\ HasCommitted(w) /\ s \in Slots
  <2>1. BoardTypes /\ IdsGiven /\ Running(w) /\ HasCommitted(w)
    BY DEF BoardInv, WriteHourly, Running, HasCommitted
  <2>2. s \in 0..hour /\ s \in Slots \cup {-1} /\ hour \in Nat
    BY <2>1, SlotsAndDays DEF IdsGiven, BoardTypes, CaptureRecord
  <2>3. QED
    BY <2>1, <2>2
<1>2. UNCHANGED <<hour, snapshots, daily, incomplete, twoSlots>>
  BY DEF WriteHourly
<1>3. /\ r \in CaptureRecord /\ r.at = next /\ r.slot = s /\ r.users = capture[w].users
      /\ r.ending = capture[w].ending
  BY <1>1 DEF BoardTypes, CaptureRecord
<1>4. /\ capture' = [capture EXCEPT ![w] = r] /\ hourly' = [hourly EXCEPT ![s] = capture[w].users]
      /\ capture[w].users \in SUBSET People
  BY <1>1 DEF WriteHourly, BoardTypes, CaptureRecord
<1> HIDE DEF r
<1>5. /\ \A x \in Slots : hourly'[x] = IF x = s THEN capture[w].users ELSE hourly[x]
      /\ \A o \in Workers : capture'[o] = IF o = w THEN r ELSE capture[o]
  BY <1>1, <1>4 DEF BoardTypes
<1>6. BoardTypes'
  BY <1>1, <1>2, <1>3, <1>4 DEF BoardTypes
<1>7. /\ \A o \in Workers : Running(o)' <=> Running(o)
      /\ \A o \in Workers : capture'[o].slot = capture[o].slot /\ capture'[o].ending = capture[o].ending
                            /\ capture'[o].users = capture[o].users
      /\ \A o \in Workers : HasCommitted(o)' <=> HasCommitted(o)
      /\ Successes' = Successes
  BY <1>1, <1>2, <1>3, <1>5 DEF Running, HasCommitted, Successes
<1>8. IdsGiven' /\ (InSlotOrder => InSlotOrder') /\ (OneCommitted => OneCommitted') /\ (EndingRight => EndingRight')
  <2>1. IdsGiven' /\ (InSlotOrder => InSlotOrder')
    BY <1>1, <1>2, <1>7 DEF IdsGiven, InSlotOrder
  <2>2. OneCommitted => OneCommitted'
    BY <1>2, <1>7 DEF OneCommitted
  <2>3. EndingRight => EndingRight'
    BY <1>7 DEF EndingRight
  <2>4. QED
    BY <2>1, <2>2, <2>3
<1>9. ASSUME ~twoSlots, ~incomplete PROVE FilesInStep'
  <2>1. InSlotOrder /\ OneCommitted /\ EndingRight /\ FilesInStep
    BY <1>9 DEF BoardInv
  <2>2. s \in Successes /\ snapshots[s].users = capture[w].users /\ \A o \in Workers : HasCommitted(o) => o = w
    BY <1>1, <2>1 DEF OneCommitted
  <2>3. Filed' = Filed /\ Filed = Successes \ {s}
    <3>1. Filed = Successes \ {s}
      BY <1>1, <2>2 DEF Filed
    <3>2. QED
      BY <1>7, <3>1 DEF Filed
  <2>4. \A x \in Slots : HourWritten(x)'
    <3>1. \A o \in Workers : capture'[o].at # "hourly"
      BY <1>3, <1>5, <2>2 DEF HasCommitted
    <3>2. \A o \in Workers : capture[o].at = "hourly" => capture[o].slot = s
      BY <2>2 DEF HasCommitted
    <3>3. QED
      BY <1>2, <1>5, <1>7, <2>1, <2>2, <3>1, <3>2 DEF FilesInStep, HourWritten
  <2>5. Closed = Filed
    BY DEF Closed, WriteHourly
  <2>6. ASSUME NEW d \in Days, \E x \in Filed : Day(x) = d
        PROVE  (\E x \in Closed : Day(x) > d) <=> \E x \in Closed' : Day(x) > d
    <3>1. CASE capture[w].ending # -1
      <4>1. capture'[w].at = "finalize"
        BY <1>3, <1>5, <3>1
      <4>2. QED
        BY <2>3, <2>5, <4>1 DEF Closed
    <3>2. CASE capture[w].ending = -1
      <4>1. Closed' = Successes
        <5>1. \A o \in Workers : capture'[o].at \notin {"hourly", "finalize"}
          BY <1>3, <1>5, <2>2, <3>2 DEF HasCommitted
        <5>2. QED
          BY <1>7, <5>1 DEF Closed
      <4>2. Ends(Day(s), Filed, -1)
        BY <1>1, <2>1, <2>3, <3>2 DEF EndingRight
      <4>3. \E x \in Filed : Day(x) = Day(s)
        <5>1. \A x \in Successes : Day(x) # -1
          BY SlotsAndDays DEF Successes
        <5>2. QED
          BY <2>3, <2>6, <4>2, <5>1 DEF Ends
      <4>4. QED
        BY <2>3, <2>5, <4>1, <4>3
    <3>3. QED
      BY <3>1, <3>2
  <2>7. \A d \in Days : DayWritten(d)'
    BY <1>2, <2>1, <2>3, <2>6, DayStays DEF FilesInStep
  <2>8. QED
    BY <2>4, <2>7 DEF FilesInStep
<1>10. QED
  BY <1>2, <1>6, <1>8, <1>9 DEF BoardInv

\* A capture finalizes the day before.
LEMMA Finalizes ==
    ASSUME BoardInv, NEW w \in Workers, Finalize(w)
    PROVE  BoardInv'
<1> DEFINE s == capture[w].slot
           e == capture[w].ending
           finished == [members |-> Participants(e), final |-> TRUE]
           r == [capture[w] EXCEPT !.at = "daily"]
<1>1. BoardTypes /\ IdsGiven /\ Running(w) /\ HasCommitted(w) /\ s \in Slots
  <2>1. BoardTypes /\ IdsGiven /\ Running(w) /\ HasCommitted(w)
    BY DEF BoardInv, Finalize, Running, HasCommitted
  <2>2. s \in 0..hour /\ s \in Slots \cup {-1} /\ hour \in Nat
    BY <2>1, SlotsAndDays DEF IdsGiven, BoardTypes, CaptureRecord
  <2>3. QED
    BY <2>1, <2>2
<1>2. UNCHANGED <<hour, snapshots, hourly, incomplete, twoSlots>>
  BY DEF Finalize
<1>3. /\ r \in CaptureRecord /\ r.at = "daily" /\ r.slot = s /\ r.users = capture[w].users
      /\ r.ending = e
  BY <1>1 DEF BoardTypes, CaptureRecord
<1>4. capture' = [capture EXCEPT ![w] = r] /\ daily' = [daily EXCEPT ![e] = finished]
  BY <1>1 DEF Finalize, Exported, BoardTypes
<1>5. finished \in FileRecord /\ finished.members = Gathered(snapshots, Successes, e) /\ finished.final = TRUE
  <2>1. Participants(e) \in SUBSET People
    BY <1>1 DEF Participants, BoardTypes, RowRecord, Successes
  <2>2. QED
    BY <2>1 DEF FileRecord, Participants, Gathered
<1> HIDE DEF r, finished
<1>6. /\ \A o \in Workers : capture'[o] = IF o = w THEN r ELSE capture[o]
      /\ \A d \in Days : daily'[d] = IF d = e THEN finished ELSE daily[d]
  BY <1>1, <1>4 DEF BoardTypes
<1>7. BoardTypes'
  BY <1>1, <1>2, <1>3, <1>4, <1>5 DEF BoardTypes
<1>8. /\ \A o \in Workers : Running(o)' <=> Running(o)
      /\ \A o \in Workers : capture'[o].slot = capture[o].slot /\ capture'[o].ending = capture[o].ending
                            /\ capture'[o].users = capture[o].users
      /\ \A o \in Workers : HasCommitted(o)' <=> HasCommitted(o)
      /\ \A o \in Workers : capture'[o].at = "hourly" <=> capture[o].at = "hourly"
      /\ Successes' = Successes
  <2>1. capture[w].at = "finalize"
    BY DEF Finalize
  <2>2. QED
    BY <1>1, <1>2, <1>3, <1>6, <2>1 DEF Running, HasCommitted, Successes
<1>9. IdsGiven' /\ (InSlotOrder => InSlotOrder') /\ (OneCommitted => OneCommitted') /\ (EndingRight => EndingRight')
  <2>1. IdsGiven' /\ (InSlotOrder => InSlotOrder')
    BY <1>1, <1>2, <1>8 DEF IdsGiven, InSlotOrder
  <2>2. OneCommitted => OneCommitted'
    BY <1>2, <1>8 DEF OneCommitted
  <2>3. EndingRight => EndingRight'
    BY <1>8 DEF EndingRight
  <2>4. QED
    BY <2>1, <2>2, <2>3
<1>10. ASSUME ~twoSlots, ~incomplete PROVE FilesInStep'
  <2>1. InSlotOrder /\ OneCommitted /\ EndingRight /\ FilesInStep
    BY <1>10 DEF BoardInv
  <2>2. s \in Successes /\ \A o \in Workers : HasCommitted(o) => o = w
    BY <1>1, <2>1 DEF OneCommitted
  <2>3. Filed' = Filed /\ Filed = Successes \ {s}
    <3>1. Filed = Successes \ {s}
      BY <1>1, <2>2 DEF Filed
    <3>2. QED
      BY <1>8, <3>1 DEF Filed
  <2>4. \A x \in Slots : HourWritten(x)'
    BY <1>2, <1>8, <2>1 DEF FilesInStep, HourWritten
  <2>5. Closed = Filed /\ Closed' = Successes
    <3>1. Closed = Filed
      BY DEF Closed, Finalize
    <3>2. \A o \in Workers : capture'[o].at \notin {"hourly", "finalize"}
      BY <1>3, <1>6, <2>2 DEF HasCommitted
    <3>3. QED
      BY <1>8, <3>1, <3>2 DEF Closed
  <2>6. \A x \in Successes : x \in Slots /\ Day(x) \in Nat /\ Day(x) <= Day(s) /\ Day(s) \in Nat
    <3>1. \A x \in Successes : x \in Slots /\ x <= s
      BY <1>1, <2>1 DEF InSlotOrder, Successes, IdsGiven
    <3>2. QED
      BY <1>1, <3>1, SlotsAndDays
  <2>7. Ends(Day(s), Filed, e)
    BY <1>1, <2>1, <2>3 DEF EndingRight
  <2>8. ASSUME NEW d \in Days, d # e PROVE DayWritten(d)'
    <3>1. ASSUME \E x \in Filed : Day(x) = d
          PROVE  (\E x \in Closed : Day(x) > d) <=> \E x \in Closed' : Day(x) > d
      <4>1. CASE \E x \in Filed : Day(x) = Day(s)
        BY <2>3, <2>5, <4>1
      <4>2. CASE ~ \E x \in Filed : Day(x) = Day(s)
        <5>1. (\E x \in Filed : Day(x) = e) /\ \A x \in Filed : Day(x) <= e
          BY <2>7, <3>1, <4>2 DEF Ends
        <5>2. e \in Nat /\ d \in Nat /\ d <= e
          BY <2>3, <2>6, <3>1, <5>1
        <5>3. e > d
          BY <2>8, <5>2
        <5>4. QED
          BY <2>3, <2>5, <5>1, <5>3
      <4>3. QED
        BY <4>1, <4>2
    <3>2. QED
      BY <1>2, <1>6, <2>1, <2>3, <2>8, <3>1, DayStays DEF FilesInStep
  <2>9. ASSUME NEW d \in Days, d = e PROVE DayWritten(d)'
    <3>1. d # -1 /\ d # Day(s) /\ (\E x \in Filed : Day(x) = d) /\ \A x \in Filed : Day(x) <= d
      BY <2>7, <2>9, SlotsAndDays DEF Ends
    <3>2. daily'[d] = finished /\ daily'[d] # Unwritten
      BY <1>5, <1>6, <2>9, BoardAssumption DEF FileRecord, People
    <3>3. d < Day(s)
      BY <2>3, <2>6, <3>1
    <3>4. \E x \in Closed' : Day(x) > d
      BY <2>2, <2>5, <2>6, <3>3
    <3>5. Gathered(snapshots, Successes, d) = Gathered(snapshots', Filed, d)
      BY <1>2, <2>3, <3>1, Gathering
    <3>6. Gathered(snapshots', Filed, d) = Gathered(snapshots', Filed', d)
      BY <2>3
    <3>7. Gathered(snapshots, Filed, d)' = Gathered(snapshots', Filed', d)
      BY DEF Gathered
    <3>8. daily'[d].members = Gathered(snapshots, Filed, d)' /\ daily'[d].final = TRUE
      BY <1>5, <2>9, <3>2, <3>5, <3>6, <3>7
    <3>9. QED
      BY <2>3, <3>1, <3>2, <3>4, <3>8 DEF DayWritten
  <2>10. QED
    BY <2>4, <2>8, <2>9 DEF FilesInStep
<1>11. QED
  BY <1>2, <1>7, <1>9, <1>10 DEF BoardInv

\* A capture writes the file of its day, and is done.
LEMMA WritesDaily ==
    ASSUME BoardInv, NEW w \in Workers, WriteDaily(w)
    PROVE  BoardInv'
<1> DEFINE s == capture[w].slot
           current == Day(s)
           listing == [members |-> Participants(current), final |-> FALSE]
<1>1. BoardTypes /\ IdsGiven /\ Running(w) /\ HasCommitted(w) /\ s \in Slots /\ current \in Days
  <2>1. BoardTypes /\ IdsGiven /\ Running(w) /\ HasCommitted(w)
    BY DEF BoardInv, WriteDaily, Running, HasCommitted
  <2>2. s \in 0..hour /\ s \in Slots \cup {-1} /\ hour \in Nat
    BY <2>1, SlotsAndDays DEF IdsGiven, BoardTypes, CaptureRecord
  <2>3. QED
    BY <2>1, <2>2, SlotsAndDays
<1>2. UNCHANGED <<hour, snapshots, hourly, incomplete, twoSlots>>
  BY DEF WriteDaily
<1>3. NotCapturing \in CaptureRecord /\ NotCapturing.at = "idle" /\ NotCapturing.slot = -1
  BY DEF NotCapturing, CaptureRecord
<1>4. capture' = [capture EXCEPT ![w] = NotCapturing] /\ daily' = [daily EXCEPT ![current] = listing]
  BY DEF WriteDaily, Exported
<1>5. listing \in FileRecord /\ listing.members = Gathered(snapshots, Successes, current) /\ listing.final = FALSE
  <2>1. Participants(current) \in SUBSET People
    BY <1>1 DEF Participants, BoardTypes, RowRecord, Successes
  <2>2. QED
    BY <2>1 DEF FileRecord, Participants, Gathered
<1> HIDE DEF listing
<1>6. /\ \A o \in Workers : capture'[o] = IF o = w THEN NotCapturing ELSE capture[o]
      /\ \A d \in Days : daily'[d] = IF d = current THEN listing ELSE daily[d]
  BY <1>1, <1>4 DEF BoardTypes
<1>7. BoardTypes'
  BY <1>1, <1>2, <1>3, <1>4, <1>5 DEF BoardTypes
<1>8. /\ \A o \in Workers : Running(o)' => Running(o) /\ capture'[o] = capture[o]
      /\ \A o \in Workers : HasCommitted(o)' => HasCommitted(o) /\ o # w
      /\ \A o \in Workers : ~Running(o)' => capture'[o].slot = -1
      /\ Successes' = Successes
  BY <1>1, <1>2, <1>3, <1>6 DEF Running, HasCommitted, Successes, IdsGiven
<1>9. IdsGiven' /\ (InSlotOrder => InSlotOrder') /\ (OneCommitted => OneCommitted') /\ (EndingRight => EndingRight')
  <2>1. IdsGiven' /\ (InSlotOrder => InSlotOrder')
    BY <1>1, <1>2, <1>8 DEF IdsGiven, InSlotOrder
  <2>2. \A o \in Workers : HasCommitted(o)' => Running(o)'
    BY DEF HasCommitted, Running
  <2>3. OneCommitted => OneCommitted'
    BY <1>2, <1>8, <2>2 DEF OneCommitted
  <2>4. EndingRight => EndingRight'
    BY <1>8, <2>2 DEF EndingRight
  <2>5. QED
    BY <2>1, <2>3, <2>4
<1>10. ASSUME ~twoSlots, ~incomplete PROVE FilesInStep'
  <2>1. InSlotOrder /\ OneCommitted /\ FilesInStep
    BY <1>10 DEF BoardInv
  <2>2. s \in Successes /\ \A o \in Workers : HasCommitted(o) => o = w
    BY <1>1, <2>1 DEF OneCommitted
  <2>3. \A o \in Workers : ~HasCommitted(o)' /\ capture[o].at \notin {"hourly", "finalize"}
                           /\ capture'[o].at \notin {"hourly", "finalize"}
    <3>1. \A o \in Workers : ~HasCommitted(o)'
      BY <1>8, <2>2
    <3>2. \A o \in Workers : capture[o].at \notin {"hourly", "finalize"}
      BY <2>2 DEF HasCommitted, WriteDaily
    <3>3. QED
      BY <3>1, <3>2 DEF HasCommitted
  <2>4. Filed = Successes \ {s} /\ Filed' = Successes /\ Closed = Successes /\ Closed' = Successes
    <3>1. Filed = Successes \ {s}
      BY <1>1, <2>2 DEF Filed
    <3>2. Filed' = Successes
      BY <1>8, <2>3 DEF Filed
    <3>3. Closed = Successes /\ Closed' = Successes
      BY <1>8, <2>3 DEF Closed
    <3>4. QED
      BY <3>1, <3>2, <3>3
  <2>5. \A x \in Slots : HourWritten(x)'
    BY <1>2, <1>8, <2>1, <2>3 DEF FilesInStep, HourWritten
  <2>6. \A x \in Successes : ~(Day(x) > current)
    <3>1. \A x \in Successes : x \in Slots /\ x <= s
      BY <1>1, <2>1 DEF InSlotOrder, Successes, IdsGiven
    <3>2. \A x \in Successes : Day(x) <= current /\ Day(x) \in Nat /\ current \in Nat
      BY <1>1, <3>1, SlotsAndDays
    <3> HIDE DEF current
    <3>3. QED
      BY <3>2
  <2>7. ASSUME NEW d \in Days, d # current PROVE DayWritten(d)'
    <3>1. \A x : (x \in Filed' /\ Day(x) = d) <=> (x \in Filed /\ Day(x) = d)
      BY <2>4, <2>7
    <3>2. Gathered(snapshots, Filed, d) = Gathered(snapshots', Filed', d)
      BY <1>2, <3>1, Gathering
    <3>3. Gathered(snapshots, Filed, d)' = Gathered(snapshots', Filed', d)
      BY DEF Gathered
    <3>4. daily'[d] = daily[d]
      BY <1>6, <2>7
    <3>5. DayWritten(d)
      BY <2>1 DEF FilesInStep
    <3>6. (\E x \in Filed' : Day(x) = d) <=> (\E x \in Filed : Day(x) = d)
      BY <3>1
    <3>7. QED
      BY <2>4, <3>2, <3>3, <3>4, <3>5, <3>6 DEF DayWritten
  <2>8. ASSUME NEW d \in Days, d = current PROVE DayWritten(d)'
    <3>1. daily'[d] = listing /\ daily'[d] # Unwritten
      BY <1>5, <1>6, <2>8, BoardAssumption DEF FileRecord, People
    <3>2. \E x \in Filed' : Day(x) = d
      BY <2>2, <2>4, <2>8
    <3>3. Gathered(snapshots, Filed, d)' = Gathered(snapshots, Successes, d)
      BY <1>2, <2>4 DEF Gathered
    <3>4. daily'[d].members = Gathered(snapshots, Filed, d)' /\ daily'[d].final = FALSE
      BY <1>5, <2>8, <3>1, <3>3
    <3>5. ~ \E x \in Closed' : Day(x) > d
      BY <2>4, <2>6, <2>8
    <3>6. QED
      BY <3>1, <3>2, <3>4, <3>5 DEF DayWritten
  <2>9. QED
    BY <2>5, <2>7, <2>8 DEF FilesInStep
<1>11. QED
  BY <1>2, <1>7, <1>9, <1>10 DEF BoardInv

LEMMA BoardStep ==
    ASSUME BoardInv, [BoardNext]_boardVars
    PROVE  BoardInv'
<1>1. BoardTypes /\ IdsGiven
  BY DEF BoardInv
<1>2. CASE NextHour
  <2>1. UNCHANGED <<board, capture, incomplete, twoSlots>> /\ hour' \in Slots /\ hour <= hour' /\ hour \in Nat /\ hour' \in Nat
    BY <1>1, <1>2, BoardAssumption DEF NextHour, BoardTypes, Slots
  <2>2. BoardTypes'
    BY <1>1, <2>1 DEF BoardTypes, board
  <2>3. IdsGiven'
    <3>1. \A x \in Slots : x \in Nat
      BY SlotsAndDays
    <3>2. snapshots' = snapshots /\ capture' = capture /\ \A w \in Workers : Running(w)' <=> Running(w)
      BY <2>1 DEF Running, board
    <3>3. \A x \in Slots : snapshots'[x].id # 0 => x <= hour'
      <4> SUFFICES ASSUME NEW x \in Slots, snapshots[x].id # 0 PROVE x <= hour'
        BY <3>2
      <4>1. x <= hour
        BY <1>1 DEF IdsGiven
      <4>2. QED
        BY <2>1, <3>1, <4>1
    <3>4. \A w \in Workers : IF Running(w) THEN capture[w].slot \in 0..hour' ELSE capture[w].slot = -1
      <4>1. 0..hour \subseteq 0..hour'
        BY <2>1
      <4>2. QED
        BY <1>1, <4>1 DEF IdsGiven
    <3>5. QED
      BY <1>1, <3>2, <3>3, <3>4 DEF IdsGiven
  <2>4. Successes' = Successes
    BY <2>1 DEF Successes, board
  <2>5. (InSlotOrder => InSlotOrder') /\ (OneCommitted => OneCommitted') /\ (EndingRight => EndingRight')
    BY <2>1, <2>4 DEF InSlotOrder, OneCommitted, EndingRight, Running, HasCommitted, board
  <2>6. Filed' = Filed /\ Closed' = Closed
    BY <2>1, <2>4 DEF Filed, Closed, HasCommitted
  <2>7. FilesInStep => FilesInStep'
    BY <2>1, <2>4, <2>6 DEF FilesInStep, HourWritten, DayWritten, Gathered, board
  <2>8. QED
    BY <2>1, <2>2, <2>3, <2>5, <2>7 DEF BoardInv
<1>3. ASSUME NEW w \in Workers, Fetch(w) PROVE BoardInv'
  <2> DEFINE r == [capture[w] EXCEPT !.at = "fetch"]
  <2>1. r \in CaptureRecord /\ r.at = "fetch" /\ r.slot = -1 /\ ~HasCommitted(w)
    BY <1>1, <1>3 DEF BoardTypes, CaptureRecord, IdsGiven, Running, Fetch, HasCommitted
  <2>2. /\ capture' = [capture EXCEPT ![w] = r] /\ UNCHANGED <<hour, hourly, daily, snapshots, twoSlots>>
        /\ incomplete' = (incomplete \/ HasCommitted(w))
    BY <1>1, <1>3, <2>1 DEF Fetch, board, BoardTypes
  <2> HIDE DEF r
  <2>3. QED
    BY <2>1, <2>2, Leaves
<1>4. NotCapturing \in CaptureRecord /\ NotCapturing.at = "idle" /\ NotCapturing.slot = -1
  BY DEF NotCapturing, CaptureRecord
<1>5. ASSUME NEW w \in Workers, Commit(w) PROVE BoardInv'
  <2>1. CASE AlreadyCaptured(capture[w].slot)
    <3>1. /\ capture' = [capture EXCEPT ![w] = NotCapturing] /\ UNCHANGED <<hour, hourly, daily, snapshots, twoSlots>>
          /\ incomplete' = (incomplete \/ HasCommitted(w))
      BY <1>1, <1>5, <2>1 DEF Commit, HasCommitted, BoardTypes
    <3>2. QED
      BY <1>4, <3>1, Leaves
  <2>2. QED
    BY <1>5, <2>1, Commits
<1>6. ASSUME NEW w \in Workers, CaptureFails(w) PROVE BoardInv'
  <2>1. snapshots' = [snapshots EXCEPT ![hour] = WithFailure(snapshots[hour])]
    BY <1>6 DEF CaptureFails
  <2>2. QED
    BY <1>4, <1>6, <2>1, Leaves DEF CaptureFails
<1>7. ASSUME NEW w \in Workers, CaptureCrashes(w) PROVE BoardInv'
  BY <1>4, <1>7, Leaves DEF CaptureCrashes, board
<1>8. CASE UNCHANGED boardVars
  <2>1. UNCHANGED <<hour, snapshots, hourly, daily, capture, incomplete, twoSlots>>
    BY <1>8 DEF boardVars
  <2>2. Successes' = Successes
    BY <2>1 DEF Successes
  <2>3. Filed' = Filed /\ Closed' = Closed
    BY <2>1, <2>2 DEF Filed, Closed, HasCommitted
  <2>4. FilesInStep => FilesInStep'
    BY <2>1, <2>2, <2>3 DEF FilesInStep, HourWritten, DayWritten, Gathered
  <2>5. BoardTypes' /\ IdsGiven'
    BY <1>1, <2>1 DEF BoardTypes, IdsGiven, Running
  <2>6. (InSlotOrder => InSlotOrder') /\ (OneCommitted => OneCommitted') /\ (EndingRight => EndingRight')
    BY <2>1, <2>2 DEF InSlotOrder, OneCommitted, EndingRight, Running, HasCommitted
  <2>7. QED
    BY <2>1, <2>4, <2>5, <2>6 DEF BoardInv
<1>9. QED
  BY <1>2, <1>3, <1>5, <1>6, <1>7, <1>8, Reads, WritesHourly, Finalizes, WritesDaily DEF BoardNext

\* The files follow the store for any number of hours, days and rankings, in whatever order
\* the two workers capture, fail and end, but for the cases it names: between two captures
\* no row is without its files and no day before the last is open, because the one capture
\* that has committed knows the day before its own (LeaderboardArchive.capture).
THEOREM FilesStayInStep == BoardSpec => []FilesFollowStore
<1>1. BoardInv => FilesFollowStore
  <2> SUFFICES ASSUME BoardInv, \A w \in Workers : capture[w].at = "idle", ~incomplete, ~twoSlots
               PROVE  /\ \A s \in Slots : hourly[s] = IF s \in Successes THEN snapshots[s].users ELSE Unwritten
                      /\ \A d \in Days : LET captured == \E s \in Successes : Day(s) = d
                           IN  /\ captured <=> daily[d] # Unwritten
                               /\ captured => /\ daily[d].members = Participants(d)
                                              /\ daily[d].final <=> \E s \in Successes : Day(s) > d
    BY DEF FilesFollowStore
  <2>1. FilesInStep
    BY DEF BoardInv
  <2>2. Filed = Successes /\ Closed = Successes
    <3>1. Filed = Successes
      BY DEF Filed, HasCommitted
    <3>2. QED
      BY <3>1 DEF Closed
  <2>3. \A d \in Days : Gathered(snapshots, Successes, d) = Participants(d)
    BY DEF Gathered, Participants
  <2>4. \A s \in Slots : hourly[s] = IF s \in Successes THEN snapshots[s].users ELSE Unwritten
    BY <2>1 DEF FilesInStep, HourWritten
  <2>5. QED
    BY <2>1, <2>2, <2>3, <2>4 DEF FilesInStep, DayWritten
<1>2. QED
  BY <1>1, BoardInitially, BoardStep, PTL DEF BoardSpec
-----------------------------------------------------------------------------
(* The log and its archives, for the thread and for the node queue.          *)

\* A step of the sidecar's file beside its feed, of the audit log beside its index.
FeedSpec == /\ LogInit /\ FeedInit
            /\ [][\/ LogNext(TRUE) /\ UNCHANGED svars
                  \/ FeedNext /\ UNCHANGED lvars]_<<lvars, svars>>
AuditSpec == /\ LogInit /\ IndexInit
             /\ [][\/ LogNext(FALSE) /\ Beside
                   \/ IndexNext /\ UNCHANGED lvars]_<<lvars, ivars>>

WriterSteps == {"idle", "archive", "truncate", "mark", "legacy", "append"}

LogTypes ==
    /\ today \in Nat /\ turns \in 0..MaxTurns /\ stops \in 0..MaxStops
    /\ text \in Seq(Lines) /\ queue \in Seq(Lines)
    /\ archives \subseteq [name : Int \X Nat, lines : SUBSET Lines, on : Nat]
    /\ marker \in [day : Int, gen : Nat] /\ legacy \in Int
    /\ writer \in [at : WriterSteps, day : Int, gen : Nat, now : Int]
    /\ writer.at # "idle" => queue # <<>> /\ writer.day # -1 /\ writer.now # -1
    /\ marker = Nowhere \/ marker.day # -1
    /\ born \in [Lines -> Int]
    /\ unmarked \in BOOLEAN

\* A rotation has truncated the file and its marker is due.
Midway == writer.at = "mark" /\ writer.gen # marker.gen

\* The writer's generation is that of the marker, or the next one while a rotation is midway.
InGeneration(onNode) ==
    /\ Midway => text = <<>> 
    /\ (writer.at # "idle" \/ writer.day # -1) /\ (onNode => ~unmarked) =>
          \/ writer.gen = marker.gen
          \/ writer.at = "mark" /\ writer.gen = marker.gen + 1

\* The generation of the next archive.
NextGen == IF writer.at = "mark" THEN writer.gen ELSE marker.gen

\* An archive of that generation holds lines that are still in the file.
ArchiveSafe(a) == a.name[2] < NextGen \/ (a.name[2] = NextGen /\ a.lines \subseteq ToSet(text))

Stored == ToSet(text) \cup (UNION {a.lines : a \in archives}) \cup expired

LogSafe ==
    ~unmarked =>
        /\ written \subseteq Stored
        /\ \A a \in archives : ArchiveSafe(a)
        /\ writer.at = "truncate" => \E a \in archives : a.lines = ToSet(text)

LogInv(onNode) == LogTypes /\ InGeneration(onNode) /\ LogSafe

LEMMA AppendFacts ==
    ASSUME NEW S, NEW s \in Seq(S), NEW x \in S
    PROVE  /\ Append(s, x) \in Seq(S) /\ Len(Append(s, x)) = Len(s) + 1
           /\ \A i \in 1..Len(s) : Append(s, x)[i] = s[i]
           /\ Append(s, x)[Len(s) + 1] = x
           /\ ToSet(Append(s, x)) = ToSet(s) \cup {x}
<1> DEFINE t == Append(s, x)
<1>1. /\ t \in Seq(S) /\ Len(t) = Len(s) + 1 /\ Len(s) \in Nat
      /\ \A i \in 1..Len(s) : t[i] = s[i]
      /\ t[Len(s) + 1] = x
  OBVIOUS
<1>2. DOMAIN t = 1..(Len(s) + 1) /\ DOMAIN s = 1..Len(s)
  BY <1>1
<1> HIDE DEF t
<1>3. ASSUME NEW y \in ToSet(t) PROVE y \in ToSet(s) \cup {x}
  <2>1. PICK i \in 1..(Len(s) + 1) : y = t[i]
    BY <1>2, <1>3 DEF ToSet
  <2>2. i \in 1..Len(s) \/ i = Len(s) + 1
    BY <1>1
  <2>3. QED
    BY <1>1, <1>2, <2>1, <2>2 DEF ToSet
<1>4. ASSUME NEW y \in ToSet(s) \cup {x} PROVE y \in ToSet(t)
  <2>1. CASE y = x
    BY <1>1, <1>2, <2>1 DEF ToSet
  <2>2. CASE y \in ToSet(s)
    <3>1. PICK i \in 1..Len(s) : y = s[i]
      BY <1>2, <2>2 DEF ToSet
    <3>2. i \in 1..(Len(s) + 1)
      BY <1>1
    <3>3. QED
      BY <1>1, <1>2, <3>1, <3>2 DEF ToSet
  <2>3. QED
    BY <1>4, <2>1, <2>2
<1>5. QED
  BY <1>1, <1>3, <1>4 DEF t

LEMMA TailFacts ==
    ASSUME NEW S, NEW s \in Seq(S), s # <<>>
    PROVE  /\ Len(s) \in Nat \ {0} /\ Head(s) = s[1] /\ Head(s) \in S
           /\ Tail(s) \in Seq(S) /\ Len(Tail(s)) = Len(s) - 1
           /\ \A i \in 1..(Len(s) - 1) : Tail(s)[i] = s[i + 1]
OBVIOUS

LEMMA NothingInEmpty == ToSet(<<>>) = {}
BY DEF ToSet

\* What pruning takes out of the archives counts as expired.
LEMMA PruneKeeps ==
    ASSUME Prune
    PROVE  /\ archives' \subseteq archives
           /\ (UNION {a.lines : a \in archives}) \cup expired
                \subseteq (UNION {a.lines : a \in archives'}) \cup expired'
<1>1. archives' = {a \in archives : ~Outdated(a)}
  BY DEF Prune
<1>2. expired' = expired \cup UNION {a.lines : a \in {b \in archives : Outdated(b)}}
  BY DEF Prune, Outdated
<1>3. ASSUME NEW a \in archives, NEW l \in a.lines
      PROVE  l \in (UNION {b.lines : b \in archives'}) \cup expired'
  BY <1>1, <1>2, <1>3
<1>4. QED
  BY <1>1, <1>2, <1>3

LEMMA LogInitially == ASSUME LogInit, NEW onNode \in BOOLEAN PROVE LogInv(onNode)
<1> USE LogAssumption DEF LogInit
<1>1. LogTypes
  <2>1. /\ marker \in [day : Int, gen : Nat]
        /\ writer \in [at : WriterSteps, day : Int, gen : Nat, now : Int] /\ writer.at = "idle"
    BY DEF WriterSteps, Nowhere, Idle
  <2>2. turns \in 0..MaxTurns /\ stops \in 0..MaxStops /\ born \in [Lines -> Int]
    OBVIOUS
  <2>3. text \in Seq(Lines) /\ queue \in Seq(Lines) /\ legacy \in Int /\ today \in Nat
    OBVIOUS
  <2>4. marker = Nowhere /\ archives = {} /\ unmarked = FALSE
    OBVIOUS
  <2>5. QED
    BY <2>1, <2>2, <2>3, <2>4 DEF LogTypes
<1>2. InGeneration(onNode)
  BY DEF InGeneration, Midway, Nowhere, Idle
<1>3. LogSafe
  BY DEF LogSafe, Idle
<1>4. QED
  BY <1>1, <1>2, <1>3 DEF LogInv

LEMMA IdleTyped ==
    /\ Idle \in [at : WriterSteps, day : Int, gen : Nat, now : Int] /\ Idle.at = "idle"
    /\ \A w \in [at : WriterSteps, day : Int, gen : Nat, now : Int] :
          [w EXCEPT !.at = "idle"] \in [at : WriterSteps, day : Int, gen : Nat, now : Int]
BY DEF Idle, WriterSteps

LEMMA LogTypesStep ==
    ASSUME LogTypes, NEW onNode \in BOOLEAN, LogNext(onNode) \/ UNCHANGED lvars
    PROVE  LogTypes'
<1> USE LogAssumption DEF LogTypes, WriterSteps
<1>1. ASSUME NEW l \in Lines, Enqueue(l) PROVE LogTypes'
  <2>1. queue' \in Seq(Lines) /\ queue' # <<>>
    BY <1>1, AppendFacts DEF Enqueue
  <2>2. born' \in [Lines -> Int]
    BY <1>1 DEF Enqueue
  <2>3. QED
    BY <1>1, <2>1, <2>2 DEF Enqueue, file
<1>2. CASE Turn
  <2>1. today' \in Nat /\ turns' \in 0..MaxTurns
    BY <1>2 DEF Turn
  <2>2. QED
    BY <1>2, <2>1 DEF Turn, file
<1>3. CASE Begin(onNode)
  <2>1. Marked.day \in Int \ {-1} /\ Marked.gen \in Nat
    BY DEF Marked
  <2>2. Remembered.day \in Int \ {-1} /\ Remembered.gen \in Nat
    BY <2>1 DEF Remembered
  <2>3. PICK a \in WriterSteps \ {"idle"}, m \in {Marked, Remembered} :
            writer' = [at |-> a, day |-> m.day, gen |-> m.gen, now |-> today]
    BY <1>3 DEF Begin
  <2>4. /\ writer' \in [at : WriterSteps, day : Int, gen : Nat, now : Int]
        /\ writer'.day # -1 /\ writer'.now # -1
    <3>1. m.day \in Int \ {-1} /\ m.gen \in Nat
      BY <2>1, <2>2, <2>3
    <3>2. today \in Int \ {-1}
      OBVIOUS
    <3>3. QED
      BY <2>3, <3>1, <3>2
  <2>5. queue # <<>>
    BY <1>3 DEF Begin
  <2>6. QED
    BY <1>3, <2>4, <2>5 DEF Begin, file
<1>4. CASE Archive
  <2>1. /\ ArchiveName \in Int \X Nat /\ ToSet(text) \subseteq Lines
    BY DEF ArchiveName, ToSet
  <2>2. [name |-> ArchiveName, lines |-> ToSet(text), on |-> today]
           \in [name : Int \X Nat, lines : SUBSET Lines, on : Nat]
    BY <2>1
  <2>3. archives' \subseteq [name : Int \X Nat, lines : SUBSET Lines, on : Nat]
    BY <1>4, <2>2 DEF Archive
  <2>4. QED
    BY <1>4, <2>3 DEF Archive
<1>5. CASE Truncate
  <2>1. /\ writer' \in [at : WriterSteps, day : Int, gen : Nat, now : Int]
        /\ writer'.day = writer.day /\ writer'.now = writer.now /\ writer.at # "idle"
    <3>1. PICK n \in Nat : n = writer.gen + 1
      OBVIOUS
    <3>2. writer' = [writer EXCEPT !.at = "mark", !.gen = n] /\ writer.at = "truncate"
      BY <1>5, <3>1 DEF Truncate
    <3>3. QED
      BY <3>2
  <2>2. text' \in Seq(Lines)
    BY <1>5 DEF Truncate
  <2>3. QED
    BY <1>5, <2>1, <2>2 DEF Truncate
<1>6. CASE Mark
  BY <1>6 DEF Mark
<1>7. CASE MarkLegacy(onNode)
  <2>1. archives' \subseteq archives
    BY <1>7, PruneKeeps DEF MarkLegacy
  <2>2. QED
    BY <1>7, <2>1 DEF MarkLegacy
<1>8. CASE AppendLine(onNode)
  <2>1. archives' \subseteq archives
    BY <1>8, PruneKeeps DEF AppendLine
  <2>2. /\ queue # <<>> /\ Head(queue) \in Lines /\ queue' \in Seq(Lines)
        /\ text' \in Seq(Lines)
    BY <1>8, TailFacts, AppendFacts DEF AppendLine
  <2>3. writer' \in [at : WriterSteps, day : Int, gen : Nat, now : Int] /\ writer'.at = "idle"
    BY <1>8, IdleTyped DEF AppendLine
  <2>4. QED
    BY <1>8, <2>1, <2>2, <2>3 DEF AppendLine
<1>9. CASE Fail(onNode)
  <2>1. stops' \in 0..MaxStops
    <3>1. Stopped
      BY <1>9 DEF Fail
    <3>2. QED
      BY <3>1 DEF Stopped
  <2>2. queue' \in Seq(Lines)
    <3>1. queue' = queue \/ (queue' = Tail(queue) /\ queue # <<>>)
      BY <1>9 DEF Fail
    <3>2. queue # <<>> => Tail(queue) \in Seq(Lines)
      BY TailFacts
    <3>3. QED
      BY <3>1, <3>2
  <2>3. writer' \in [at : WriterSteps, day : Int, gen : Nat, now : Int] /\ writer'.at = "idle"
    BY <1>9, IdleTyped DEF Fail
  <2>4. QED
    BY <1>9, <2>1, <2>2, <2>3 DEF Fail, Stopped, Forgets, file
<1>10. CASE Close
  <2>1. stops' \in 0..MaxStops
    BY <1>10 DEF Close, Stopped
  <2>2. queue' \in Seq(Lines)
    BY <1>10, TailFacts DEF Close
  <2>3. writer' \in [at : WriterSteps, day : Int, gen : Nat, now : Int] /\ writer'.at = "idle"
    BY <1>10, IdleTyped DEF Close
  <2>4. QED
    BY <1>10, <2>1, <2>2, <2>3 DEF Close, Stopped, Forgets, file
<1>11. CASE UNCHANGED lvars
  BY <1>11 DEF lvars, file
<1>12. QED
  BY <1>1, <1>2, <1>3, <1>4, <1>5, <1>6, <1>7, <1>8, <1>9, <1>10, <1>11 DEF LogNext

LEMMA UnmarkedStays ==
    ASSUME NEW onNode \in BOOLEAN, LogNext(onNode) \/ UNCHANGED lvars, unmarked
    PROVE  unmarked'
BY DEF LogNext, lvars, file, Enqueue, Turn, Begin, Archive, Truncate, Mark, MarkLegacy, AppendLine, Fail,
       Close, Forgets

LEMMA ForgetsMarks == Forgets /\ ~unmarked' => ~unmarked /\ ~(writer.gen > marker.gen)
BY DEF Forgets

\* What the writer takes for the generation when it begins with a record.
LEMMA GenerationOfMemory ==
    ASSUME NEW onNode \in BOOLEAN, InGeneration(onNode), writer.at = "idle", onNode => ~unmarked
    PROVE  (IF onNode THEN Remembered ELSE Marked).gen = marker.gen
BY DEF Remembered, Marked, InGeneration

LEMMA GenerationStep ==
    ASSUME NEW onNode \in BOOLEAN, LogInv(onNode), LogNext(onNode) \/ UNCHANGED lvars
    PROVE  InGeneration(onNode)'
<1> USE DEF WriterSteps
<1>1. /\ marker.gen \in Nat /\ writer.gen \in Nat /\ unmarked \in BOOLEAN
      /\ writer \in [at : WriterSteps, day : Int, gen : Nat, now : Int]
      /\ marker \in [day : Int, gen : Nat]
  BY DEF LogInv, LogTypes
<1>2. InGeneration(onNode)
  BY DEF LogInv
<1>3. CASE Begin(onNode)
  <2>1. (onNode => ~unmarked) => (IF onNode THEN Remembered ELSE Marked).gen = marker.gen
    BY <1>2, <1>3, GenerationOfMemory DEF Begin
  <2>2. Marked.gen = marker.gen
    BY DEF Marked
  <2>3. /\ writer'.gen = (IF onNode THEN Remembered ELSE Marked).gen
        /\ writer'.at \in {"archive", "append", "mark"}
        /\ UNCHANGED <<text, marker, unmarked>>
    BY <1>3 DEF Begin, file
  <2>4. writer'.at = "mark" => text = <<>> \/ ~onNode
    BY <1>3 DEF Begin
  <2>5. QED
    BY <1>1, <2>1, <2>2, <2>3, <2>4 DEF InGeneration, Midway
<1>4. CASE Archive
  BY <1>1, <1>2, <1>4 DEF Archive, InGeneration, Midway
<1>5. CASE Truncate
  <2>1. /\ text' = <<>> /\ UNCHANGED <<marker, unmarked>> /\ writer.at = "truncate"
        /\ writer'.at = "mark" /\ writer'.gen = writer.gen + 1
    BY <1>1, <1>5 DEF Truncate
  <2>2. QED
    BY <1>1, <1>2, <2>1 DEF InGeneration, Midway
<1>6. CASE Mark
  <2>1. marker'.gen = writer.gen /\ writer'.at = "legacy" /\ writer'.gen = writer.gen
    BY <1>1, <1>6 DEF Mark
  <2>2. QED
    BY <2>1 DEF InGeneration, Midway
<1>7. CASE MarkLegacy(onNode)
  <2>1. /\ writer.at = "legacy" /\ writer'.at = "append" /\ writer'.gen = writer.gen
        /\ UNCHANGED <<marker, unmarked>>
    BY <1>1, <1>7 DEF MarkLegacy
  <2>2. QED
    BY <1>1, <1>2, <2>1 DEF InGeneration, Midway
<1>8. CASE AppendLine(onNode)
  <2>1. /\ writer.at = "append" /\ UNCHANGED <<marker, unmarked>> /\ writer'.at = "idle"
        /\ \/ writer'.gen = writer.gen
           \/ writer'.day = -1
    BY <1>1, <1>8 DEF AppendLine, Idle
  <2>2. QED
    BY <1>1, <1>2, <2>1 DEF InGeneration, Midway
<1>9. CASE Fail(onNode) \/ Close
  <2>1. /\ UNCHANGED marker /\ writer'.at = "idle"
        /\ \/ onNode /\ writer'.gen = writer.gen /\ writer.at # "idle"
           \/ writer'.day = -1
        /\ Forgets
    BY <1>1, <1>9 DEF Fail, Close, Idle, file
  <2>2. ~unmarked' /\ writer.at # "idle" => writer.gen = marker.gen
    BY <1>1, <1>2, <2>1, ForgetsMarks DEF InGeneration
  <2>3. QED
    BY <2>1, <2>2 DEF InGeneration, Midway
<1>10. CASE (\E l \in Lines : Enqueue(l)) \/ Turn \/ UNCHANGED lvars
  <2>1. UNCHANGED <<text, marker, writer, unmarked>>
    BY <1>10 DEF Enqueue, Turn, file, lvars
  <2>2. QED
    BY <1>2, <2>1 DEF InGeneration, Midway
<1>11. QED
  BY <1>3, <1>4, <1>5, <1>6, <1>7, <1>8, <1>9, <1>10 DEF LogNext

LEMMA LogSafeStep ==
    ASSUME NEW onNode \in BOOLEAN, LogInv(onNode), LogNext(onNode) \/ UNCHANGED lvars
    PROVE  LogSafe'
<1> USE DEF WriterSteps
<1> SUFFICES ASSUME ~unmarked' PROVE LogSafe'
  BY DEF LogSafe
<1>1. ~unmarked /\ LogTypes
  BY UnmarkedStays DEF LogInv
<1>2. /\ marker.gen \in Nat /\ writer.gen \in Nat
      /\ writer \in [at : WriterSteps, day : Int, gen : Nat, now : Int]
      /\ marker \in [day : Int, gen : Nat]
      /\ archives \subseteq [name : Int \X Nat, lines : SUBSET Lines, on : Nat]
      /\ \A a \in archives : a.name[2] \in Nat
  BY <1>1 DEF LogTypes
<1>3. /\ writer.at # "idle" => writer.gen = marker.gen \/ (writer.at = "mark" /\ writer.gen = marker.gen + 1)
      /\ writer.at \notin {"idle", "mark"} => writer.gen = marker.gen
  BY <1>1 DEF LogInv, InGeneration
<1>4. /\ written \subseteq Stored /\ \A a \in archives : ArchiveSafe(a)
      /\ writer.at = "truncate" => \E a \in archives : a.lines = ToSet(text)
  BY <1>1 DEF LogInv, LogSafe
<1>5. NextGen \in Nat
  BY <1>2 DEF NextGen
<1>6. CASE Begin(onNode)
  <2>1. /\ UNCHANGED <<text, marker, archives, written, expired>> /\ writer.at = "idle"
        /\ writer'.at \in {"archive", "append", "mark"}
        /\ writer'.gen = (IF onNode THEN Remembered ELSE Marked).gen
    BY <1>6 DEF Begin, file
  <2>2. writer'.at = "mark" => writer'.gen = marker.gen
    BY <1>1, <2>1, GenerationOfMemory DEF LogInv
  <2>3. NextGen' = NextGen
    BY <2>1, <2>2 DEF NextGen
  <2>4. QED
    BY <1>4, <2>1, <2>3 DEF LogSafe, Stored, ArchiveSafe
<1>7. CASE Archive
  <2> DEFINE new == [name |-> ArchiveName, lines |-> ToSet(text), on |-> today]
  <2>1. /\ UNCHANGED <<text, marker, written, expired>> /\ writer.at = "archive"
        /\ archives' = {a \in archives : a.name # ArchiveName} \cup {new}
        /\ writer'.at = "truncate" /\ writer'.gen = writer.gen
    BY <1>2, <1>7 DEF Archive
  <2>2. NextGen' = marker.gen /\ NextGen = marker.gen /\ writer.gen = marker.gen
    BY <1>3, <2>1 DEF NextGen
  <2>3. ASSUME NEW a \in archives, a.name = ArchiveName PROVE a.lines \subseteq ToSet(text)
    <3>1. a.name[2] = marker.gen
      BY <2>2, <2>3 DEF ArchiveName
    <3>2. QED
      BY <1>2, <1>4, <2>2, <3>1 DEF ArchiveSafe
  <2>4. written' \subseteq Stored'
    BY <1>4, <2>1, <2>3 DEF Stored
  <2>5. new.lines = ToSet(text) /\ new.name[2] = marker.gen
    BY <2>2 DEF ArchiveName
  <2>6. \A a \in archives' : ArchiveSafe(a)'
    BY <1>4, <2>1, <2>2, <2>5 DEF ArchiveSafe
  <2>7. QED
    BY <2>1, <2>4, <2>5, <2>6 DEF LogSafe
<1>8. CASE Truncate
  <2>1. /\ UNCHANGED <<marker, archives, written, expired>> /\ writer.at = "truncate"
        /\ text' = <<>> /\ writer'.at = "mark" /\ writer'.gen = writer.gen + 1
    BY <1>2, <1>8 DEF Truncate
  <2>2. NextGen = marker.gen /\ NextGen' = marker.gen + 1
    BY <1>3, <2>1 DEF NextGen
  <2>3. \A a \in archives' : ArchiveSafe(a)'
    BY <1>2, <1>4, <2>1, <2>2 DEF ArchiveSafe
  <2>4. written' \subseteq Stored'
    BY <1>4, <2>1 DEF Stored
  <2>5. QED
    BY <2>1, <2>3, <2>4 DEF LogSafe
<1>9. CASE Mark
  <2>1. /\ UNCHANGED <<text, archives, written, expired>> /\ writer.at = "mark"
        /\ marker'.gen = writer.gen /\ writer'.at = "legacy"
    BY <1>2, <1>9 DEF Mark
  <2>2. NextGen' = NextGen
    BY <2>1 DEF NextGen
  <2>3. QED
    BY <1>4, <2>1, <2>2 DEF LogSafe, Stored, ArchiveSafe
<1>10. CASE MarkLegacy(onNode)
  <2>1. /\ UNCHANGED <<text, marker, written>> /\ writer.at = "legacy" /\ writer'.at = "append"
        /\ archives' \subseteq archives
        /\ (UNION {a.lines : a \in archives}) \cup expired
             \subseteq (UNION {a.lines : a \in archives'}) \cup expired'
    BY <1>2, <1>10, PruneKeeps DEF MarkLegacy
  <2>2. NextGen' = NextGen
    BY <2>1 DEF NextGen
  <2>3. QED
    BY <1>4, <2>1, <2>2 DEF LogSafe, Stored, ArchiveSafe
<1>11. CASE AppendLine(onNode)
  <2>1. /\ UNCHANGED marker /\ writer.at = "append" /\ writer'.at = "idle"
        /\ archives' \subseteq archives
        /\ (UNION {a.lines : a \in archives}) \cup expired
             \subseteq (UNION {a.lines : a \in archives'}) \cup expired'
        /\ written' = written \cup {Head(queue)}
    BY <1>2, <1>11, PruneKeeps DEF AppendLine, Idle
  <2>2. ToSet(text') = ToSet(text) \cup {Head(queue)}
    BY <1>1, <1>11, TailFacts, AppendFacts DEF LogTypes, AppendLine
  <2>3. NextGen' = NextGen
    BY <2>1 DEF NextGen
  <2>4. QED
    BY <1>4, <2>1, <2>2, <2>3 DEF LogSafe, Stored, ArchiveSafe
<1>12. CASE Fail(onNode) \/ Close
  <2>1. /\ UNCHANGED <<text, marker, archives, written, expired>> /\ writer'.at = "idle"
        /\ Forgets
    BY <1>2, <1>12 DEF Fail, Close, Idle, file
  <2>2. NextGen' = NextGen
    BY <1>2, <1>3, <2>1, ForgetsMarks DEF NextGen
  <2>3. QED
    BY <1>4, <2>1, <2>2 DEF LogSafe, Stored, ArchiveSafe
<1>13. CASE (\E l \in Lines : Enqueue(l)) \/ Turn \/ UNCHANGED lvars
  <2>1. UNCHANGED <<text, marker, archives, written, expired, writer>>
    BY <1>13 DEF Enqueue, Turn, file, lvars
  <2>2. NextGen' = NextGen
    BY <2>1 DEF NextGen
  <2>3. QED
    BY <1>4, <2>1, <2>2 DEF LogSafe, Stored, ArchiveSafe
<1>14. QED
  BY <1>6, <1>7, <1>8, <1>9, <1>10, <1>11, <1>12, <1>13 DEF LogNext

LEMMA LogStep ==
    ASSUME NEW onNode \in BOOLEAN, LogInv(onNode), LogNext(onNode) \/ UNCHANGED lvars
    PROVE  LogInv(onNode)'
BY LogTypesStep, GenerationStep, LogSafeStep DEF LogInv

LEMMA RecordsKept == ASSUME NEW onNode \in BOOLEAN, LogInv(onNode) PROVE RecordIsKept
BY DEF LogInv, LogTypes, LogSafe, RecordIsKept, Stored

-----------------------------------------------------------------------------
(* The console's index.                                                      *)

IndexRow == [line : Lines, gen : Nat, end : Nat]
IndexCursor == [offset : Nat, gen : Nat, writer : Nat] \cup {NoCursor}

IndexTypes ==
    /\ index \in [rows : SUBSET IndexRow, cursor : IndexCursor, counted : Int]
    /\ IsFiniteSet(index.rows) /\ index.counted = Cardinality(index.rows)
    /\ sync \in [at : {"idle", "identity", "read"}, size : Nat, announced : Nat]
    /\ forgotten \subseteq Lines /\ overlapped \in BOOLEAN

\* A line is in one place: enqueued and not yet read, or in the file once.
OnePlace ==
    /\ \A i, j \in DOMAIN queue : queue[i] = queue[j] => i = j
    /\ \A i, j \in DOMAIN text : text[i] = text[j] => i = j
    /\ \A i \in DOMAIN queue : born[queue[i]] # -1 /\ queue[i] \notin ToSet(text)
    /\ \A i \in DOMAIN text : born[text[i]] # -1
    /\ \A r \in index.rows :
          born[r.line] # -1 /\ \A i \in DOMAIN queue : queue[i] # r.line

\* The rows of the cursor's generation lie before the cursor, and none is of a later one.
RowsBefore ==
    \A r \in index.rows :
        /\ index.cursor # NoCursor /\ r.gen <= index.cursor.gen
        /\ r.gen = index.cursor.gen => r.end <= index.cursor.offset

\* No cursor is ahead of the writer's marker.
NotAhead ==
    /\ index.cursor # NoCursor => index.cursor.writer <= marker.gen
    /\ sync.announced <= marker.gen

\* Up to a cursor of the writer's generation the file is indexed.
ReadIsIndexed ==
    ~unmarked /\ index.cursor # NoCursor /\ index.cursor.writer = marker.gen /\ ~Midway =>
        /\ index.cursor.offset <= Len(text)
        /\ \A i \in 1..index.cursor.offset : Indexed(text[i])

\* Without a rotation under a running sync, what is in the file and was read lies before a
\* cursor that will not be taken back.
ReadOnce ==
    ~overlapped =>
        /\ \A r, q \in index.rows : r.line = q.line => r = q
        /\ \A r \in index.rows : \A i \in DOMAIN text : r.line = text[i] =>
              /\ index.cursor.writer = marker.gen /\ index.cursor.offset <= Len(text)
              /\ i <= index.cursor.offset
              /\ sync.at = "identity" => index.cursor.offset <= sync.size
        /\ sync.at # "idle" => sync.size <= Len(text)
        /\ sync.at = "read" =>
              /\ sync.size > 0 /\ sync.announced = marker.gen
              /\ index.cursor # NoCursor => index.cursor.writer = marker.gen

IndexInv ==
    /\ LogInv(FALSE) /\ IndexTypes /\ OnePlace /\ RowsBefore /\ NotAhead /\ ReadIsIndexed /\ ReadOnce

LEMMA IndexInitially == LogInit /\ IndexInit => IndexInv
<1> SUFFICES ASSUME LogInit, IndexInit PROVE IndexInv
  OBVIOUS
<1> USE DEF IndexInit
<1>1. LogInv(FALSE)
  BY LogInitially
<1>2. /\ index.rows = {} /\ index.cursor = NoCursor /\ index.counted = 0
      /\ sync.at = "idle" /\ sync.announced = 0
  BY DEF NoSync
<1>3. IndexTypes
  <2>1. NoCursor \in IndexCursor
    BY DEF IndexCursor
  <2>2. index \in [rows : SUBSET IndexRow, cursor : IndexCursor, counted : Int]
    BY <2>1
  <2>3. QED
    BY <1>2, <2>2, FS_EmptySet DEF IndexTypes, NoSync
<1>4. OnePlace
  BY <1>2 DEF OnePlace, LogInit
<1>5. RowsBefore /\ ReadIsIndexed /\ ReadOnce
  BY <1>2 DEF RowsBefore, ReadIsIndexed, ReadOnce
<1>6. NotAhead
  BY <1>2 DEF NotAhead, LogInit, Nowhere
<1>7. QED
  BY <1>1, <1>3, <1>4, <1>5, <1>6 DEF IndexInv

\* What a step of the writer does to the file, as its readers see it.
LEMMA LogEffect ==
    ASSUME NEW onNode \in BOOLEAN, LogInv(onNode), LogNext(onNode) \/ UNCHANGED lvars,
           onNode => ~unmarked'
    PROVE  \/ /\ text' = Append(text, Head(queue)) /\ queue # <<>>
              /\ UNCHANGED marker /\ ~Midway /\ ~Midway'
           \/ text' = <<>> /\ UNCHANGED marker /\ Midway'
           \/ text' = text /\ marker'.gen = marker.gen + 1 /\ Midway /\ ~Midway'
           \/ /\ text' = text /\ marker'.gen = marker.gen
              /\ Midway => Midway' \/ unmarked'
              /\ Midway' => Midway
<1> USE DEF WriterSteps
<1>1. /\ marker.gen \in Nat /\ writer.gen \in Nat
      /\ writer \in [at : WriterSteps, day : Int, gen : Nat, now : Int]
      /\ marker \in [day : Int, gen : Nat]
      /\ InGeneration(onNode) /\ (onNode => ~unmarked)
      /\ writer.at # "idle" => queue # <<>>
  BY UnmarkedStays DEF LogInv, LogTypes
<1>2. writer.at # "idle" => writer.gen = marker.gen \/ (writer.at = "mark" /\ writer.gen = marker.gen + 1)
  BY <1>1 DEF InGeneration
<1>3. CASE AppendLine(onNode)
  <2>1. /\ UNCHANGED marker /\ writer.at = "append" /\ writer'.at = "idle"
        /\ text' = Append(text, Head(queue))
    BY <1>1, <1>3 DEF AppendLine, Idle
  <2>2. QED
    BY <1>1, <2>1 DEF Midway
<1>4. CASE Truncate
  <2>1. /\ UNCHANGED marker /\ writer.at = "truncate" /\ text' = <<>>
        /\ writer'.at = "mark" /\ writer'.gen = writer.gen + 1
    BY <1>1, <1>4 DEF Truncate
  <2>2. QED
    BY <1>1, <1>2, <2>1 DEF Midway
<1>5. CASE Mark
  <2>1. /\ UNCHANGED text /\ writer.at = "mark" /\ marker'.gen = writer.gen
        /\ writer'.at = "legacy"
    BY <1>1, <1>5 DEF Mark
  <2>2. QED
    BY <1>1, <1>2, <2>1 DEF Midway
<1>6. CASE Begin(onNode)
  <2>1. /\ UNCHANGED <<text, marker>> /\ writer.at = "idle"
        /\ writer'.gen = (IF onNode THEN Remembered ELSE Marked).gen
    BY <1>6 DEF Begin, file
  <2>2. QED
    BY <1>1, <2>1, GenerationOfMemory DEF Midway
<1>7. CASE Archive \/ MarkLegacy(onNode)
  <2>1. UNCHANGED <<text, marker>> /\ writer.at # "mark" /\ writer'.at # "mark"
    BY <1>1, <1>7 DEF Archive, MarkLegacy
  <2>2. QED
    BY <2>1 DEF Midway
<1>8. CASE Fail(onNode) \/ Close
  <2>1. /\ UNCHANGED <<text, marker>> /\ writer'.at = "idle" /\ Forgets
    BY <1>1, <1>8 DEF Fail, Close, Idle, file
  <2>2. Midway => unmarked'
    BY <1>1, <1>2, <2>1, ForgetsMarks DEF Midway
  <2>3. QED
    BY <2>1, <2>2 DEF Midway
<1>9. CASE (\E l \in Lines : Enqueue(l)) \/ Turn \/ UNCHANGED lvars
  <2>1. UNCHANGED <<text, marker, writer>>
    BY <1>9 DEF Enqueue, Turn, file, lvars
  <2>2. QED
    BY <2>1 DEF Midway
<1>10. QED
  BY <1>3, <1>4, <1>5, <1>6, <1>7, <1>8, <1>9 DEF LogNext

LEMMA OnePlaceStep ==
    ASSUME IndexInv, LogNext(FALSE) \/ UNCHANGED lvars, UNCHANGED index
    PROVE  OnePlace'
<1>1. /\ OnePlace /\ text \in Seq(Lines) /\ queue \in Seq(Lines) /\ born \in [Lines -> Int]
      /\ index.rows \subseteq IndexRow /\ (writer.at # "idle" => queue # <<>>)
      /\ Len(text) \in Nat /\ Len(queue) \in Nat
      /\ DOMAIN text = 1..Len(text) /\ DOMAIN queue = 1..Len(queue)
  BY DEF IndexInv, LogInv, LogTypes, IndexTypes
<1>2. \A r \in index.rows : r.line \in Lines
  BY <1>1 DEF IndexRow
<1>3. ASSUME NEW l \in Lines, Enqueue(l) PROVE OnePlace'
  <2>1. /\ queue' = Append(queue, l) /\ born' = [born EXCEPT ![l] = today] /\ born[l] = -1
        /\ UNCHANGED text /\ today # -1
    BY <1>3 DEF Enqueue, file, IndexInv, LogInv, LogTypes
  <2>2. /\ queue' \in Seq(Lines) /\ Len(queue') = Len(queue) + 1
        /\ \A i \in 1..Len(queue) : queue'[i] = queue[i] /\ queue'[Len(queue) + 1] = l
        /\ DOMAIN queue' = 1..(Len(queue) + 1)
    BY <1>1, <2>1, AppendFacts
  <2>3. \A i \in DOMAIN queue' : i \in DOMAIN queue \/ (i = Len(queue) + 1 /\ queue'[i] = l)
    BY <1>1, <2>1, <2>2, AppendFacts
  <2>4. \A i \in DOMAIN queue : queue'[i] = queue[i] /\ queue[i] # l
    BY <1>1, <2>1, <2>2 DEF OnePlace
  <2>5. \A k \in Lines : born'[k] # -1 <=> born[k] # -1 \/ k = l
    BY <1>1, <2>1
  <2>6. l \notin ToSet(text) /\ \A r \in index.rows : r.line # l
    BY <1>1, <2>1 DEF OnePlace, ToSet
  <2>7. \A i \in DOMAIN text : text[i] \in Lines
    BY <1>1
  <2>8. \A i \in DOMAIN queue : queue[i] \in Lines
    BY <1>1
  <2>9. \A i, j \in DOMAIN queue' : queue'[i] = queue'[j] => i = j
    BY <1>1, <2>3, <2>4 DEF OnePlace
  <2>10. \A i \in DOMAIN queue' : born'[queue'[i]] # -1 /\ queue'[i] \notin ToSet(text')
    BY <1>1, <2>1, <2>3, <2>4, <2>5, <2>6, <2>8 DEF OnePlace
  <2>11. \A i \in DOMAIN text' : born'[text'[i]] # -1
    BY <1>1, <2>1, <2>5, <2>7 DEF OnePlace
  <2>12. \A r \in index'.rows :
           born'[r.line] # -1 /\ \A i \in DOMAIN queue' : queue'[i] # r.line
    BY <1>1, <1>2, <2>3, <2>4, <2>5, <2>6 DEF OnePlace
  <2>13. QED
    BY <1>1, <2>1, <2>9, <2>10, <2>11, <2>12 DEF OnePlace
<1>4. ASSUME queue # <<>>, queue' = Tail(queue), UNCHANGED born, text' = text \/ text' = Append(text, Head(queue))
      PROVE  OnePlace'
  <2> DEFINE h == Head(queue)
  <2>1. /\ Len(queue) \in Nat \ {0} /\ h = queue[1] /\ h \in Lines
        /\ DOMAIN queue' = 1..(Len(queue) - 1)
        /\ \A i \in 1..(Len(queue) - 1) : queue'[i] = queue[i + 1]
    BY <1>1, <1>4, TailFacts
  <2>2. \A i \in DOMAIN queue' : i + 1 \in DOMAIN queue /\ queue'[i] = queue[i + 1] /\ queue[i + 1] # h /\ i \in Nat
    <3> SUFFICES ASSUME NEW i \in 1..(Len(queue) - 1)
                 PROVE  i + 1 \in DOMAIN queue /\ queue[i + 1] # h
      BY <2>1
    <3>1. i + 1 \in DOMAIN queue /\ 1 \in DOMAIN queue /\ i + 1 # 1
      BY <1>1, <2>1
    <3>2. QED
      BY <1>1, <2>1, <3>1 DEF OnePlace
  <2>3. /\ Len(text') \in Nat /\ ToSet(text') \subseteq ToSet(text) \cup {h}
        /\ DOMAIN text' = 1..Len(text')
        /\ \A i \in DOMAIN text' : (i \in DOMAIN text /\ text'[i] = text[i]) \/ (i = Len(text) + 1 /\ text'[i] = h)
    <3>1. CASE text' = text
      BY <1>1, <3>1
    <3>2. CASE text' = Append(text, h)
      BY <1>1, <2>1, <3>2, AppendFacts
    <3>3. QED
      BY <1>4, <3>1, <3>2
  <2>4. h \notin ToSet(text) /\ born[h] # -1 /\ \A r \in index.rows : r.line # h
    BY <1>1, <2>1 DEF OnePlace
  <2>5. \A i \in DOMAIN text : text[i] # h
    BY <2>4 DEF ToSet
  <2> HIDE DEF h
  <2>6. \A i, j \in DOMAIN text' : text'[i] = text'[j] => i = j
    BY <1>1, <2>3, <2>5 DEF OnePlace
  <2>7. \A i, j \in DOMAIN queue' : queue'[i] = queue'[j] => i = j
    <3> SUFFICES ASSUME NEW i \in DOMAIN queue', NEW j \in DOMAIN queue', queue'[i] = queue'[j] PROVE i = j
      OBVIOUS
    <3>1. i + 1 = j + 1
      BY <1>1, <2>2 DEF OnePlace
    <3>2. QED
      BY <2>2, <3>1
  <2>8. \A i \in DOMAIN queue' : born'[queue'[i]] # -1 /\ queue'[i] \notin ToSet(text')
    <3> SUFFICES ASSUME NEW i \in DOMAIN queue'
                 PROVE  born'[queue'[i]] # -1 /\ queue'[i] \notin ToSet(text')
      OBVIOUS
    <3>1. /\ i + 1 \in DOMAIN queue /\ queue'[i] = queue[i + 1] /\ queue'[i] # h
      BY <2>2
    <3>2. born[queue'[i]] # -1 /\ queue'[i] \notin ToSet(text)
      BY <1>1, <3>1 DEF OnePlace
    <3>3. QED
      BY <1>4, <2>3, <3>1, <3>2
  <2>9. \A i \in DOMAIN text' : born'[text'[i]] # -1
    BY <1>1, <1>4, <2>3, <2>4 DEF OnePlace
  <2>10. \A r \in index'.rows :
           born'[r.line] # -1 /\ \A i \in DOMAIN queue' : queue'[i] # r.line
    BY <1>1, <1>4, <2>2 DEF OnePlace
  <2>11. QED
    BY <2>6, <2>7, <2>8, <2>9, <2>10 DEF OnePlace
<1>5. ASSUME queue' = queue \/ queue' = <<>>, UNCHANGED born, text' = text \/ text' = <<>>
      PROVE  OnePlace'
  <2>1. ToSet(text') \subseteq ToSet(text) /\ DOMAIN text' \subseteq DOMAIN text
        /\ \A i \in DOMAIN text' : text'[i] = text[i]
    BY <1>5, NothingInEmpty
  <2>2. DOMAIN queue' \subseteq DOMAIN queue /\ \A i \in DOMAIN queue' : queue'[i] = queue[i]
    BY <1>5
  <2>3. QED
    BY <1>1, <1>5, <2>1, <2>2 DEF OnePlace
<1>6. CASE Turn \/ Begin(FALSE) \/ Archive \/ Truncate \/ Mark \/ MarkLegacy(FALSE) \/ UNCHANGED lvars
  BY <1>5, <1>6 DEF Turn, Begin, Archive, Truncate, Mark, MarkLegacy, lvars, file
<1>7. CASE Fail(FALSE) \/ Close
  BY <1>5, <1>7 DEF Fail, Close, file
<1>8. CASE AppendLine(FALSE)
  BY <1>1, <1>4, <1>8 DEF AppendLine
<1>9. QED
  BY <1>3, <1>6, <1>7, <1>8 DEF LogNext

\* A step of the writer beside the index.
LEMMA WriterKeepsIndex ==
    ASSUME IndexInv, LogNext(FALSE) \/ UNCHANGED lvars, UNCHANGED <<index, sync, forgotten>>,
           overlapped' = (overlapped \/ (sync.at # "idle" /\ text' = <<>> /\ text # <<>>))
    PROVE  IndexInv'
<1>1. /\ LogInv(FALSE)' /\ OnePlace'
      /\ IndexTypes /\ OnePlace /\ RowsBefore /\ NotAhead /\ ReadIsIndexed /\ ReadOnce
      /\ text \in Seq(Lines) /\ Len(text) \in Nat /\ DOMAIN text = 1..Len(text)
      /\ queue \in Seq(Lines) /\ (~unmarked' => ~unmarked)
      /\ marker.gen \in Nat /\ (Midway => text = <<>>) /\ (Midway' => text' = <<>>)
  <2>1. LogInv(FALSE)
    BY DEF IndexInv
  <2>2. LogInv(FALSE)'
    BY <2>1, LogStep
  <2>3. OnePlace'
    BY OnePlaceStep
  <2>4. ~unmarked' => ~unmarked
    BY UnmarkedStays
  <2>5. /\ text \in Seq(Lines) /\ queue \in Seq(Lines) /\ marker \in [day : Int, gen : Nat]
    BY <2>1 DEF LogInv, LogTypes
  <2>6. (Midway => text = <<>>) /\ (Midway' => text' = <<>>)
    BY <2>1, <2>2 DEF LogInv, InGeneration
  <2>7. Len(text) \in Nat /\ DOMAIN text = 1..Len(text) /\ marker.gen \in Nat
    BY <2>5
  <2>8. IndexTypes /\ OnePlace /\ RowsBefore /\ NotAhead /\ ReadIsIndexed /\ ReadOnce
    BY DEF IndexInv
  <2>9. QED
    BY <2>2, <2>3, <2>4, <2>5, <2>6, <2>7, <2>8
<1>2. IndexTypes'
  BY <1>1 DEF IndexTypes
<1>3. RowsBefore'
  BY <1>1 DEF RowsBefore
<1>4. \/ /\ text' = Append(text, Head(queue)) /\ queue # <<>>
         /\ UNCHANGED marker /\ ~Midway /\ ~Midway'
      \/ text' = <<>> /\ UNCHANGED marker /\ Midway'
      \/ text' = text /\ marker'.gen = marker.gen + 1 /\ Midway /\ ~Midway'
      \/ /\ text' = text /\ marker'.gen = marker.gen
         /\ Midway => Midway' \/ unmarked'
         /\ Midway' => Midway
  BY LogEffect DEF IndexInv
<1>5. NotAhead'
  <2>1. marker'.gen = marker.gen \/ marker'.gen = marker.gen + 1
    BY <1>4
  <2>2. index.cursor # NoCursor => index.cursor.writer \in Nat
    BY <1>1 DEF IndexTypes, IndexCursor
  <2>3. sync.announced \in Nat
    BY <1>1 DEF IndexTypes
  <2>4. QED
    BY <1>1, <2>1, <2>2, <2>3 DEF NotAhead
<1>6. index.cursor # NoCursor => index.cursor.offset \in Nat /\ index.cursor.writer \in Nat
  BY <1>1 DEF IndexTypes, IndexCursor
<1>7. ASSUME text' = Append(text, Head(queue)), queue # <<>>
      PROVE  /\ Len(text') = Len(text) + 1 /\ DOMAIN text' = 1..(Len(text) + 1)
             /\ \A i \in 1..Len(text) : text'[i] = text[i]
             /\ text'[Len(text) + 1] = queue[1] /\ 1 \in DOMAIN queue
  <2>1. Head(queue) \in Lines /\ Head(queue) = queue[1] /\ Len(queue) \in Nat \ {0}
    BY <1>1, <1>7, TailFacts
  <2>2. QED
    BY <1>1, <1>7, <2>1, AppendFacts
<1>8. ReadIsIndexed'
  <2> SUFFICES ASSUME ~unmarked', index.cursor # NoCursor, index.cursor.writer = marker'.gen, ~Midway'
               PROVE  /\ index.cursor.offset <= Len(text')
                      /\ \A i \in 1..index.cursor.offset : Indexed(text'[i])
    BY DEF ReadIsIndexed, Indexed
  <2>1. CASE text' = Append(text, Head(queue)) /\ queue # <<>> /\ UNCHANGED marker /\ ~Midway
    BY <1>1, <1>6, <1>7, <2>1 DEF ReadIsIndexed
  <2>2. CASE text' = text /\ marker'.gen = marker.gen /\ ~Midway
    BY <1>1, <2>2 DEF ReadIsIndexed
  <2>3. ~(marker'.gen = marker.gen + 1)
    BY <1>1, <1>6 DEF NotAhead
  <2>4. QED
    BY <1>4, <2>1, <2>2, <2>3
<1>9. ReadOnce'
  <2> SUFFICES ASSUME ~overlapped' PROVE ReadOnce'
    BY DEF ReadOnce
  <2>1. ~overlapped /\ ~(sync.at # "idle" /\ text' = <<>> /\ text # <<>>)
    OBVIOUS
  <2>2. sync.size \in Nat /\ \A r \in index.rows : r.line \in Lines
    BY <1>1 DEF IndexTypes, IndexRow
  <2>3. CASE text' = Append(text, Head(queue)) /\ queue # <<>> /\ UNCHANGED marker
    <3>1. \A r \in index.rows : \A i \in DOMAIN text' : r.line = text'[i] => i \in DOMAIN text /\ r.line = text[i]
      BY <1>1, <1>7, <2>3 DEF OnePlace
    <3>2. Len(text) <= Len(text')
      BY <1>1, <1>7, <2>3
    <3>3. /\ \A r, q \in index.rows : r.line = q.line => r = q
          /\ sync.at # "idle" => sync.size <= Len(text)
          /\ sync.at = "read" =>
                /\ sync.size > 0 /\ sync.announced = marker.gen
                /\ index.cursor # NoCursor => index.cursor.writer = marker.gen
          /\ \A r \in index.rows : \A i \in DOMAIN text : r.line = text[i] =>
                /\ index.cursor.writer = marker.gen /\ index.cursor.offset <= Len(text)
                /\ i <= index.cursor.offset
                /\ sync.at = "identity" => index.cursor.offset <= sync.size
      BY <1>1, <2>1 DEF ReadOnce
    <3>4. \A r \in index.rows : index.cursor.offset \in Nat
      BY <1>1, <1>6 DEF RowsBefore
    <3>5. \A r \in index.rows : \A i \in DOMAIN text' : r.line = text'[i] =>
                /\ index.cursor.writer = marker.gen /\ index.cursor.offset <= Len(text')
                /\ i <= index.cursor.offset
                /\ sync.at = "identity" => index.cursor.offset <= sync.size
      <4> SUFFICES ASSUME NEW r \in index.rows, NEW i \in DOMAIN text', r.line = text'[i]
                   PROVE  /\ index.cursor.writer = marker.gen /\ index.cursor.offset <= Len(text')
                          /\ i <= index.cursor.offset
                          /\ sync.at = "identity" => index.cursor.offset <= sync.size
        OBVIOUS
      <4>1. i \in DOMAIN text /\ r.line = text[i]
        BY <3>1
      <4>2. /\ index.cursor.writer = marker.gen /\ index.cursor.offset <= Len(text)
            /\ i <= index.cursor.offset
            /\ sync.at = "identity" => index.cursor.offset <= sync.size
        BY <3>3, <4>1
      <4>3. index.cursor.offset \in Nat /\ Len(text') \in Nat
        BY <1>1, <1>7, <2>3, <3>4
      <4>4. QED
        BY <1>1, <3>2, <4>2, <4>3
    <3>6. Len(text') \in Nat
      BY <1>1, <1>7, <2>3
    <3>7. sync.at # "idle" => sync.size <= Len(text')
      BY <1>1, <2>2, <3>2, <3>3, <3>6
    <3>8. UNCHANGED <<index, sync, marker>>
      BY <2>3
    <3>9. QED
      BY <3>3, <3>5, <3>7, <3>8 DEF ReadOnce
  <2>4. CASE text' = <<>> /\ UNCHANGED marker
    <3>1. sync.at # "idle" => text = <<>>
      BY <2>1, <2>4
    <3>2. DOMAIN text' = {}
      BY <2>4
    <3>3. QED
      BY <1>1, <2>1, <2>4, <3>1, <3>2 DEF ReadOnce
  <2>5. CASE text' = text /\ Midway
    <3>1. text = <<>> /\ Len(text) = 0 /\ DOMAIN text = {}
      BY <1>1, <2>5
    <3>2. sync.at # "read"
      <4>1. sync.at = "read" => sync.size > 0 /\ sync.size <= Len(text)
        BY <1>1, <2>1 DEF ReadOnce
      <4>2. QED
        BY <2>2, <3>1, <4>1
    <3>3. QED
      BY <1>1, <2>1, <2>5, <3>1, <3>2 DEF ReadOnce
  <2>6. CASE text' = text /\ marker'.gen = marker.gen
    BY <1>1, <2>1, <2>6 DEF ReadOnce
  <2>7. QED
    BY <1>4, <2>3, <2>4, <2>5, <2>6
<1>10. QED
  BY <1>1, <1>2, <1>3, <1>5, <1>8, <1>9 DEF IndexInv

LEMMA KeysAreShared ==
    /\ \A j, l \in Lines : SameKey(j, l) => SameKey(l, j)
    /\ \A j, k, l \in Lines : SameKey(j, k) /\ SameKey(k, l) => SameKey(j, l)
BY DEF SameKey

\* Of the lines that were read where no row has its place, each is inserted or its event
\* has a row already.
LEMMA InsertedCovers ==
    ASSUME NEW rows \in SUBSET IndexRow, NEW n \in Nat, NEW read \in [1..n -> IndexRow],
           \A i \in 1..n : ~PlaceTaken(rows, read[i]),
           NEW k \in 1..n
    PROVE  \E r \in Inserted(rows, read) : r.line = read[k].line \/ SameKey(r.line, read[k].line)
<1> DEFINE key(i) == read[i].line
<1>1. DOMAIN read = 1..n /\ \A i \in 1..n : read[i] \in IndexRow /\ key(i) \in Lines
  BY DEF IndexRow
<1>2. rows \subseteq Inserted(rows, read)
  BY DEF Inserted
<1>3. \A r \in rows : r.line \in Lines
  BY DEF IndexRow
<1>4. ASSUME NEW m \in 1..n, \A r \in rows : ~SameKey(r.line, key(m)),
             \A i \in 1..(m - 1) : ~SameKey(key(i), key(m))
      PROVE  read[m] \in Inserted(rows, read)
  BY <1>1, <1>4 DEF Inserted
<1>5. CASE \E r \in rows : SameKey(r.line, key(k))
  BY <1>2, <1>5
<1>6. CASE \A r \in rows : ~SameKey(r.line, key(k))
  <2>1. CASE \A i \in 1..(k - 1) : ~SameKey(key(i), key(k))
    BY <1>4, <1>6, <2>1
  <2>2. CASE \E i \in 1..(k - 1) : SameKey(key(i), key(k))
    <3> DEFINE T == {i \in 1..(k - 1) : SameKey(key(i), key(k))}
    <3> HIDE DEF key
    <3>1. T \in SUBSET Nat /\ T # {}
      BY <2>2
    <3>2. PICK m \in T : \A i \in T : m <= i
      <4> HIDE DEF T
      <4>1. QED
        BY <3>1, LeastNatural
    <3>3. m \in 1..(k - 1) /\ m \in 1..n /\ k \in 1..n /\ SameKey(key(m), key(k))
      BY <3>2
    <3>4. \A r \in rows : ~SameKey(r.line, key(m))
      BY <1>1, <1>3, <1>6, <3>3, KeysAreShared
    <3>5. \A i \in 1..(m - 1) : ~SameKey(key(i), key(m))
      <4> SUFFICES ASSUME NEW i \in 1..(m - 1), SameKey(key(i), key(m)) PROVE FALSE
        OBVIOUS
      <4>1. i \in 1..(k - 1) /\ i \in 1..n /\ ~(m <= i)
        BY <3>3
      <4>2. SameKey(key(i), key(k))
        BY <1>1, <3>3, <4>1, KeysAreShared
      <4>3. QED
        BY <3>2, <4>1, <4>2
    <3>6. read[m] \in Inserted(rows, read)
      BY <1>4, <3>3, <3>4, <3>5
    <3>7. QED
      BY <3>3, <3>6 DEF key
  <2>3. QED
    BY <2>1, <2>2
<1>7. QED
  BY <1>5, <1>6

\* Finitely many rows are inserted, each of them a line that was read.
LEMMA InsertedRows ==
    ASSUME NEW rows \in SUBSET IndexRow, IsFiniteSet(rows), NEW n \in Nat, NEW read \in [1..n -> IndexRow]
    PROVE  /\ Inserted(rows, read) \in SUBSET IndexRow /\ IsFiniteSet(Inserted(rows, read))
           /\ rows \subseteq Inserted(rows, read)
           /\ \A r \in Inserted(rows, read) : r \in rows \/ \E i \in 1..n : r = read[i]
<1> DEFINE lines == {read[i] : i \in 1..n}
<1>1. IsFiniteSet(lines)
  <2>1. IsFiniteSet(1..n)
    BY FS_Interval
  <2>2. read \in Surjection(1..n, lines)
    BY DEF Surjection
  <2>3. QED
    BY <2>1, <2>2, FS_Surjection
<1>2. Inserted(rows, read) \subseteq rows \cup lines /\ rows \subseteq Inserted(rows, read)
  BY DEF Inserted
<1>3. IsFiniteSet(rows \cup lines)
  BY <1>1, FS_Union
<1>4. IsFiniteSet(Inserted(rows, read))
  BY <1>2, <1>3, FS_Subset
<1>5. lines \subseteq IndexRow
  OBVIOUS
<1>6. QED
  BY <1>2, <1>4, <1>5

LEMMA LongerOf ==
    /\ \A n \in Int : Max({0, n}) = IF n > 0 THEN n ELSE 0
    /\ \A m, n \in Nat : Max({m, n}) = IF m > n THEN m ELSE n
<1>1. ASSUME NEW m \in Int, NEW n \in Int PROVE Max({m, n}) = IF m > n THEN m ELSE n
  <2> DEFINE Greatest(x) == x \in {m, n} /\ \A y \in {m, n} : x >= y
  <2>1. Greatest(IF m > n THEN m ELSE n)
    OBVIOUS
  <2>2. \A x : Greatest(x) => x = IF m > n THEN m ELSE n
    OBVIOUS
  <2>3. Max({m, n}) = CHOOSE x : Greatest(x)
    BY DEF Max
  <2> HIDE DEF Greatest
  <2>4. QED
    BY <2>1, <2>2, <2>3
<1>2. QED
  BY <1>1

\* The steps of a sync leave the log alone.
LEMMA BesideTheLog ==
    ASSUME IndexInv, UNCHANGED lvars
    PROVE  /\ LogInv(FALSE)' /\ UNCHANGED <<text, queue, born, marker, unmarked, Midway>>
           /\ text \in Seq(Lines) /\ Len(text) \in Nat /\ DOMAIN text = 1..Len(text)
           /\ \A i \in DOMAIN text : text[i] \in Lines
           /\ queue \in Seq(Lines) /\ marker.gen \in Nat
           /\ IndexTypes /\ OnePlace /\ RowsBefore /\ NotAhead /\ ReadIsIndexed /\ ReadOnce
           /\ index.cursor # NoCursor =>
                 index.cursor.offset \in Nat /\ index.cursor.gen \in Nat /\ index.cursor.writer \in Nat
           /\ sync.size \in Nat /\ sync.announced \in Nat
<1>1. LogInv(FALSE)
  BY DEF IndexInv
<1>2. LogInv(FALSE)'
  BY <1>1, LogStep
<1>3. UNCHANGED <<text, queue, born, marker, unmarked, Midway>>
  BY DEF lvars, file, Midway
<1>4. text \in Seq(Lines) /\ queue \in Seq(Lines) /\ marker \in [day : Int, gen : Nat]
  BY <1>1 DEF LogInv, LogTypes
<1>5. /\ Len(text) \in Nat /\ DOMAIN text = 1..Len(text) /\ marker.gen \in Nat
      /\ \A i \in DOMAIN text : text[i] \in Lines
  BY <1>4
<1>6. IndexTypes /\ OnePlace /\ RowsBefore /\ NotAhead /\ ReadIsIndexed /\ ReadOnce
  BY DEF IndexInv
<1>7. /\ index.cursor # NoCursor =>
            index.cursor.offset \in Nat /\ index.cursor.gen \in Nat /\ index.cursor.writer \in Nat
      /\ sync.size \in Nat /\ sync.announced \in Nat
  BY <1>6 DEF IndexTypes, IndexCursor
<1>8. QED
  BY <1>2, <1>3, <1>4, <1>5, <1>6, <1>7

LEMMA SyncSizeKeepsIndex == ASSUME IndexInv, SyncSize, UNCHANGED lvars PROVE IndexInv'
<1>1. /\ sync' = [at |-> "identity", size |-> Len(text), announced |-> 0]
      /\ UNCHANGED <<index, forgotten, overlapped>>
  BY DEF SyncSize, NoSync
<1>2. sync'.at = "identity" /\ sync'.size = Len(text) /\ sync'.announced = 0
  BY <1>1
<1>3. IndexTypes' /\ RowsBefore' /\ NotAhead'
  BY <1>1, <1>2, BesideTheLog DEF IndexTypes, RowsBefore, NotAhead
<1>4. ReadIsIndexed'
  BY <1>1, BesideTheLog DEF ReadIsIndexed, Indexed
<1>5. ReadOnce'
  BY <1>1, <1>2, BesideTheLog DEF ReadOnce
<1>6. QED
  BY <1>1, <1>3, <1>4, <1>5, BesideTheLog, OnePlaceStep DEF IndexInv

LEMMA SyncStopsKeepsIndex == ASSUME IndexInv, SyncStops, UNCHANGED lvars PROVE IndexInv'
<1>1. /\ sync' = NoSync /\ UNCHANGED <<index, forgotten, overlapped>>
  BY DEF SyncStops
<1>2. sync'.at = "idle" /\ sync'.size = 0 /\ sync'.announced = 0
  BY <1>1 DEF NoSync
<1>3. IndexTypes' /\ RowsBefore' /\ NotAhead'
  BY <1>1, <1>2, BesideTheLog DEF IndexTypes, RowsBefore, NotAhead, NoSync
<1>4. ReadIsIndexed'
  BY <1>1, BesideTheLog DEF ReadIsIndexed, Indexed
<1>5. ReadOnce'
  BY <1>1, <1>2, BesideTheLog DEF ReadOnce
<1>6. QED
  BY <1>1, <1>3, <1>4, <1>5, BesideTheLog, OnePlaceStep DEF IndexInv

LEMMA SyncPruneKeepsIndex == ASSUME IndexInv, SyncPrune, UNCHANGED lvars PROVE IndexInv'
<1> DEFINE old == {r \in index.rows : born[r.line] < today - Keep}
<1>1. /\ index' = [index EXCEPT !.rows = @ \ old, !.counted = Cardinality(index.rows \ old)]
      /\ forgotten' = forgotten \cup {r.line : r \in old} /\ UNCHANGED <<sync, overlapped>>
      /\ sync.at = "idle"
  BY DEF SyncPrune
<1>2. /\ index \in [rows : SUBSET IndexRow, cursor : IndexCursor, counted : Int]
      /\ IsFiniteSet(index.rows)
  BY BesideTheLog DEF IndexTypes
<1>3. /\ index'.rows = index.rows \ old /\ index'.cursor = index.cursor
      /\ index'.counted = Cardinality(index'.rows)
  BY <1>1, <1>2
<1>4. IsFiniteSet(index'.rows) /\ index'.counted \in Int
  BY <1>2, <1>3, FS_Subset, FS_CardinalityType
<1>5. index' \in [rows : SUBSET IndexRow, cursor : IndexCursor, counted : Int]
  BY <1>1, <1>2, <1>3, <1>4
<1>6. \A r \in index.rows : r.line \in Lines
  BY <1>2 DEF IndexRow
<1>7. IndexTypes'
  <2>1. forgotten' \subseteq Lines
    <3>1. forgotten \subseteq Lines
      BY BesideTheLog DEF IndexTypes
    <3>2. \A l \in {r.line : r \in old} : l \in Lines
      BY <1>6
    <3>3. QED
      BY <1>1, <3>1, <3>2
  <2>2. /\ sync' \in [at : {"idle", "identity", "read"}, size : Nat, announced : Nat]
        /\ overlapped' \in BOOLEAN
    BY <1>1, BesideTheLog DEF IndexTypes
  <2>3. QED
    BY <1>3, <1>4, <1>5, <2>1, <2>2 DEF IndexTypes
<1>8. \A l : Indexed(l) => Indexed(l)'
  BY <1>1, <1>3 DEF Indexed
<1>9. RowsBefore' /\ NotAhead'
  BY <1>1, <1>3, BesideTheLog DEF RowsBefore, NotAhead
<1>10. ReadIsIndexed'
  BY <1>3, <1>8, BesideTheLog DEF ReadIsIndexed
<1>11. OnePlace' /\ ReadOnce'
  BY <1>1, <1>3, BesideTheLog DEF OnePlace, ReadOnce
<1>12. QED
  BY <1>7, <1>9, <1>10, <1>11, BesideTheLog DEF IndexInv

\* A sync takes the cursor back only where it has rotated, and what is in the file has not.
LEMMA SyncIdentityKeepsIndex == ASSUME IndexInv, SyncIdentity, UNCHANGED lvars PROVE IndexInv'
<1> DEFINE c == index.cursor
           d == index'.cursor
           announced == marker.gen
           fresh == [offset |-> 0, gen |-> announced, writer |-> announced]
           next == CASE c = NoCursor -> fresh
                     [] c # NoCursor /\ Rotated(c, sync.size, announced) ->
                          [offset |-> 0, gen |-> Max({c.gen + 1, announced}), writer |-> announced]
                     [] OTHER -> c
<1>1. /\ index' = [index EXCEPT !.cursor = IF c = NoCursor /\ sync.size > 0 THEN @ ELSE next]
      /\ sync' = IF sync.size > next.offset THEN [sync EXCEPT !.at = "read", !.announced = announced] ELSE NoSync
      /\ UNCHANGED <<forgotten, overlapped>> /\ sync.at = "identity"
  BY DEF SyncIdentity
<1>2. /\ index \in [rows : SUBSET IndexRow, cursor : IndexCursor, counted : Int]
      /\ sync \in [at : {"idle", "identity", "read"}, size : Nat, announced : Nat]
  BY BesideTheLog DEF IndexTypes
<1>3. /\ index'.rows = index.rows /\ index'.counted = index.counted
      /\ d = IF c = NoCursor /\ sync.size > 0 THEN c ELSE next
  BY <1>1, <1>2
<1>4. \/ c = NoCursor /\ sync.size = 0 /\ d = fresh /\ next = fresh
      \/ c = NoCursor /\ sync.size > 0 /\ d = c /\ next = fresh
      \/ /\ c # NoCursor /\ Rotated(c, sync.size, announced) /\ d = next
         /\ next.offset = 0 /\ next.writer = announced /\ next.gen \in Nat /\ next.gen > c.gen
         /\ next \in [offset : Nat, gen : Nat, writer : Nat]
      \/ c # NoCursor /\ ~Rotated(c, sync.size, announced) /\ d = c /\ next = c
  <2>1. sync.size \in Nat /\ announced \in Nat
    BY BesideTheLog
  <2>2. CASE c = NoCursor
    BY <1>3, <2>1, <2>2
  <2>3. CASE c # NoCursor /\ Rotated(c, sync.size, announced)
    <3>1. c.gen \in Nat
      BY <2>3, BesideTheLog
    <3>2. PICK g \in Nat : g = Max({c.gen + 1, announced}) /\ g > c.gen
      <4>1. c.gen + 1 \in Nat
        BY <3>1
      <4>2. Max({c.gen + 1, announced}) = IF c.gen + 1 > announced THEN c.gen + 1 ELSE announced
        BY <2>1, <4>1, LongerOf
      <4>3. QED
        BY <2>1, <3>1, <4>2
    <3>3. next = [offset |-> 0, gen |-> g, writer |-> announced] /\ d = next
      BY <1>3, <2>3, <3>2
    <3>4. QED
      BY <2>1, <2>3, <3>2, <3>3
  <2>4. CASE c # NoCursor /\ ~Rotated(c, sync.size, announced)
    BY <1>3, <2>4
  <2>5. QED
    BY <2>2, <2>3, <2>4
<1>5. fresh \in [offset : Nat, gen : Nat, writer : Nat]
  BY BesideTheLog
<1>6. /\ fresh.offset = 0 /\ fresh.gen = announced /\ fresh.writer = announced
      /\ NoCursor.offset = -1
  BY DEF NoCursor
<1>7. d \in IndexCursor
  BY <1>2, <1>4, <1>5 DEF IndexCursor
<1>8. /\ \/ sync' = NoSync /\ sync'.at = "idle" /\ sync'.announced = 0
         \/ /\ sync' \in [at : {"idle", "identity", "read"}, size : Nat, announced : Nat]
            /\ sync'.at = "read" /\ sync'.announced = announced /\ sync'.size = sync.size
            /\ sync.size > next.offset
  <2>1. CASE sync.size > next.offset
    BY <1>1, <1>2, <2>1, BesideTheLog
  <2>2. CASE ~(sync.size > next.offset)
    BY <1>1, <2>2 DEF NoSync
  <2>3. QED
    BY <2>1, <2>2
<1>9. index' \in [rows : SUBSET IndexRow, cursor : IndexCursor, counted : Int]
  BY <1>1, <1>2, <1>3, <1>7
<1> HIDE DEF c, d, announced, fresh, next
<1>10. IndexTypes'
  <2>1. sync' \in [at : {"idle", "identity", "read"}, size : Nat, announced : Nat]
    BY <1>8 DEF NoSync
  <2>2. QED
    BY <1>1, <1>3, <1>9, <2>1, BesideTheLog DEF IndexTypes
<1>11. c # NoCursor => c.offset \in Nat /\ c.gen \in Nat /\ c.writer \in Nat
  BY BesideTheLog DEF c
<1>12. RowsBefore'
  <2> SUFFICES ASSUME NEW r \in index.rows
               PROVE  d # NoCursor /\ r.gen <= d.gen /\ (r.gen = d.gen => r.end <= d.offset)
    BY <1>3 DEF RowsBefore, d
  <2>1. c # NoCursor /\ r.gen <= c.gen /\ (r.gen = c.gen => r.end <= c.offset) /\ r.gen \in Nat
    BY <1>2, BesideTheLog DEF RowsBefore, c, IndexRow
  <2>2. d = c \/ (d.offset = 0 /\ d.gen \in Nat /\ d.gen > c.gen)
    BY <1>4, <2>1
  <2>3. QED
    BY <1>6, <1>11, <2>1, <2>2
<1>13. NotAhead'
  <2>1. d # NoCursor => d.writer <= announced
    <3>1. d = c \/ d.writer = announced
      BY <1>4, <1>6
    <3>2. c # NoCursor => c.writer <= announced
      BY BesideTheLog DEF NotAhead, c, announced
    <3>3. announced \in Nat
      BY BesideTheLog DEF announced
    <3>4. QED
      BY <3>1, <3>2, <3>3
  <2>2. sync'.announced <= announced
    BY <1>8, BesideTheLog DEF announced
  <2>3. QED
    BY <2>1, <2>2, BesideTheLog DEF NotAhead, d, announced
<1>14. UNCHANGED <<text, marker, unmarked, Midway>> /\ Len(text) \in Nat /\ sync.size \in Nat
  BY BesideTheLog
<1>15. \A l : Indexed(l)' <=> Indexed(l)
  BY <1>1, <1>3 DEF Indexed
<1>16. ReadIsIndexed'
  <2>1. d = c \/ d.offset = 0
    BY <1>4, <1>6
  <2>2. CASE d = c
    BY <1>14, <1>15, <2>2, BesideTheLog DEF ReadIsIndexed, c, d
  <2>3. CASE d.offset = 0
    <3>1. index'.cursor.offset = 0
      BY <2>3 DEF d
    <3>2. QED
      BY <1>14, <3>1 DEF ReadIsIndexed
  <2>4. QED
    BY <2>1, <2>2, <2>3
<1>17. ReadOnce'
  <2> SUFFICES ASSUME ~overlapped PROVE ReadOnce'
    BY <1>1 DEF ReadOnce
  <2>1. /\ \A r, q \in index.rows : r.line = q.line => r = q
        /\ \A r \in index.rows : \A i \in DOMAIN text : r.line = text[i] =>
              /\ c.writer = marker.gen /\ c.offset <= Len(text) /\ i <= c.offset
              /\ c.offset <= sync.size
        /\ sync.size <= Len(text)
    BY <1>1, BesideTheLog DEF ReadOnce, c
  <2>2. \A r \in index.rows : \A i \in DOMAIN text : r.line = text[i] => d = c
    <3> SUFFICES ASSUME NEW r \in index.rows, NEW i \in DOMAIN text, r.line = text[i] PROVE d = c
      OBVIOUS
    <3>1. c # NoCursor
      BY BesideTheLog DEF RowsBefore, c
    <3>2. ~Rotated(c, sync.size, announced)
      BY <1>11, <1>14, <2>1, <3>1 DEF Rotated, announced
    <3>3. QED
      BY <1>4, <3>1, <3>2
  <2>3. \A r \in index.rows : \A i \in DOMAIN text : r.line = text[i] =>
              d.writer = marker.gen /\ d.offset <= Len(text) /\ i <= d.offset
    BY <2>1, <2>2
  <2>4. sync'.at # "identity"
    BY <1>8
  <2>5. sync'.at # "idle" => sync'.size <= Len(text)
    BY <1>8, <2>1
  <2>6. sync'.at = "read" => /\ sync'.size > 0 /\ sync'.announced = marker.gen
                             /\ d # NoCursor => d.writer = marker.gen
    <3> SUFFICES ASSUME sync'.at = "read"
                 PROVE  sync'.size > 0 /\ sync'.announced = marker.gen /\ (d # NoCursor => d.writer = marker.gen)
      OBVIOUS
    <3>1. sync'.announced = announced /\ sync'.size = sync.size /\ sync.size > next.offset
      BY <1>8
    <3>2. next.offset \in Nat
      BY <1>4, <1>6, <1>11
    <3>3. d # NoCursor => d.writer = announced
      BY <1>4, <1>6, <1>11 DEF Rotated
    <3>4. QED
      BY <1>14, <3>1, <3>2, <3>3 DEF announced
  <2>7. QED
    BY <1>3, <1>14, <2>1, <2>3, <2>4, <2>5, <2>6 DEF ReadOnce, d
<1>18. OnePlace'
  BY <1>3, BesideTheLog DEF OnePlace
<1>19. QED
  BY <1>10, <1>12, <1>13, <1>16, <1>17, <1>18, BesideTheLog DEF IndexInv

\* A sync reads what lies after its cursor, all of it up to the end of the file.
LEMMA SyncReadKeepsIndex == ASSUME IndexInv, SyncRead, UNCHANGED lvars PROVE IndexInv'
<1> DEFINE c == IF index.cursor = NoCursor THEN [offset |-> 0, gen |-> sync.announced, writer |-> sync.announced]
                ELSE index.cursor
           n == Max({0, Len(text) - c.offset})
           read == [i \in 1..n |-> [line |-> text[c.offset + i], gen |-> c.gen, end |-> c.offset + i]]
           rows == Inserted(index.rows, read)
           d == [c EXCEPT !.offset = @ + n]
<1>1. /\ c \in [offset : Nat, gen : Nat, writer : Nat]
      /\ c.offset \in Nat /\ c.gen \in Nat /\ c.writer \in Nat
      /\ \/ c = index.cursor /\ index.cursor # NoCursor
         \/ index.cursor = NoCursor /\ c.offset = 0 /\ c.writer = sync.announced
  <2>1. index.cursor \in IndexCursor
    BY BesideTheLog DEF IndexTypes
  <2>2. CASE index.cursor = NoCursor
    BY <2>2, BesideTheLog
  <2>3. CASE index.cursor # NoCursor
    BY <2>1, <2>3 DEF IndexCursor
  <2>4. QED
    BY <2>2, <2>3
<1>2. /\ n \in Nat /\ n = IF Len(text) > c.offset THEN Len(text) - c.offset ELSE 0
  <2> HIDE DEF c
  <2>1. Len(text) - c.offset \in Int /\ Len(text) \in Nat
    BY <1>1, BesideTheLog
  <2>2. n = IF Len(text) - c.offset > 0 THEN Len(text) - c.offset ELSE 0
    BY <2>1, LongerOf
  <2>3. QED
    BY <1>1, <2>1, <2>2
<1> HIDE DEF n, c
<1>3. ASSUME NEW i \in 1..n
      PROVE  /\ c.offset + i \in DOMAIN text /\ text[c.offset + i] \in Lines
             /\ read[i] \in IndexRow
             /\ read[i].line = text[c.offset + i] /\ read[i].gen = c.gen /\ read[i].end = c.offset + i
  <2>1. c.offset + i \in 1..Len(text) /\ c.offset + i \in Nat
    BY <1>1, <1>2, BesideTheLog
  <2>2. c.offset + i \in DOMAIN text /\ text[c.offset + i] \in Lines
    BY <2>1, BesideTheLog
  <2>3. read[i] = [line |-> text[c.offset + i], gen |-> c.gen, end |-> c.offset + i]
    OBVIOUS
  <2>4. QED
    BY <1>1, <2>1, <2>2, <2>3 DEF IndexRow
<1>4. read \in [1..n -> IndexRow] /\ Len(read) = n /\ DOMAIN read = 1..n
  <2>1. read \in [1..n -> IndexRow]
    BY <1>3
  <2>2. \A i \in 1..n : read[i] \in IndexRow
    BY <1>3
  <2>3. Len(read) = n /\ DOMAIN read = 1..n
    BY <1>2
  <2>4. QED
    BY <2>1, <2>3
<1>5. /\ index' = [rows    |-> rows,
                   cursor  |-> [c EXCEPT !.offset = @ + Len(read)],
                   counted |-> index.counted + Counts(index.rows, read)]
      /\ sync' = NoSync /\ UNCHANGED <<forgotten, overlapped>> /\ sync.at = "read"
  BY DEF SyncRead, c, n
<1> HIDE DEF read
<1>6. /\ d \in [offset : Nat, gen : Nat, writer : Nat]
      /\ d.offset = c.offset + n /\ d.gen = c.gen /\ d.writer = c.writer
      /\ d # NoCursor
  <2>1. PICK m \in Nat : m = c.offset + n
    BY <1>1, <1>2
  <2>2. d = [c EXCEPT !.offset = m]
    BY <1>1, <2>1
  <2>3. d.offset # -1 /\ NoCursor.offset = -1
    BY <1>1, <2>1, <2>2 DEF NoCursor
  <2>4. QED
    BY <1>1, <2>1, <2>2, <2>3
<1>7. index'.cursor = d /\ index'.rows = rows
  BY <1>4, <1>5
<1> HIDE DEF d
<1>8. index.rows \in SUBSET IndexRow /\ IsFiniteSet(index.rows) /\ index.counted = Cardinality(index.rows)
  BY BesideTheLog DEF IndexTypes
<1>9. /\ rows \in SUBSET IndexRow /\ IsFiniteSet(rows) /\ index.rows \subseteq rows
      /\ \A r \in rows : r \in index.rows \/ \E i \in 1..n : r = read[i]
  BY <1>2, <1>4, <1>8, InsertedRows
<1> HIDE DEF rows
<1>10. index'.counted = Cardinality(rows)
  <2>1. index'.counted = index.counted + (Cardinality(rows) - Cardinality(index.rows))
    BY <1>5 DEF Counts, rows
  <2>2. Cardinality(rows) \in Nat /\ Cardinality(index.rows) \in Nat
    BY <1>8, <1>9, FS_CardinalityType
  <2>3. QED
    BY <1>8, <2>1, <2>2
<1>11. IndexTypes'
  <2>1. Cardinality(rows) \in Int
    BY <1>9, FS_CardinalityType
  <2>2. d \in IndexCursor
    BY <1>6 DEF IndexCursor
  <2>3. index' \in [rows : SUBSET IndexRow, cursor : IndexCursor, counted : Int]
    BY <1>5, <1>7, <1>9, <1>10, <2>1, <2>2
  <2>4. sync' \in [at : {"idle", "identity", "read"}, size : Nat, announced : Nat]
    BY <1>5 DEF NoSync
  <2>5. forgotten' \subseteq Lines /\ overlapped' \in BOOLEAN
    BY <1>5, BesideTheLog DEF IndexTypes
  <2>6. QED
    BY <1>7, <1>9, <1>10, <2>3, <2>4, <2>5 DEF IndexTypes
<1>12. \A r \in index.rows : /\ c = index.cursor /\ r.gen <= c.gen /\ r.gen \in Nat /\ r.end \in Nat
                             /\ r.gen = c.gen => r.end <= c.offset
  BY <1>1, <1>8, BesideTheLog DEF RowsBefore, IndexRow
<1>13. RowsBefore'
  <2> SUFFICES ASSUME NEW r \in rows
               PROVE  d # NoCursor /\ r.gen <= d.gen /\ (r.gen = d.gen => r.end <= d.offset)
    BY <1>7 DEF RowsBefore
  <2>1. CASE r \in index.rows
    BY <1>1, <1>2, <1>6, <1>12, <2>1
  <2>2. CASE \E i \in 1..n : r = read[i]
    <3>1. PICK i \in 1..n : r = read[i]
      BY <2>2
    <3>2. r.gen = c.gen /\ r.end = c.offset + i
      BY <1>3, <3>1 DEF read
    <3>3. QED
      BY <1>1, <1>2, <1>6, <3>2
  <2>3. QED
    BY <1>9, <2>1, <2>2
<1>14. NotAhead'
  <2>1. c.writer <= marker.gen /\ sync'.announced = 0
    BY <1>1, <1>5, BesideTheLog DEF NotAhead, NoSync
  <2>2. QED
    BY <1>6, <1>7, <2>1, BesideTheLog DEF NotAhead
<1>15. \A l : Indexed(l) => Indexed(l)'
  BY <1>5, <1>7, <1>9 DEF Indexed
<1>16. ASSUME NEW i \in 1..n
       PROVE  \E r \in rows : r.line = text[c.offset + i] \/ SameKey(r.line, text[c.offset + i])
  <2>1. \A j \in 1..n : ~PlaceTaken(index.rows, read[j])
    <3> SUFFICES ASSUME NEW j \in 1..n, NEW r \in index.rows, r.gen = read[j].gen, r.end = read[j].end
                 PROVE  FALSE
      BY DEF PlaceTaken
    <3>1. r.gen = c.gen /\ r.end = c.offset + j
      BY <1>3 DEF read
    <3>2. QED
      BY <1>1, <1>12, <3>1
  <2>2. \E r \in rows : r.line = read[i].line \/ SameKey(r.line, read[i].line)
    BY <1>2, <1>4, <1>8, <2>1, InsertedCovers DEF rows
  <2>3. \E r \in rows : r.line = text[c.offset + i] \/ SameKey(r.line, text[c.offset + i])
    BY <1>3, <2>2 DEF read
  <2>4. QED
    BY <2>3
<1>17. ReadIsIndexed'
  <2> SUFFICES ASSUME ~unmarked, d.writer = marker.gen, ~Midway
               PROVE  d.offset <= Len(text) /\ \A i \in 1..d.offset : Indexed(text[i])'
    BY <1>7, BesideTheLog DEF ReadIsIndexed, Indexed
  <2>1. c.offset <= Len(text) /\ \A i \in 1..c.offset : Indexed(text[i])
    BY <1>1, <1>6, BesideTheLog DEF ReadIsIndexed
  <2>2. d.offset = Len(text) /\ n = Len(text) - c.offset
    BY <1>1, <1>2, <1>6, <2>1, BesideTheLog
  <2>3. ASSUME NEW i \in 1..d.offset, ~(i \in 1..c.offset) PROVE Indexed(text[i])'
    <3>1. i - c.offset \in 1..n /\ c.offset + (i - c.offset) = i
      BY <1>1, <2>2, <2>3, BesideTheLog
    <3>2. PICK r \in rows : r.line = text[i] \/ SameKey(r.line, text[i])
      BY <1>16, <3>1
    <3>3. \E l : l = text[i] /\ Indexed(l)'
      BY <1>7, <3>2 DEF Indexed, SameKey
    <3>4. QED
      BY <3>3, BesideTheLog
  <2>4. QED
    BY <1>15, <2>1, <2>2, <2>3, BesideTheLog
<1>18. ReadOnce'
  <2> SUFFICES ASSUME ~overlapped
               PROVE  /\ \A r, q \in rows : r.line = q.line => r = q
                      /\ \A r \in rows : \A i \in DOMAIN text : r.line = text[i] =>
                            d.writer = marker.gen /\ d.offset <= Len(text) /\ i <= d.offset
    BY <1>5, <1>7, BesideTheLog DEF ReadOnce, NoSync
  <2>1. /\ \A r, q \in index.rows : r.line = q.line => r = q
        /\ \A r \in index.rows : \A i \in DOMAIN text : r.line = text[i] =>
              index.cursor.writer = marker.gen /\ index.cursor.offset <= Len(text) /\ i <= index.cursor.offset
        /\ sync.announced = marker.gen /\ (index.cursor # NoCursor => index.cursor.writer = marker.gen)
    BY <1>5, BesideTheLog DEF ReadOnce
  <2>2. d.writer = marker.gen
    BY <1>1, <1>6, <2>1
  <2>3. \A r \in index.rows : \A i \in DOMAIN text : r.line = text[i] => c.offset <= Len(text) /\ i <= c.offset
    BY <1>12, <2>1
  <2>4. ASSUME NEW r \in index.rows, NEW j \in 1..n PROVE r.line # read[j].line
    <3>1. c.offset + j \in DOMAIN text /\ read[j].line = text[c.offset + j]
      BY <1>3 DEF read
    <3>2. ~(c.offset + j <= c.offset)
      BY <1>1
    <3>3. QED
      BY <2>3, <3>1, <3>2
  <2>5. ASSUME NEW i \in 1..n, NEW j \in 1..n, read[i].line = read[j].line PROVE read[i] = read[j]
    <3>1. /\ c.offset + i \in DOMAIN text /\ read[i].line = text[c.offset + i]
          /\ c.offset + j \in DOMAIN text /\ read[j].line = text[c.offset + j]
      BY <1>3 DEF read
    <3>2. c.offset + i = c.offset + j
      BY <2>5, <3>1, BesideTheLog DEF OnePlace
    <3>3. i = j
      BY <1>1, <3>2
    <3>4. QED
      BY <3>3
  <2>6. \A r, q \in rows : r.line = q.line => r = q
    BY <1>9, <2>1, <2>4, <2>5
  <2>7. ASSUME NEW r \in rows, NEW i \in DOMAIN text, r.line = text[i]
        PROVE  d.offset <= Len(text) /\ i <= d.offset
    <3>1. c.offset <= Len(text)
      <4>1. CASE r \in index.rows
        BY <2>3, <2>7, <4>1
      <4>2. CASE \E j \in 1..n : r = read[j]
        BY <1>1, <1>2, <4>2, BesideTheLog
      <4>3. QED
        BY <1>9, <4>1, <4>2
    <3>2. d.offset = Len(text)
      BY <1>1, <1>2, <1>6, <3>1, BesideTheLog
    <3>3. QED
      BY <3>2, BesideTheLog
  <2>8. QED
    BY <2>2, <2>6, <2>7
<1>19. OnePlace'
  <2>1. \A r \in rows : born[r.line] # -1 /\ \A i \in DOMAIN queue : queue[i] # r.line
    <3> SUFFICES ASSUME NEW r \in rows
                 PROVE  born[r.line] # -1 /\ \A i \in DOMAIN queue : queue[i] # r.line
      OBVIOUS
    <3>1. CASE r \in index.rows
      BY <3>1, BesideTheLog DEF OnePlace
    <3>2. CASE \E i \in 1..n : r = read[i]
      <4>1. PICK j \in DOMAIN text : r.line = text[j]
        BY <1>3, <3>2 DEF read
      <4>2. QED
        BY <4>1, BesideTheLog DEF OnePlace, ToSet
    <3>3. QED
      BY <1>9, <3>1, <3>2
  <2>2. QED
    BY <1>7, <2>1, BesideTheLog DEF OnePlace
<1>20. QED
  BY <1>11, <1>13, <1>14, <1>17, <1>18, <1>19, BesideTheLog DEF IndexInv

LEMMA IndexStep ==
    ASSUME IndexInv,
           [(LogNext(FALSE) /\ Beside) \/ (IndexNext /\ UNCHANGED lvars)]_<<lvars, ivars>>
    PROVE  IndexInv'
<1>1. CASE LogNext(FALSE) /\ Beside
  BY <1>1, WriterKeepsIndex DEF Beside
<1>2. CASE UNCHANGED <<lvars, ivars>>
  <2>1. UNCHANGED lvars /\ UNCHANGED <<index, sync, forgotten, overlapped, text>>
    BY <1>2 DEF ivars, lvars, file
  <2>2. overlapped' = (overlapped \/ (sync.at # "idle" /\ text' = <<>> /\ text # <<>>))
    BY <2>1 DEF IndexInv, IndexTypes
  <2>3. QED
    BY <2>1, <2>2, WriterKeepsIndex
<1>3. CASE IndexNext /\ UNCHANGED lvars
  BY <1>3, SyncSizeKeepsIndex, SyncIdentityKeepsIndex, SyncReadKeepsIndex, SyncPruneKeepsIndex,
     SyncStopsKeepsIndex DEF IndexNext
<1>4. QED
  BY <1>1, <1>2, <1>3

\* The log keeps what was appended and the console finds it, for any number of lines, days,
\* failures and restarts of the writer, and wherever in a rotation the console's syncs begin
\* and end: a cursor that is neither shorter than the file nor of another generation has
\* every line before it, because between a truncation and its marker the file is empty
\* (append_ndjson, AuditLogIndex.sync).
THEOREM AuditIsIndexed == AuditSpec => []LogIsIndexed
<1>1. IndexInv => LogIsIndexed
  <2> SUFFICES ASSUME IndexInv PROVE RecordIsKept /\ IndexFollowsLog
    BY DEF LogIsIndexed
  <2>1. RecordIsKept
    BY RecordsKept DEF IndexInv
  <2>2. /\ LogInv(FALSE) /\ IndexTypes /\ ReadIsIndexed /\ ReadOnce
        /\ text \in Seq(Lines)
    BY DEF IndexInv, LogInv, LogTypes
  <2>3. ASSUME UpToDate, ~unmarked, NEW l \in ToSet(text) PROVE Indexed(l)
    <3>1. index.cursor.offset = Len(text) /\ index.cursor.writer = marker.gen
      BY <2>3 DEF UpToDate, Rotated
    <3>2. PICK i \in 1..Len(text) : l = text[i]
      BY <2>2, <2>3 DEF ToSet
    <3>3. index.cursor # NoCursor
      BY <2>2, <3>1 DEF NoCursor
    <3>4. ~Midway
      BY <2>2, <3>2 DEF LogInv, InGeneration
    <3>5. QED
      BY <2>2, <2>3, <3>1, <3>2, <3>3, <3>4 DEF ReadIsIndexed
  <2>4. QED
    BY <2>1, <2>2, <2>3 DEF IndexFollowsLog, IndexTypes, ReadOnce
<1>2. LogInit /\ IndexInit => IndexInv
  BY IndexInitially
<1>3. QED
  BY <1>1, <1>2, IndexStep, PTL DEF AuditSpec

-----------------------------------------------------------------------------
(* The feed of the sidecar's file.                                           *)

Offsets == Nat \cup {Missing}

PollTypes ==
    [at : {"idle", "resume", "last", "fresh", "lines", "taken", "completed"}, announced : Generations,
     former : Nat, gen : Generations, offset : Nat, size : Nat]

FeedTypes ==
    /\ scan \in [Generations -> Offsets] /\ last \in Offsets /\ host \in Offsets
    /\ known \in Offsets
    /\ IsFiniteSet(records) /\ committed \in [Generations -> Nat]
    /\ inbox \in [EventIds -> [status : {"none", "pending", "done"}, gen : Generations]]
    /\ poll \in PollTypes
    /\ foreign \in [Generations -> Nat]

\* The day the writer will compare with today's.
DueDay == CASE writer.at = "idle"              -> Remembered.day
            [] writer.at = "append"            -> writer.day
            [] OTHER                           -> writer.now

\* Every rotation is paid for by a change of the day or a failure.
Paid ==
    ~unmarked =>
        /\ NextGen <= turns + stops
        /\ DueDay # today => NextGen + 1 <= turns + stops
        /\ writer.at \in {"archive", "truncate"} =>
              /\ NextGen + 1 <= turns + stops
              /\ DueDay # today => NextGen + 2 <= turns + stops

Received(l) == EventIn[l] # NoEvent => inbox[EventIn[l]].status # "none"

Reading == poll.at \in {"lines", "taken"}

\* What was scanned under a generation that is still to come counts as foreign to it.
NoneAhead ==
    ~unmarked =>
        /\ poll.announced <= marker.gen
        /\ \A g \in Generations : g > marker.gen => scan[g] <= foreign[g]
        /\ Reading /\ poll.gen > marker.gen => poll.offset <= foreign[poll.gen]

\* From a line b on, the events are in up to a cursor n.
Taken(b, n) ==
    /\ n <= b \/ n <= Len(text)
    /\ \A i \in DOMAIN text : b < i /\ i <= n => Received(text[i])

\* A poll has a cursor in the file of the writer's generation.
Begun == (poll.at = "last" /\ poll.announced = marker.gen) \/ (Reading /\ poll.gen = marker.gen)

\* Up to the cursor of the writer's generation, and to a poll of it, the events are in.
ScannedIsReceived ==
    ~unmarked /\ ~Midway =>
        /\ Taken(foreign[marker.gen], scan[marker.gen])
        /\ Begun => Taken(foreign[marker.gen], poll.offset)

FeedInv == LogInv(TRUE) /\ FeedTypes /\ Paid /\ NoneAhead /\ ScannedIsReceived

LEMMA PaidStep ==
    ASSUME LogInv(TRUE), Paid, LogNext(TRUE) \/ UNCHANGED lvars
    PROVE  Paid'
<1> USE DEF WriterSteps
<1> SUFFICES ASSUME ~unmarked' PROVE Paid'
  BY DEF Paid
<1>1. ~unmarked /\ LogTypes /\ InGeneration(TRUE)
  BY UnmarkedStays DEF LogInv
<1>2. /\ marker.gen \in Nat /\ writer.gen \in Nat /\ turns \in Nat /\ stops \in Nat
      /\ writer \in [at : WriterSteps, day : Int, gen : Nat, now : Int]
      /\ writer.at # "idle" => writer.day # -1
  BY <1>1, LogAssumption DEF LogTypes
<1>3. /\ writer.at # "idle" => writer.gen = marker.gen \/ (writer.at = "mark" /\ writer.gen = marker.gen + 1)
  BY <1>1 DEF InGeneration
<1>4. NextGen \in Nat
  BY <1>2 DEF NextGen
<1>5. /\ NextGen <= turns + stops
      /\ DueDay # today => NextGen + 1 <= turns + stops
      /\ writer.at \in {"archive", "truncate"} =>
            /\ NextGen + 1 <= turns + stops
            /\ DueDay # today => NextGen + 2 <= turns + stops
  BY <1>1 DEF Paid
<1>6. CASE Begin(TRUE)
  <2>1. /\ UNCHANGED <<marker, turns, stops, today>> /\ writer.at = "idle"
        /\ writer'.at \in {"archive", "append", "mark"}
        /\ writer'.gen = Remembered.gen /\ writer'.now = today /\ writer'.day = Remembered.day
        /\ writer'.at = "archive" => Remembered.day # today
        /\ writer'.at = "append" => Remembered.day = today
    BY <1>6 DEF Begin, file
  <2>2. writer'.gen = marker.gen
    BY <1>1, <2>1, GenerationOfMemory
  <2>3. NextGen' = NextGen
    BY <2>1, <2>2 DEF NextGen
  <2>4. DueDay = Remembered.day /\ DueDay' = today'
    BY <2>1 DEF DueDay
  <2>5. writer'.at # "truncate"
    BY <2>1
  <2>6. QED
    BY <1>2, <1>4, <1>5, <2>1, <2>3, <2>4, <2>5 DEF Paid
<1>7. CASE Archive
  <2>1. /\ UNCHANGED <<marker, turns, stops, today>> /\ writer.at = "archive" /\ writer'.at = "truncate"
        /\ writer'.now = writer.now
    BY <1>2, <1>7 DEF Archive
  <2>2. NextGen' = NextGen /\ DueDay' = DueDay
    BY <2>1 DEF NextGen, DueDay
  <2>3. QED
    BY <1>5, <2>1, <2>2 DEF Paid
<1>8. CASE Truncate
  <2>1. /\ UNCHANGED <<marker, turns, stops, today>> /\ writer.at = "truncate" /\ writer'.at = "mark"
        /\ writer'.now = writer.now /\ writer'.gen = writer.gen + 1
    BY <1>2, <1>8 DEF Truncate
  <2>2. NextGen' = NextGen + 1 /\ DueDay' = DueDay
    BY <1>3, <2>1 DEF NextGen, DueDay
  <2>3. QED
    BY <1>2, <1>4, <1>5, <2>1, <2>2 DEF Paid
<1>9. CASE Mark
  <2>1. /\ UNCHANGED <<turns, stops, today>> /\ writer.at = "mark" /\ writer'.at = "legacy"
        /\ writer'.now = writer.now /\ marker'.gen = writer.gen
    BY <1>2, <1>9 DEF Mark
  <2>2. NextGen' = NextGen /\ DueDay' = DueDay
    BY <2>1 DEF NextGen, DueDay
  <2>3. QED
    BY <1>5, <2>1, <2>2 DEF Paid
<1>10. CASE MarkLegacy(TRUE)
  <2>1. /\ UNCHANGED <<marker, turns, stops, today>> /\ writer.at = "legacy" /\ writer'.at = "append"
        /\ writer'.day = writer.now
    BY <1>2, <1>10 DEF MarkLegacy
  <2>2. NextGen' = NextGen /\ DueDay' = DueDay
    BY <2>1 DEF NextGen, DueDay
  <2>3. QED
    BY <1>5, <2>1, <2>2 DEF Paid
<1>11. CASE AppendLine(TRUE)
  <2>1. /\ UNCHANGED <<marker, turns, stops, today>> /\ writer.at = "append" /\ writer'.at = "idle"
        /\ writer'.day = writer.day /\ writer.day # -1
    BY <1>2, <1>11 DEF AppendLine
  <2>2. Remembered' = [day |-> writer'.day, gen |-> writer'.gen]
    BY <2>1 DEF Remembered
  <2>3. Remembered'.day = writer.day
    BY <2>1, <2>2
  <2>4. NextGen' = NextGen /\ DueDay' = DueDay
    BY <2>1, <2>3 DEF NextGen, DueDay
  <2>5. QED
    BY <1>5, <2>1, <2>4 DEF Paid
<1>12. CASE Fail(TRUE) \/ Close
  <2>1. /\ UNCHANGED <<marker, turns, today>> /\ stops' = stops + 1 /\ writer'.at = "idle" /\ Forgets
    BY <1>2, <1>12 DEF Fail, Close, Stopped, Idle, file
  <2>2. NextGen' = NextGen
    BY <1>2, <1>3, <2>1, ForgetsMarks DEF NextGen
  <2>3. QED
    BY <1>2, <1>4, <1>5, <2>1, <2>2 DEF Paid
<1>13. CASE Turn
  <2>1. /\ UNCHANGED <<marker, stops, writer>> /\ turns' = turns + 1
    BY <1>13 DEF Turn, file
  <2>2. NextGen' = NextGen
    BY <2>1 DEF NextGen
  <2>3. QED
    BY <1>2, <1>4, <1>5, <2>1, <2>2 DEF Paid
<1>14. CASE (\E l \in Lines : Enqueue(l)) \/ UNCHANGED lvars
  <2>1. UNCHANGED <<marker, legacy, turns, stops, today, writer>>
    BY <1>14 DEF Enqueue, file, lvars
  <2>2. NextGen' = NextGen /\ DueDay' = DueDay
    BY <2>1 DEF NextGen, DueDay, Remembered, Marked
  <2>3. QED
    BY <1>5, <2>1, <2>2 DEF Paid
<1>15. QED
  BY <1>6, <1>7, <1>8, <1>9, <1>10, <1>11, <1>12, <1>13, <1>14 DEF LogNext

\* The writer's generations have room in the feed's.
LEMMA GenerationsSuffice ==
    ASSUME LogInv(TRUE), Paid, ~unmarked
    PROVE  /\ marker.gen \in Generations
           /\ Midway => marker.gen + 1 \in Generations
<1>1. /\ marker.gen \in Nat /\ turns \in 0..MaxTurns /\ stops \in 0..MaxStops
      /\ MaxTurns \in Nat /\ MaxStops \in Nat /\ MaxInvented \in Nat
  BY LogAssumption, FeedAssumption DEF LogInv, LogTypes
<1>2. NextGen <= turns + stops
  BY DEF Paid
<1>3. NextGen = marker.gen \/ NextGen = marker.gen + 1
  BY DEF LogInv, InGeneration, NextGen
<1>4. Midway => NextGen = marker.gen + 1
  BY DEF LogInv, InGeneration, NextGen, Midway
<1>5. QED
  BY <1>1, <1>2, <1>3, <1>4 DEF Generations

LEMMA GreatestOf ==
    ASSUME NEW S \in SUBSET Nat, S # {}, NEW n \in Nat, \A x \in S : x <= n
    PROVE  Max(S) \in S /\ Max(S) \in Nat /\ \A x \in S : x <= Max(S)
<1>1. IsFiniteSet(S)
  BY FS_BoundedSetOfNaturals
<1> DEFINE id == [x \in S |-> x]
<1>2. id \in [S -> Nat]
  OBVIOUS
<1>3. PICK m \in S : \A x \in S : id[x] <= id[m]
  <2> HIDE DEF id
  <2>1. QED
    BY <1>1, <1>2, GreatestValue
<1>4. \A x \in S : m >= x
  BY <1>3
<1>5. Max(S) \in S /\ \A x \in S : Max(S) >= x
  BY <1>4 DEF Max
<1>6. QED
  BY <1>5

LEMMA AdvancedIsOffset ==
    ASSUME NEW recs, IsFiniteSet(recs), NEW g, NEW at \in Nat
    PROVE  Advanced(recs, g, at) \in Nat
<1> DEFINE top == at + Cardinality(recs)
           S == {n \in at..top : \A i \in at..(n - 1) : \E r \in recs : r.gen = g /\ r.start = i /\ r.done}
<1>1. Cardinality(recs) \in Nat
  BY FS_CardinalityType
<1>2. top \in Nat /\ at <= top
  BY <1>1
<1> HIDE DEF top
<1>3. at \in S
  BY <1>2
<1>4. S \in SUBSET Nat /\ \A x \in S : x <= top
  BY <1>2
<1>5. Max(S) \in Nat
  <2> HIDE DEF S
  <2>1. QED
    BY <1>2, <1>3, <1>4, GreatestOf
<1>6. QED
  BY <1>5 DEF Advanced, top

LEMMA FurthestIsOffset ==
    ASSUME FeedTypes, NEW size \in Nat
    PROVE  Furthest(size) \in Offsets
<1> DEFINE S == {c \in {scan[g] : g \in Generations} \cup {host} : Fits(c, size)}
<1>1. S \in SUBSET Nat /\ \A c \in S : c <= size
  BY DEF FeedTypes, Offsets, Fits
<1>2. S # {} => Max(S) \in Nat
  <2> HIDE DEF S
  <2>1. QED
    BY <1>1, GreatestOf
<1>3. QED
  BY <1>2 DEF Furthest, Offsets

LEMMA FeedInitially == LogInit /\ FeedInit => FeedInv
<1> SUFFICES ASSUME LogInit, FeedInit PROVE FeedInv
  OBVIOUS
<1> USE LogAssumption, FeedAssumption DEF FeedInit
<1>1. LogInv(TRUE)
  BY LogInitially
<1>2. /\ marker.gen = 0 /\ writer.at = "idle" /\ writer.day = -1 /\ today = 0 /\ turns = 0 /\ stops = 0
      /\ marker = Nowhere /\ legacy = -1
  BY DEF LogInit, Idle, Nowhere
<1>3. Paid
  <2>1. Marked.day = today
    BY <1>2 DEF Marked
  <2>2. Remembered = Marked
    BY <1>2 DEF Remembered
  <2>3. NextGen = 0 /\ DueDay = today
    BY <1>2, <2>1, <2>2 DEF NextGen, DueDay
  <2>4. QED
    BY <1>2, <2>3 DEF Paid
<1>4. FeedTypes
  <2>1. 0 \in Generations
    BY DEF Generations
  <2>2. /\ scan \in [Generations -> Offsets] /\ last \in Offsets /\ host \in Offsets
        /\ known \in Offsets /\ committed \in [Generations -> Nat]
    BY DEF Offsets
  <2>3. inbox \in [EventIds -> [status : {"none", "pending", "done"}, gen : Generations]]
    BY <2>1
  <2>4. poll \in PollTypes /\ foreign \in [Generations -> Nat]
    BY <2>1 DEF NoPoll, PollTypes
  <2>5. QED
    BY <2>2, <2>3, <2>4, FS_EmptySet DEF FeedTypes
<1>5. NoneAhead /\ ScannedIsReceived
  <2>1. marker.gen \in Generations /\ ~Reading /\ ~Begun /\ poll.announced = 0
    BY <1>2 DEF NoPoll, Reading, Begun, Generations
  <2>2. \A g \in Generations : scan[g] = -1 /\ foreign[g] = 0
    BY DEF Missing
  <2>3. Taken(0, -1)
    <3>1. \A i \in DOMAIN text : ~(0 < i /\ i <= -1)
      BY DEF LogInit
    <3>2. QED
      BY <3>1 DEF Taken
  <2>4. QED
    BY <1>2, <2>1, <2>2, <2>3 DEF NoneAhead, ScannedIsReceived
<1>6. QED
  BY <1>1, <1>3, <1>4, <1>5 DEF FeedInv

\* A step of the writer beside the feed.
LEMMA WriterKeepsFeed ==
    ASSUME FeedInv, LogNext(TRUE) \/ UNCHANGED lvars, UNCHANGED svars
    PROVE  FeedInv'
<1>1. /\ LogInv(TRUE) /\ FeedTypes /\ Paid /\ NoneAhead /\ ScannedIsReceived
  BY DEF FeedInv
<1>2. LogInv(TRUE)' /\ Paid'
  BY <1>1, LogStep, PaidStep
<1>3. UNCHANGED <<scan, last, host, known, records, committed, inbox, poll, foreign>>
  BY DEF svars, cursors
<1>4. FeedTypes'
  BY <1>1, <1>3 DEF FeedTypes
<1>5. /\ text \in Seq(Lines) /\ Len(text) \in Nat /\ marker.gen \in Nat /\ queue \in Seq(Lines)
      /\ DOMAIN text = 1..Len(text)
  BY <1>1 DEF LogInv, LogTypes
<1>6. CASE unmarked'
  BY <1>2, <1>4, <1>6 DEF FeedInv, NoneAhead, ScannedIsReceived
<1>7. CASE ~unmarked'
  <2>1. ~unmarked' /\ ~unmarked
    BY <1>7, UnmarkedStays
  <2>2. \/ /\ text' = Append(text, Head(queue)) /\ queue # <<>>
           /\ UNCHANGED marker /\ ~Midway /\ ~Midway'
        \/ text' = <<>> /\ UNCHANGED marker /\ Midway'
        \/ text' = text /\ marker'.gen = marker.gen + 1 /\ Midway /\ ~Midway'
        \/ /\ text' = text /\ marker'.gen = marker.gen
           /\ Midway => Midway' \/ unmarked'
           /\ Midway' => Midway
    BY <1>1, <2>1, LogEffect
  <2>3. /\ poll.announced <= marker.gen
        /\ \A g \in Generations : g > marker.gen => scan[g] <= foreign[g]
        /\ Reading /\ poll.gen > marker.gen => poll.offset <= foreign[poll.gen]
    BY <1>1, <2>1 DEF NoneAhead
  <2>4. /\ Generations \subseteq Int /\ poll.announced \in Generations /\ poll.gen \in Generations
        /\ poll.offset \in Nat /\ poll.announced \in Int /\ poll.gen \in Int
    <3>1. poll \in PollTypes /\ Generations \subseteq Int
      BY <1>1 DEF Generations, FeedTypes
    <3>2. QED
      BY <3>1 DEF PollTypes
  <2>5. marker'.gen = marker.gen \/ marker'.gen = marker.gen + 1
    BY <2>2
  <2>6. UNCHANGED Reading
    BY <1>3 DEF Reading
  <2>7. NoneAhead'
    <3>1. poll.announced <= marker'.gen
      BY <1>5, <2>3, <2>4, <2>5
    <3>2. \A g \in Generations : g > marker'.gen => g > marker.gen
      BY <1>5, <2>4, <2>5
    <3>3. QED
      BY <1>3, <2>3, <2>4, <2>6, <3>1, <3>2 DEF NoneAhead
  <2>8. ScannedIsReceived'
    <3> DEFINE Up(b, n) == /\ n <= b \/ n <= Len(text')
                           /\ \A i \in DOMAIN text' : b < i /\ i <= n => Received(text'[i])
    <3>1. \A b, n : Taken(b, n)' <=> Up(b, n)
      BY <1>3 DEF Taken, Received
    <3> HIDE DEF Up
    <3>2. Begun' => \/ poll.at = "last" /\ poll.announced = marker'.gen
                    \/ Reading /\ poll.gen = marker'.gen
      BY <1>3, <2>6 DEF Begun
    <3> SUFFICES ASSUME ~Midway'
                 PROVE  /\ Up(foreign[marker'.gen], scan[marker'.gen])
                        /\ Begun' => Up(foreign[marker'.gen], poll.offset)
      BY <1>3, <3>1 DEF ScannedIsReceived, Taken, Received, Up
    <3>3. CASE /\ text' = Append(text, Head(queue)) /\ queue # <<>>
               /\ UNCHANGED marker /\ ~Midway
      <4>1. Head(queue) \in Lines
        BY <1>5, <3>3, TailFacts
      <4>2. /\ Len(text') = Len(text) + 1 /\ DOMAIN text' = 1..(Len(text) + 1)
            /\ \A i \in 1..Len(text) : text'[i] = text[i]
        BY <1>5, <3>3, <4>1, AppendFacts
      <4>3. \A b \in Nat, n \in Offsets : Taken(b, n) => Up(b, n)
        <5> SUFFICES ASSUME NEW b \in Nat, NEW n \in Int, Taken(b, n) PROVE Up(b, n)
          BY DEF Offsets, Missing
        <5>1. n <= b \/ n <= Len(text)
          BY DEF Taken
        <5>2. n <= b \/ n <= Len(text')
          BY <1>5, <4>2, <5>1
        <5>3. ASSUME NEW i \in DOMAIN text', b < i, i <= n PROVE Received(text'[i])
          <6>1. i \in Nat /\ i \in 1..Len(text)
            BY <1>5, <4>2, <5>1, <5>3
          <6>2. Received(text[i])
            BY <1>5, <5>3, <6>1 DEF Taken
          <6>3. QED
            BY <4>2, <6>1, <6>2
        <5>4. QED
          BY <5>2, <5>3 DEF Up
      <4>4. marker.gen \in Generations
        BY <1>1, <2>1, GenerationsSuffice
      <4>5. scan[marker.gen] \in Offsets /\ foreign[marker.gen] \in Nat /\ poll.offset \in Offsets
        BY <1>1, <2>4, <4>4 DEF FeedTypes, Offsets
      <4>6. /\ Taken(foreign[marker.gen], scan[marker.gen])
            /\ Begun => Taken(foreign[marker.gen], poll.offset)
        BY <1>1, <2>1, <3>3 DEF ScannedIsReceived
      <4>7. Begun' => Begun
        BY <3>2, <3>3 DEF Begun
      <4>8. QED
        BY <3>3, <4>3, <4>5, <4>6, <4>7
    <3>4. CASE text' = text /\ marker'.gen = marker.gen + 1 /\ Midway
      <4>1. marker'.gen \in Generations /\ marker'.gen > marker.gen
        BY <1>1, <1>5, <2>1, <3>4, GenerationsSuffice
      <4>2. scan[marker'.gen] <= foreign[marker'.gen]
        BY <2>3, <4>1
      <4>3. Begun' => poll.offset <= foreign[marker'.gen]
        BY <1>5, <2>3, <2>4, <3>2, <4>1
      <4>4. foreign[marker'.gen] \in Nat /\ scan[marker'.gen] \in Int
        BY <1>1, <4>1 DEF FeedTypes, Offsets, Missing
      <4>5. \A b \in Nat, n \in Int : n <= b => Up(b, n)
        <5> SUFFICES ASSUME NEW b \in Nat, NEW n \in Int, n <= b PROVE Up(b, n)
          OBVIOUS
        <5>1. DOMAIN text' \subseteq Int
          BY <1>5, <3>4
        <5>2. \A i \in DOMAIN text' : ~(b < i /\ i <= n)
          BY <5>1
        <5>3. QED
          BY <5>2 DEF Up
      <4>6. QED
        BY <2>4, <4>2, <4>3, <4>4, <4>5
    <3>5. CASE text' = text /\ marker'.gen = marker.gen /\ ~Midway
      <4>1. /\ Taken(foreign[marker.gen], scan[marker.gen])
            /\ Begun => Taken(foreign[marker.gen], poll.offset)
        BY <1>1, <2>1, <3>5 DEF ScannedIsReceived
      <4>2. Begun' => Begun
        BY <3>2, <3>5 DEF Begun
      <4>3. \A b, n : Taken(b, n) => Up(b, n)
        BY <3>5 DEF Taken, Up
      <4>4. QED
        BY <3>5, <4>1, <4>2, <4>3
    <3>6. QED
      BY <2>1, <2>2, <3>3, <3>4, <3>5
  <2>9. QED
    BY <1>2, <1>4, <2>7, <2>8 DEF FeedInv
<1>8. QED
  BY <1>6, <1>7

\* The steps of a poll leave the log alone.
LEMMA FeedBesideTheLog ==
    ASSUME FeedInv, UNCHANGED lvars
    PROVE  /\ LogInv(TRUE)' /\ Paid' /\ UNCHANGED <<text, marker, unmarked, Midway>>
           /\ text \in Seq(Lines) /\ Len(text) \in Nat /\ DOMAIN text = 1..Len(text)
           /\ \A i \in DOMAIN text : text[i] \in Lines
           /\ marker.gen \in Nat
           /\ FeedTypes /\ NoneAhead /\ ScannedIsReceived
           /\ ~unmarked => marker.gen \in Generations
<1>1. LogInv(TRUE) /\ Paid /\ FeedTypes /\ NoneAhead /\ ScannedIsReceived
  BY DEF FeedInv
<1>2. LogInv(TRUE)' /\ Paid'
  BY <1>1, LogStep, PaidStep
<1>3. UNCHANGED <<text, marker, unmarked, Midway>>
  BY DEF lvars, file, Midway
<1>4. text \in Seq(Lines) /\ marker \in [day : Int, gen : Nat]
  BY <1>1 DEF LogInv, LogTypes
<1>5. /\ Len(text) \in Nat /\ DOMAIN text = 1..Len(text) /\ marker.gen \in Nat
      /\ \A i \in DOMAIN text : text[i] \in Lines
  BY <1>4
<1>6. ~unmarked => marker.gen \in Generations
  BY <1>1, GenerationsSuffice
<1>7. QED
  BY <1>1, <1>2, <1>3, <1>4, <1>5, <1>6

\* An event that is in the inbox stays in it, and so do the lines that were taken.
LEMMA TakenStays ==
    ASSUME FeedInv, UNCHANGED lvars,
           \A e \in EventIds : inbox[e].status # "none" => inbox'[e].status # "none"
    PROVE  /\ \A l \in Lines : Received(l) => Received(l)'
           /\ \A b, n : Taken(b, n) => Taken(b, n)'
<1>1. \A l \in Lines : Received(l) => Received(l)'
  BY DEF Received, EventIds
<1>2. ASSUME NEW b, NEW n, Taken(b, n) PROVE Taken(b, n)'
  <2>1. ASSUME NEW i \in DOMAIN text, b < i, i <= n PROVE Received(text[i])'
    <3>1. PICK l \in Lines : l = text[i] /\ l = text'[i]
      BY FeedBesideTheLog
    <3>2. Received(l)
      BY <1>2, <2>1, <3>1 DEF Taken
    <3>3. QED
      BY <1>1, <3>1, <3>2 DEF Received
  <2>2. QED
    BY <1>2, <2>1, FeedBesideTheLog DEF Taken
<1>3. QED
  BY <1>1, <1>2

\* What is foreign to a generation counts as taken.
LEMMA ForeignIsTaken ==
    ASSUME FeedInv, UNCHANGED lvars, NEW b \in Nat, NEW n \in Int, n <= b
    PROVE  Taken(b, n)'
<1>1. \A i \in DOMAIN text : ~(b < i /\ i <= n)
  BY FeedBesideTheLog
<1>2. QED
  BY <1>1, FeedBesideTheLog DEF Taken

\* A step that moves no cursor but that of the poll, which is over or has read nothing yet.
LEMMA PollSetKeepsFeed ==
    ASSUME FeedInv, UNCHANGED lvars, UNCHANGED <<scan, host, records, foreign>>,
           known' \in Offsets, last' \in Offsets, committed' \in [Generations -> Nat], UNCHANGED inbox,
           poll' \in PollTypes, poll'.announced = 0 \/ poll'.announced \in {poll.announced, marker.gen},
           \/ poll'.at \in {"idle", "resume", "fresh"}
           \/ poll'.at = "lines" /\ poll'.offset = 0
    PROVE  FeedInv'
<1>1. FeedTypes'
  BY FeedBesideTheLog DEF FeedTypes
<1>2. CASE unmarked
  BY <1>1, <1>2, FeedBesideTheLog DEF FeedInv, NoneAhead, ScannedIsReceived
<1>3. CASE ~unmarked
  <2>1. /\ poll.announced <= marker.gen /\ marker.gen \in Nat
        /\ \A g \in Generations : g > marker.gen => scan[g] <= foreign[g]
    BY <1>3, FeedBesideTheLog DEF NoneAhead
  <2>2. marker.gen \in Generations /\ poll'.gen \in Generations
    BY <1>3, FeedBesideTheLog DEF PollTypes
  <2>3. \A g \in Generations : foreign[g] \in Nat /\ scan[g] \in Int
    BY FeedBesideTheLog DEF FeedTypes, Offsets, Missing
  <2>4. Reading' \/ Begun' => poll'.offset = 0
    BY DEF Reading, Begun
  <2>5. NoneAhead'
    <3>1. poll'.announced <= marker.gen
      BY <2>1
    <3>2. Reading' => poll'.offset <= foreign[poll'.gen]
      BY <2>2, <2>3, <2>4
    <3>3. QED
      BY <2>1, <3>1, <3>2, FeedBesideTheLog DEF NoneAhead
  <2>6. ASSUME ~Midway PROVE /\ Taken(foreign[marker.gen], scan[marker.gen])'
                             /\ Begun' => Taken(foreign[marker.gen], poll.offset)'
    <3>1. PICK b \in Nat : b = foreign[marker.gen]
      BY <2>2, <2>3
    <3>2. PICK n \in Int : n = scan[marker.gen]
      BY <2>2, <2>3
    <3>3. Taken(b, n)
      BY <1>3, <2>6, <3>1, <3>2, FeedBesideTheLog DEF ScannedIsReceived
    <3>4. Taken(b, n)' /\ Taken(b, 0)'
      BY <3>3, TakenStays, ForeignIsTaken
    <3>5. b = foreign'[marker'.gen] /\ n = scan'[marker'.gen]
      BY <3>1, <3>2, FeedBesideTheLog
    <3>6. QED
      BY <2>4, <3>4, <3>5 DEF Taken, Received
  <2>7. QED
    BY <1>1, <2>5, <2>6, FeedBesideTheLog DEF FeedInv, ScannedIsReceived
<1>4. QED
  BY <1>2, <1>3

\* Without a cursor of its own a generation begins at one that is foreign to it.
LEMMA ResumesWithin ==
    ASSUME FeedTypes, NEW g \in Generations, NEW size \in Nat, Resume(g, size) # Missing
    PROVE  /\ Resume(g, size) \in Nat
           /\ Fits(scan[g], size) => Resume(g, size) = scan[g]
           /\ ~Fits(scan[g], size) => Resume(g, size) <= ForeignReach(g, size)
<1> DEFINE S == {foreign[g], committed[g]}
                  \cup {c \in {scan[h] : h \in Generations} \cup {last, host} : Fits(c, size)}
           top == size + foreign[g] + committed[g]
<1>1. foreign[g] \in Nat /\ committed[g] \in Nat /\ top \in Nat
  BY DEF FeedTypes
<1>2. S \in SUBSET Nat /\ S # {} /\ \A c \in S : c <= top
  BY <1>1 DEF FeedTypes, Offsets, Fits
<1>3. \A c \in S : c <= ForeignReach(g, size)
  <2> HIDE DEF S, top
  <2>1. \A c \in S : c <= Max(S)
    BY <1>1, <1>2, GreatestOf
  <2>2. QED
    BY <2>1 DEF ForeignReach, S
<1>4. Furthest(size) # Missing => Furthest(size) \in S /\ Furthest(size) \in Nat
  <2> DEFINE F == {c \in {scan[h] : h \in Generations} \cup {host} : Fits(c, size)}
  <2>1. F \in SUBSET Nat /\ (\A c \in F : c <= size) /\ F \subseteq S
    BY DEF FeedTypes, Offsets, Fits
  <2>2. F # {} => Max(F) \in F
    <3> HIDE DEF F
    <3>1. QED
      BY <2>1, GreatestOf
  <2>3. Furthest(size) = IF F = {} THEN Missing ELSE Max(F)
    BY DEF Furthest
  <2> HIDE DEF F, S
  <2>4. QED
    BY <2>1, <2>2, <2>3
<1>5. Fits(last, size) => last \in S /\ last \in Nat
  BY DEF FeedTypes, Offsets, Fits
<1>6. Fits(scan[g], size) => scan[g] \in Nat
  BY DEF FeedTypes, Offsets, Fits
<1> HIDE DEF S
<1>7. QED
  BY <1>3, <1>4, <1>5, <1>6 DEF Resume

LEMMA ReachIsOffset ==
    ASSUME FeedTypes, NEW g \in Generations, NEW size \in Nat
    PROVE  /\ ForeignReach(g, size) \in Nat
           /\ foreign[g] <= ForeignReach(g, size) /\ committed[g] <= ForeignReach(g, size)
<1> DEFINE S == {foreign[g], committed[g]}
                  \cup {c \in {scan[h] : h \in Generations} \cup {last, host} : Fits(c, size)}
           top == size + foreign[g] + committed[g]
<1>1. foreign[g] \in Nat /\ committed[g] \in Nat /\ top \in Nat
  BY DEF FeedTypes
<1>2. S \in SUBSET Nat /\ S # {} /\ foreign[g] \in S /\ committed[g] \in S /\ \A c \in S : c <= top
  BY <1>1 DEF FeedTypes, Offsets, Fits
<1> HIDE DEF S, top
<1>3. Max(S) \in Nat /\ \A c \in S : c <= Max(S)
  BY <1>1, <1>2, GreatestOf
<1>4. QED
  BY <1>2, <1>3 DEF ForeignReach, S

\* A poll resumes at the generation's own cursor or at one that is foreign to it.
LEMMA PollResumeKeepsFeed == ASSUME FeedInv, PollResume, UNCHANGED lvars PROVE FeedInv'
<1> DEFINE g       == poll.announced
           size    == Len(text)
           resumed == Resume(g, size)
           offset  == IF resumed = Missing THEN committed[g] ELSE resumed
<1>1. /\ scan' = [scan EXCEPT ![g] = offset]
      /\ foreign' = IF Fits(scan[g], size) THEN foreign ELSE [foreign EXCEPT ![g] = ForeignReach(g, size)]
      /\ poll' = [poll EXCEPT !.at = "last", !.offset = offset, !.size = size]
      /\ UNCHANGED <<last, host, known, records, committed, inbox>> /\ poll.at = "resume"
  BY DEF PollResume
<1>2. FeedTypes /\ size \in Nat /\ g \in Generations /\ poll \in PollTypes
  BY FeedBesideTheLog DEF FeedTypes, PollTypes
<1>3. /\ offset \in Nat
      /\ Fits(scan[g], size) => offset = scan[g]
      /\ ~Fits(scan[g], size) => offset <= ForeignReach(g, size)
  <2>1. CASE resumed = Missing
    <3>1. committed[g] \in Nat /\ committed[g] <= ForeignReach(g, size)
      BY <1>2, ReachIsOffset DEF FeedTypes
    <3>2. ~Fits(scan[g], size)
      BY <2>1 DEF Resume, Fits
    <3>3. QED
      BY <2>1, <3>1, <3>2
  <2>2. CASE resumed # Missing
    BY <1>2, <2>2, ResumesWithin
  <2>3. QED
    BY <2>1, <2>2
<1>4. ForeignReach(g, size) \in Nat /\ foreign[g] <= ForeignReach(g, size) /\ foreign[g] \in Nat
  BY <1>2, ReachIsOffset DEF FeedTypes
<1> HIDE DEF g, size, resumed, offset
<1>5. /\ foreign' \in [Generations -> Nat] /\ \A h \in Generations : h # g => foreign'[h] = foreign[h]
      /\ offset <= foreign'[g] \/ (offset = scan[g] /\ foreign'[g] = foreign[g])
  <2>1. foreign \in [Generations -> Nat]
    BY <1>2 DEF FeedTypes
  <2>2. PICK n \in Nat : n = ForeignReach(g, size)
    BY <1>4
  <2>3. CASE Fits(scan[g], size)
    BY <1>1, <1>3, <2>1, <2>3
  <2>4. CASE ~Fits(scan[g], size)
    <3>1. foreign' = [foreign EXCEPT ![g] = n]
      BY <1>1, <2>2, <2>4
    <3>2. foreign'[g] = n
      BY <1>2, <2>1, <3>1
    <3>3. QED
      BY <1>2, <1>3, <2>1, <2>2, <2>4, <3>1, <3>2
  <2>5. QED
    BY <2>3, <2>4
<1>6. /\ poll' \in PollTypes /\ poll'.at = "last" /\ poll'.announced = g /\ poll'.offset = offset
      /\ scan' \in [Generations -> Offsets] /\ scan'[g] = offset
      /\ \A h \in Generations : h # g => scan'[h] = scan[h]
  <2>1. poll' \in PollTypes /\ poll'.at = "last" /\ poll'.announced = g /\ poll'.offset = offset
    BY <1>1, <1>2, <1>3 DEF PollTypes, g
  <2>2. scan \in [Generations -> Offsets] /\ offset \in Offsets
    BY <1>2, <1>3 DEF FeedTypes, Offsets
  <2>3. QED
    BY <1>1, <1>2, <2>1, <2>2
<1>7. FeedTypes'
  BY <1>1, <1>2, <1>5, <1>6 DEF FeedTypes
<1>8. CASE unmarked
  BY <1>7, <1>8, FeedBesideTheLog DEF FeedInv, NoneAhead, ScannedIsReceived
<1>9. CASE ~unmarked
  <2>1. /\ g <= marker.gen /\ marker.gen \in Generations /\ marker.gen \in Nat
        /\ \A h \in Generations : h > marker.gen => scan[h] <= foreign[h]
    BY <1>9, FeedBesideTheLog DEF NoneAhead, g
  <2>2. \A h \in Generations : h > marker.gen => h # g
    BY <1>2, <2>1 DEF Generations
  <2>3. NoneAhead'
    <3>1. \A h \in Generations : h > marker.gen => scan'[h] <= foreign'[h]
      BY <1>5, <1>6, <2>1, <2>2
    <3>2. ~Reading'
      BY <1>6 DEF Reading
    <3>3. QED
      BY <1>6, <2>1, <3>1, <3>2, FeedBesideTheLog DEF NoneAhead
  <2>4. ASSUME ~Midway PROVE /\ Taken(foreign[marker.gen], scan[marker.gen])'
                             /\ Begun' => Taken(foreign[marker.gen], poll.offset)'
    <3>1. PICK b \in Nat : b = foreign'[marker.gen]
      BY <1>5, <2>1
    <3>2. PICK n \in Int : n = scan'[marker.gen]
      BY <1>6, <2>1 DEF Offsets, Missing
    <3>3. n <= b \/ (b = foreign[marker.gen] /\ n = scan[marker.gen])
      BY <1>5, <1>6, <2>1, <3>1, <3>2
    <3>4. Taken(foreign[marker.gen], scan[marker.gen])
      BY <1>9, <2>4, FeedBesideTheLog DEF ScannedIsReceived
    <3>5. Taken(b, n)'
      <4>1. CASE n <= b
        BY <4>1, ForeignIsTaken
      <4>2. CASE b = foreign[marker.gen] /\ n = scan[marker.gen]
        <5>1. Taken(b, n)
          BY <3>4, <4>2
        <5>2. QED
          BY <1>1, <5>1, TakenStays
      <4>3. QED
        BY <3>3, <4>1, <4>2
    <3>6. Begun' => g = marker.gen
      BY <1>6, FeedBesideTheLog DEF Begun, Reading
    <3>7. /\ b = foreign'[marker'.gen] /\ n = scan'[marker'.gen]
          /\ g = marker.gen => n = poll'.offset
      BY <1>6, <3>1, <3>2, FeedBesideTheLog
    <3>8. QED
      BY <3>5, <3>6, <3>7 DEF Taken, Received
  <2>5. QED
    BY <1>7, <2>3, <2>4, FeedBesideTheLog DEF FeedInv, ScannedIsReceived
<1>10. QED
  BY <1>8, <1>9

\* A step from one place of a poll to another with the same cursor.
LEMMA PollMovesKeepsFeed ==
    ASSUME FeedInv, UNCHANGED lvars, UNCHANGED <<scan, host, known, records, inbox, foreign>>,
           last' \in Offsets, committed' \in [Generations -> Nat],
           poll' \in PollTypes, poll'.at = "lines", poll'.offset = poll.offset,
           \/ poll.at = "last" /\ poll'.gen = poll.announced
           \/ poll.at = "taken" /\ poll'.gen = poll.gen,
           poll'.announced \in {0, poll.announced}
    PROVE  FeedInv'
<1>1. FeedTypes'
  BY FeedBesideTheLog DEF FeedTypes
<1>2. CASE unmarked
  BY <1>1, <1>2, FeedBesideTheLog DEF FeedInv, NoneAhead, ScannedIsReceived
<1>3. CASE ~unmarked
  <2>1. /\ poll.announced <= marker.gen /\ marker.gen \in Nat /\ marker.gen \in Generations
        /\ \A g \in Generations : g > marker.gen => scan[g] <= foreign[g]
        /\ Reading /\ poll.gen > marker.gen => poll.offset <= foreign[poll.gen]
    BY <1>3, FeedBesideTheLog DEF NoneAhead
  <2>2. /\ poll.announced \in Int
        /\ \A g \in Generations : foreign[g] \in Nat /\ scan[g] \in Int
    <3>1. poll \in PollTypes /\ Generations \subseteq Int
      BY FeedBesideTheLog DEF FeedTypes, Generations
    <3>2. \A g \in Generations : foreign[g] \in Nat /\ scan[g] \in Int
      BY FeedBesideTheLog DEF FeedTypes, Offsets, Missing
    <3>3. QED
      BY <3>1, <3>2 DEF PollTypes
  <2>3. Begun' => Begun
    BY FeedBesideTheLog DEF Begun, Reading
  <2>4. NoneAhead'
    <3>1. poll'.announced <= marker.gen
      BY <2>1
    <3>2. poll'.gen > marker.gen => poll'.offset <= foreign[poll'.gen]
      BY <2>1, <2>2 DEF Reading
    <3>3. QED
      BY <2>1, <3>1, <3>2, FeedBesideTheLog DEF NoneAhead
  <2>5. ASSUME ~Midway PROVE /\ Taken(foreign[marker.gen], scan[marker.gen])'
                             /\ Begun' => Taken(foreign[marker.gen], poll.offset)'
    <3>1. PICK b \in Nat : b = foreign[marker.gen]
      BY <2>1, <2>2
    <3>2. PICK n \in Int : n = scan[marker.gen]
      BY <2>1, <2>2
    <3>3. PICK k : k = poll.offset
      OBVIOUS
    <3>4. Taken(b, n) /\ (Begun => Taken(b, k))
      BY <1>3, <2>5, <3>1, <3>2, <3>3, FeedBesideTheLog DEF ScannedIsReceived
    <3>5. Taken(b, n)' /\ (Begun => Taken(b, k)')
      BY <3>4, TakenStays
    <3>6. b = foreign'[marker'.gen] /\ n = scan'[marker'.gen] /\ k = poll'.offset
      BY <3>1, <3>2, <3>3, FeedBesideTheLog
    <3>7. QED
      BY <2>3, <3>5, <3>6 DEF Taken, Received
  <2>6. QED
    BY <1>1, <2>4, <2>5, FeedBesideTheLog DEF FeedInv, ScannedIsReceived
<1>4. QED
  BY <1>2, <1>3

\* A line is taken with the cursor that goes past it.
LEMMA PollLineKeepsFeed == ASSUME FeedInv, PollLine, UNCHANGED lvars PROVE FeedInv'
<1> DEFINE e   == EventIn[text[poll.offset + 1]]
           g   == poll.gen
           end == poll.offset + 1
           r   == [gen |-> g, start |-> poll.offset, event |-> e,
                   done |-> e = NoEvent \/ inbox[e].status = "done"]
<1>1. /\ inbox' = IF e = NoEvent \/ inbox[e].status # "none" THEN inbox
                  ELSE [inbox EXCEPT ![e] = [status |-> "pending", gen |-> g]]
      /\ records' = IF \E q \in records : q.gen = g /\ q.start = r.start THEN records
                    ELSE records \cup {r}
      /\ scan' = [scan EXCEPT ![g] = end]
      /\ foreign' = IF g > marker.gen THEN [foreign EXCEPT ![g] = Max({@, end})] ELSE foreign
      /\ poll' = [poll EXCEPT !.at = "taken", !.offset = end]
      /\ UNCHANGED <<last, host, known, committed>>
      /\ poll.at = "lines" /\ poll.offset < Len(text)
  BY DEF PollLine
<1> HIDE DEF r
<1>2. /\ FeedTypes /\ g \in Generations /\ end \in Nat /\ poll.offset \in Nat
      /\ poll \in PollTypes
      /\ end = poll.offset + 1 /\ end \in 1..Len(text)
  <2>1. FeedTypes /\ Len(text) \in Nat
    BY FeedBesideTheLog
  <2>2. poll \in PollTypes
    BY <2>1 DEF FeedTypes
  <2>3. QED
    BY <1>1, <2>1, <2>2 DEF PollTypes
<1>3. text[end] \in Lines /\ (e # NoEvent => e \in EventIds) /\ e = EventIn[text[end]]
  <2>1. text[end] \in Lines
    BY <1>2, FeedBesideTheLog
  <2>2. QED
    BY <2>1 DEF EventIds
<1> HIDE DEF e, g, end
<1>4. inbox \in [EventIds -> [status : {"none", "pending", "done"}, gen : Generations]]
  BY <1>2 DEF FeedTypes
<1>5. /\ inbox' \in [EventIds -> [status : {"none", "pending", "done"}, gen : Generations]]
      /\ \A x \in EventIds : inbox[x].status # "none" => inbox'[x].status # "none"
      /\ e # NoEvent => inbox'[e].status # "none"
  <2>1. CASE e = NoEvent \/ inbox[e].status # "none"
    BY <1>1, <1>4, <2>1
  <2>2. CASE ~(e = NoEvent \/ inbox[e].status # "none")
    <3> DEFINE row == [status |-> "pending", gen |-> g]
    <3>1. row \in [status : {"none", "pending", "done"}, gen : Generations] /\ row.status # "none"
      BY <1>2
    <3>2. inbox' = [inbox EXCEPT ![e] = row] /\ e \in EventIds
      BY <1>1, <1>3, <2>2
    <3> HIDE DEF row
    <3>3. QED
      BY <1>4, <3>1, <3>2
  <2>3. QED
    BY <2>1, <2>2
<1>6. /\ foreign' \in [Generations -> Nat]
      /\ \A h \in Generations : h # g \/ ~(g > marker.gen) => foreign'[h] = foreign[h]
      /\ g > marker.gen => end <= foreign'[g]
  <2>1. foreign \in [Generations -> Nat] /\ foreign[g] \in Nat
    BY <1>2 DEF FeedTypes
  <2>2. PICK n \in Nat : n = Max({foreign[g], end}) /\ end <= n
    BY <1>2, <2>1, LongerOf
  <2>3. foreign' = IF g > marker.gen THEN [foreign EXCEPT ![g] = n] ELSE foreign
    BY <1>1, <2>2
  <2>4. QED
    BY <1>2, <2>1, <2>2, <2>3
<1>7. /\ poll' \in PollTypes /\ poll'.at = "taken" /\ poll'.gen = g /\ poll'.offset = end
      /\ poll'.announced = poll.announced
      /\ scan' \in [Generations -> Offsets] /\ scan'[g] = end
      /\ \A h \in Generations : h # g => scan'[h] = scan[h]
  <2>1. poll' \in PollTypes /\ poll'.at = "taken" /\ poll'.gen = g /\ poll'.offset = end
        /\ poll'.announced = poll.announced
    BY <1>1, <1>2 DEF g, PollTypes
  <2>2. scan \in [Generations -> Offsets] /\ end \in Offsets
    BY <1>2 DEF FeedTypes, Offsets
  <2>3. QED
    BY <1>1, <1>2, <2>1, <2>2
<1>8. FeedTypes'
  <2>1. IsFiniteSet(records')
    <3>1. IsFiniteSet(records)
      BY <1>2 DEF FeedTypes
    <3>2. records' = records \/ records' = records \cup {r}
      BY <1>1
    <3>3. QED
      BY <3>1, <3>2, FS_AddElement
  <2>2. QED
    BY <1>1, <1>2, <1>5, <1>6, <1>7, <2>1 DEF FeedTypes
<1>9. CASE unmarked
  BY <1>8, <1>9, FeedBesideTheLog DEF FeedInv, NoneAhead, ScannedIsReceived
<1>10. CASE ~unmarked
  <2>1. /\ poll.announced <= marker.gen /\ marker.gen \in Generations /\ marker.gen \in Nat
        /\ \A h \in Generations : h > marker.gen => scan[h] <= foreign[h]
    BY <1>10, FeedBesideTheLog DEF NoneAhead
  <2>2. NoneAhead'
    <3>1. \A h \in Generations : h > marker.gen => scan'[h] <= foreign'[h]
      BY <1>6, <1>7, <2>1
    <3>2. QED
      BY <1>6, <1>7, <2>1, <3>1, FeedBesideTheLog DEF NoneAhead
  <2>3. g = marker.gen => Begun
    BY <1>1 DEF Begun, Reading, g
  <2>4. Begun' => g = marker.gen
    BY <1>7, FeedBesideTheLog DEF Begun, Reading
  <2>5. g = marker.gen => ~(g > marker.gen)
    BY <2>1
  <2>6. ASSUME ~Midway PROVE /\ Taken(foreign[marker.gen], scan[marker.gen])'
                             /\ Begun' => Taken(foreign[marker.gen], poll.offset)'
    <3>1. PICK b \in Nat : b = foreign[marker.gen]
      BY <1>2, <2>1 DEF FeedTypes
    <3>2. Taken(b, scan[marker.gen]) /\ (g = marker.gen => Taken(b, poll.offset))
      BY <1>10, <2>3, <2>6, <3>1, FeedBesideTheLog DEF ScannedIsReceived
    <3>3. b = foreign'[marker'.gen]
      BY <1>6, <2>1, <2>5, <3>1, FeedBesideTheLog
    <3>4. CASE g # marker.gen
      <4>1. PICK n : n = scan[marker.gen] /\ n = scan'[marker'.gen]
        BY <1>7, <2>1, <3>4, FeedBesideTheLog
      <4>2. Taken(b, n)'
        BY <1>5, <3>2, <4>1, TakenStays
      <4>3. QED
        BY <2>4, <3>3, <3>4, <4>1, <4>2 DEF Taken, Received
    <3>5. CASE g = marker.gen
      <4>1. PICK n \in Nat : n = end
        BY <1>2
      <4>2. n = scan'[marker'.gen] /\ n = poll'.offset /\ n <= Len(text)
        BY <1>2, <1>7, <3>5, <4>1, FeedBesideTheLog
      <4>3. PICK k \in Nat : k = poll.offset /\ n = k + 1 /\ Taken(b, k)'
        BY <1>2, <1>5, <3>2, <3>5, <4>1, TakenStays
      <4>4. PICK l \in Lines : l = text[n] /\ l = text'[n]
        BY <1>3, <4>1, FeedBesideTheLog
      <4>5. Received(l)'
        BY <1>3, <1>5, <4>1, <4>4 DEF Received
      <4>6. \A i \in DOMAIN text : i <= n => i <= k \/ i = n
        BY <4>3, FeedBesideTheLog
      <4>7. Taken(b, n)'
        <5>1. ASSUME NEW i \in DOMAIN text', b < i, i <= n PROVE Received(text[i])'
          <6>1. i <= k \/ i = n
            BY <4>6, <5>1, FeedBesideTheLog
          <6>2. QED
            BY <4>3, <4>4, <4>5, <5>1, <6>1 DEF Taken
        <5>2. QED
          BY <4>2, <5>1, FeedBesideTheLog DEF Taken
      <4>8. QED
        BY <3>3, <4>2, <4>7 DEF Taken, Received
    <3>6. QED
      BY <3>4, <3>5
  <2>7. QED
    BY <1>8, <2>2, <2>6, FeedBesideTheLog DEF FeedInv, ScannedIsReceived
<1>11. QED
  BY <1>9, <1>10

LEMMA CompleteKeepsFeed ==
    ASSUME FeedInv, NEW e \in EventIds, Complete(e), UNCHANGED lvars
    PROVE  FeedInv'
<1> DEFINE finished(r) == IF r.event = e /\ r.gen = inbox[e].gen THEN [r EXCEPT !.done = TRUE] ELSE r
           h == inbox[e].gen
<1>1. /\ inbox[e].status = "pending"
      /\ inbox' = [inbox EXCEPT ![e].status = "done"]
      /\ records' = {finished(r) : r \in records}
      /\ poll' = [NoPoll EXCEPT !.at = "completed", !.gen = h]
      /\ UNCHANGED <<scan, last, host, known, committed, foreign>>
  BY DEF Complete, cursors
<1>2. FeedTypes /\ inbox \in [EventIds -> [status : {"none", "pending", "done"}, gen : Generations]]
  BY FeedBesideTheLog DEF FeedTypes
<1>3. /\ inbox' \in [EventIds -> [status : {"none", "pending", "done"}, gen : Generations]]
      /\ \A x \in EventIds : inbox[x].status # "none" => inbox'[x].status # "none"
      /\ h \in Generations
  BY <1>1, <1>2
<1>4. IsFiniteSet(records')
  <2> DEFINE f == [r \in records |-> finished(r)]
             image == {finished(r) : r \in records}
  <2>1. f \in Surjection(records, image)
    BY DEF Surjection
  <2>2. IsFiniteSet(records)
    BY <1>2 DEF FeedTypes
  <2> HIDE DEF f, finished
  <2>3. IsFiniteSet(image)
    <3> HIDE DEF image
    <3>1. QED
      BY <2>1, <2>2, FS_Surjection
  <2>4. QED
    BY <1>1, <2>3
<1> HIDE DEF h, finished
<1>5. poll' \in PollTypes /\ poll'.at = "completed" /\ poll'.announced = 0
  <2>1. poll' = [at |-> "completed", announced |-> 0, former |-> 0, gen |-> h, offset |-> 0, size |-> 0]
    BY <1>1 DEF NoPoll
  <2>2. 0 \in Generations
    BY LogAssumption, FeedAssumption DEF Generations
  <2>3. QED
    BY <1>3, <2>1, <2>2 DEF PollTypes
<1>6. FeedTypes'
  BY <1>1, <1>2, <1>3, <1>4, <1>5 DEF FeedTypes
<1>7. ~Reading' /\ ~Begun'
  BY <1>5 DEF Reading, Begun
<1>8. CASE unmarked
  BY <1>6, <1>8, FeedBesideTheLog DEF FeedInv, NoneAhead, ScannedIsReceived
<1>9. CASE ~unmarked
  <2>1. NoneAhead'
    BY <1>1, <1>5, <1>7, <1>9, FeedBesideTheLog DEF NoneAhead
  <2>2. ASSUME ~Midway PROVE Taken(foreign[marker.gen], scan[marker.gen])'
    <3>1. PICK b, n : b = foreign[marker.gen] /\ n = scan[marker.gen]
      OBVIOUS
    <3>2. Taken(b, n)'
      BY <1>3, <1>9, <2>2, <3>1, TakenStays, FeedBesideTheLog DEF ScannedIsReceived
    <3>3. b = foreign'[marker'.gen] /\ n = scan'[marker'.gen]
      BY <1>1, <3>1, FeedBesideTheLog
    <3>4. QED
      BY <3>2, <3>3 DEF Taken, Received
  <2>3. QED
    BY <1>6, <1>7, <2>1, <2>2, FeedBesideTheLog DEF FeedInv, ScannedIsReceived
<1>10. QED
  BY <1>8, <1>9

\* The steps that take nothing: what they leave of the poll.
LEMMA PlainStepsKeepFeed ==
    ASSUME FeedInv, UNCHANGED lvars,
           PollMarker \/ PollLast \/ PollFresh \/ Advance \/ PollEnds \/ PollStops
    PROVE  FeedInv'
<1>1. /\ FeedTypes /\ poll \in PollTypes /\ marker.gen \in Nat /\ 0 \in Generations
      /\ known \in Offsets /\ last \in Offsets /\ committed \in [Generations -> Nat]
      /\ IsFiniteSet(records)
  BY FeedBesideTheLog, LogAssumption, FeedAssumption DEF FeedTypes, Generations
<1>2. /\ poll.announced \in Generations /\ poll.former \in Nat /\ poll.gen \in Generations
      /\ poll.offset \in Nat /\ poll.size \in Nat
  BY <1>1 DEF PollTypes
<1>3. Generations \subseteq Nat
  BY DEF Generations
<1>4. CASE PollMarker
  <2>1. PICK former \in Nat : former = IF known = Missing THEN marker.gen ELSE known
    BY <1>1 DEF Offsets
  <2>2. poll' = [at |-> "resume", announced |-> marker.gen, former |-> former, gen |-> 0, offset |-> 0,
                 size |-> 0]
        /\ marker.gen \in Generations /\ known' \in {marker.gen, known}
        /\ UNCHANGED <<scan, last, host, records, committed, inbox, foreign>>
    BY <1>4, <2>1 DEF PollMarker, NoPoll
  <2>3. poll' \in PollTypes
    BY <1>1, <2>1, <2>2 DEF PollTypes
  <2>4. known' \in Offsets
    BY <1>1, <2>2 DEF Offsets
  <2>5. QED
    BY <1>1, <2>2, <2>3, <2>4, PollSetKeepsFeed
<1>5. CASE PollFresh
  <2>1. PICK gen \in Generations :
           /\ known' = gen
           /\ poll' = [at |-> "lines", announced |-> 0, former |-> 0, gen |-> gen, offset |-> 0, size |-> 0]
    BY <1>5 DEF PollFresh, ReadsFrom, NoPoll
  <2>2. UNCHANGED <<scan, last, host, records, committed, inbox, foreign>>
    BY <1>5 DEF PollFresh
  <2>3. poll' \in PollTypes
    BY <1>1, <2>1 DEF PollTypes
  <2>4. known' \in Offsets
    BY <1>3, <2>1 DEF Offsets
  <2>5. QED
    BY <1>1, <2>1, <2>2, <2>3, <2>4, PollSetKeepsFeed
<1>6. CASE PollLast
  <2>1. /\ poll.at = "last" /\ last' = poll.offset /\ last' \in Offsets
        /\ UNCHANGED <<scan, host, known, records, committed, inbox, foreign>>
    BY <1>2, <1>6 DEF PollLast, Offsets
  <2>2. CASE poll.offset > poll.size
    <3>1. poll' = [poll EXCEPT !.at = "fresh"]
      BY <1>6, <2>2 DEF PollLast
    <3>2. poll' \in PollTypes /\ poll'.at = "fresh" /\ poll'.announced = poll.announced
      BY <1>1, <3>1 DEF PollTypes
    <3>3. QED
      BY <1>1, <2>1, <3>2, PollSetKeepsFeed
  <2>3. CASE ~(poll.offset > poll.size)
    <3>1. poll' = [at |-> "lines", announced |-> 0, former |-> 0, gen |-> poll.announced,
                   offset |-> poll.offset, size |-> 0]
      BY <1>6, <2>3 DEF PollLast, ReadsFrom, NoPoll
    <3>2. poll' \in PollTypes
      BY <1>1, <1>2, <3>1 DEF PollTypes
    <3>3. QED
      BY <1>1, <2>1, <3>1, <3>2, PollMovesKeepsFeed
  <2>4. QED
    BY <2>2, <2>3
<1>7. CASE Advance
  <2>1. /\ poll.at \in {"taken", "completed"}
        /\ committed' = [committed EXCEPT ![poll.gen] = Advanced(records, poll.gen, @)]
        /\ poll' = IF poll.at = "taken" THEN [poll EXCEPT !.at = "lines"] ELSE NoPoll
        /\ UNCHANGED <<scan, last, host, known, records, inbox, foreign>>
    BY <1>7 DEF Advance, cursors
  <2>2. PICK n \in Nat : n = Advanced(records, poll.gen, committed[poll.gen])
    BY <1>1, <1>2, AdvancedIsOffset
  <2>3. committed' \in [Generations -> Nat]
    BY <1>1, <1>2, <2>1, <2>2
  <2>4. CASE poll.at = "taken"
    <3>1. poll' \in PollTypes /\ poll'.at = "lines" /\ poll'.offset = poll.offset /\ poll'.gen = poll.gen
          /\ poll'.announced = poll.announced
      BY <1>1, <2>1, <2>4 DEF PollTypes
    <3>2. QED
      BY <1>1, <2>1, <2>3, <2>4, <3>1, PollMovesKeepsFeed
  <2>5. CASE poll.at = "completed"
    <3>1. poll' = [at |-> "idle", announced |-> 0, former |-> 0, gen |-> 0, offset |-> 0, size |-> 0]
      BY <2>1, <2>5 DEF NoPoll
    <3>2. poll' \in PollTypes
      BY <1>1, <3>1 DEF PollTypes
    <3>3. QED
      BY <1>1, <2>1, <2>3, <3>1, <3>2, PollSetKeepsFeed
  <2>6. QED
    BY <2>1, <2>4, <2>5
<1>8. CASE PollEnds \/ PollStops
  <2>1. poll' = [at |-> "idle", announced |-> 0, former |-> 0, gen |-> 0, offset |-> 0, size |-> 0]
        /\ UNCHANGED <<scan, last, host, known, records, committed, inbox, foreign>>
    BY <1>8 DEF PollEnds, PollStops, NoPoll, cursors
  <2>2. poll' \in PollTypes
    BY <1>1, <2>1 DEF PollTypes
  <2>3. QED
    BY <1>1, <2>1, <2>2, PollSetKeepsFeed
<1>9. QED
  BY <1>4, <1>5, <1>6, <1>7, <1>8

LEMMA FeedStep ==
    ASSUME FeedInv, [\/ LogNext(TRUE) /\ UNCHANGED svars
                     \/ FeedNext /\ UNCHANGED lvars]_<<lvars, svars>>
    PROVE  FeedInv'
<1>1. CASE LogNext(TRUE) /\ UNCHANGED svars
  BY <1>1, WriterKeepsFeed
<1>2. CASE UNCHANGED <<lvars, svars>>
  BY <1>2, WriterKeepsFeed
<1>3. CASE FeedNext /\ UNCHANGED lvars
  BY <1>3, PollResumeKeepsFeed, PollLineKeepsFeed, CompleteKeepsFeed, PlainStepsKeepFeed DEF FeedNext
<1>4. QED
  BY <1>1, <1>2, <1>3

\* No line of the sidecar's file is skipped between the cursor its generation was begun at
\* and the cursor that the generation has, for any number of lines, events, days, failures and
\* polls, wherever in a rotation the polls begin and end and between which commits the process
\* ends: a poll that read the marker before a rotation reads on under the generation that is
\* over.  Lines before a cursor that is foreign to the generation may be lost, and so may any
\* line once a rotation ended without its marker (_sidecar_resume_offset, sidecar_events,
\* enqueue_sidecar_line).
THEOREM StreamIsTaken == FeedSpec => []NothingSkipped
<1>1. FeedInv => NothingSkipped
  <2> SUFFICES ASSUME FeedInv, ~unmarked, NEW i \in DOMAIN text,
                      foreign[marker.gen] < i, i <= scan[marker.gen]
               PROVE  Received(text[i])
    BY DEF NothingSkipped, Received
  <2>1. LogInv(TRUE) /\ ScannedIsReceived
    BY DEF FeedInv
  <2>2. ~Midway
    BY <2>1 DEF LogInv, InGeneration
  <2>3. QED
    BY <2>1, <2>2 DEF ScannedIsReceived, Taken
<1>2. QED
  BY <1>1, FeedInitially, FeedStep, PTL DEF FeedSpec

-----------------------------------------------------------------------------
(* Performance.  Sums of sequences and what follows from their recursion.  *)

LEMMA RunningSums ==
    ASSUME NEW v
    PROVE  /\ RunningSum(v)[0] = 0
           /\ \A n \in Nat : RunningSum(v)[n + 1] = RunningSum(v)[n] + v[n + 1]
<1> DEFINE Upto(k) == 0..k
           Approx(g, k) == g = [n \in 0..k |-> IF n = 0 THEN 0 ELSE g[n - 1] + v[n]]
           Bad == {k \in Nat : ~\E g : Approx(g, k)}
<1>1. Bad = {}
  <2>1. SUFFICES ASSUME Bad # {} PROVE FALSE
    OBVIOUS
  <2>2. PICK k \in Bad : \A m \in Bad : k <= m
    <3>1. Bad \subseteq Nat
      OBVIOUS
    <3> HIDE DEF Bad
    <3>2. QED
      BY <2>1, <3>1, LeastNatural
  <2>3. CASE k = 0
    <3> DEFINE g == [n \in 0..0 |-> 0]
    <3>1. Approx(g, 0)
      OBVIOUS
    <3>2. QED
      BY <3>1, <2>2, <2>3
  <2>4. CASE k # 0
    <3>1. k \in Nat /\ k - 1 \in Nat /\ k - 1 \notin Bad
      <4>1. k \in Nat
        OBVIOUS
      <4> HIDE DEF Bad
      <4>2. QED
        BY <4>1, <2>2, <2>4
    <3>2. PICK h : Approx(h, k - 1)
      BY <3>1
    <3> DEFINE g == [n \in 0..k |-> IF n = k THEN h[k - 1] + v[k] ELSE h[n]]
    <3>3. \A n \in 0..k : g[n] = IF n = 0 THEN 0 ELSE g[n - 1] + v[n]
      <4>1. \A n \in 0..(k - 1) : h[n] = IF n = 0 THEN 0 ELSE h[n - 1] + v[n]
        BY <3>2
      <4>2. \A n \in 0..k : g[n] = IF n = k THEN h[k - 1] + v[k] ELSE h[n]
        OBVIOUS
      <4> HIDE DEF g
      <4>3. QED
        BY <4>1, <4>2, <3>1, <2>4
    <3>4. g = [n \in 0..k |-> g[n]]
      OBVIOUS
    <3>5. Approx(g, k)
      <4> HIDE DEF g
      <4>1. QED
        BY <3>3, <3>4
    <3>6. QED
      BY <3>5, <2>2
  <2>5. QED
    BY <2>3, <2>4
<1>2. ASSUME NEW k \in Nat, NEW m \in Nat, NEW g, NEW h, Approx(g, k), Approx(h, m),
             NEW n \in Nat, n <= k, n <= m
      PROVE  g[n] = h[n]
  <2> DEFINE Apart == {i \in Nat : i <= k /\ i <= m /\ g[i] # h[i]}
  <2>1. SUFFICES ASSUME Apart # {} PROVE FALSE
    BY <1>2
  <2>2. PICK i \in Apart : \A j \in Apart : i <= j
    <3>1. Apart \subseteq Nat
      OBVIOUS
    <3> HIDE DEF Apart
    <3>2. QED
      BY <2>1, <3>1, LeastNatural
  <2>3. i \in 0..k /\ i \in 0..m
    BY <2>2
  <2>4. /\ g[i] = IF i = 0 THEN 0 ELSE g[i - 1] + v[i]
        /\ h[i] = IF i = 0 THEN 0 ELSE h[i - 1] + v[i]
    BY <1>2, <2>3
  <2>5. i # 0 => g[i - 1] = h[i - 1]
    BY <2>2
  <2>6. QED
    BY <2>2, <2>4, <2>5
<1> DEFINE f == [n \in Nat |-> (CHOOSE g : Approx(g, n))[n]]
<1>3. \A n \in Nat : Approx(CHOOSE g : Approx(g, n), n)
  BY <1>1
<1>4. \A n \in Nat : f[n] = IF n = 0 THEN 0 ELSE f[n - 1] + v[n]
  <2>1. SUFFICES ASSUME NEW n \in Nat PROVE f[n] = IF n = 0 THEN 0 ELSE f[n - 1] + v[n]
    OBVIOUS
  <2>2. PICK g : g = CHOOSE x : Approx(x, n)
    OBVIOUS
  <2>3. Approx(g, n) /\ f[n] = g[n]
    BY <2>2, <1>3
  <2>4. g[n] = IF n = 0 THEN 0 ELSE g[n - 1] + v[n]
    BY <2>3
  <2>5. CASE n = 0
    BY <2>3, <2>4, <2>5
  <2>6. CASE n # 0
    <3>1. n - 1 \in Nat
      BY <2>6
    <3>2. PICK h : h = CHOOSE x : Approx(x, n - 1)
      OBVIOUS
    <3>3. Approx(h, n - 1) /\ f[n - 1] = h[n - 1]
      BY <3>1, <3>2, <1>3
    <3>4. h[n - 1] = g[n - 1]
      <4> HIDE DEF Approx
      <4>1. QED
        BY <3>1, <3>3, <2>3, <1>2
    <3>5. QED
      BY <2>3, <2>4, <2>6, <3>3, <3>4
  <2>7. QED
    BY <2>5, <2>6
<1>5. f = [n \in Nat |-> IF n = 0 THEN 0 ELSE f[n - 1] + v[n]]
  BY <1>4
<1>6. RunningSum(v) = [n \in Nat |-> IF n = 0 THEN 0 ELSE RunningSum(v)[n - 1] + v[n]]
  <2>1. RunningSum(v) = CHOOSE r : r = [n \in Nat |-> IF n = 0 THEN 0 ELSE r[n - 1] + v[n]]
    BY DEF RunningSum
  <2> HIDE DEF f
  <2>2. QED
    BY <2>1, <1>5
<1>7. QED
  <2>1. \A n \in Nat : RunningSum(v)[n] = IF n = 0 THEN 0 ELSE RunningSum(v)[n - 1] + v[n]
    BY <1>6
  <2>2. QED
    BY <2>1

LEMMA UpTo ==
    ASSUME NEW N \in Nat, NEW S, 0 \in S, \A n \in 0..(N - 1) : n \in S => n + 1 \in S
    PROVE  \A n \in 0..N : n \in S
<1> DEFINE Bad == {n \in 0..N : n \notin S}
<1>1. SUFFICES ASSUME Bad # {} PROVE FALSE
  OBVIOUS
<1>2. PICK n \in Bad : \A m \in Bad : n <= m
  <2>1. Bad \subseteq Nat
    OBVIOUS
  <2> HIDE DEF Bad
  <2>2. QED
    BY <1>1, <2>1, LeastNatural
<1>3. n \in 0..N /\ n \notin S /\ n # 0
  BY <1>2
<1>4. n - 1 \in 0..N /\ n - 1 \in 0..(N - 1) /\ (n - 1) + 1 = n
  BY <1>3
<1>5. n - 1 \in S
  <2>1. n - 1 \notin Bad
    <3> HIDE DEF Bad
    <3>1. QED
      BY <1>2, <1>3
  <2>2. QED
    BY <2>1, <1>4
<1>6. QED
  BY <1>3, <1>4, <1>5

LEMMA SumsAreInt ==
    ASSUME NEW N \in Nat, NEW v, \A i \in 1..N : v[i] \in Int
    PROVE  \A n \in 0..N : RunningSum(v)[n] \in Int
<1> DEFINE S == {n \in 0..N : RunningSum(v)[n] \in Int}
<1>1. 0 \in S
  BY RunningSums
<1>2. ASSUME NEW n \in 0..(N - 1), n \in S PROVE n + 1 \in S
  BY <1>2, RunningSums
<1> HIDE DEF S
<1>3. \A n \in 0..N : n \in S
  BY <1>1, <1>2, UpTo
<1>4. QED
  BY <1>3 DEF S

LEMMA SumsAreNat ==
    ASSUME NEW N \in Nat, NEW v, \A i \in 1..N : v[i] \in Nat
    PROVE  /\ \A n \in 0..N : RunningSum(v)[n] \in Nat
           /\ \A n, m \in 0..N : n <= m => RunningSum(v)[n] <= RunningSum(v)[m]
<1> DEFINE S == {n \in 0..N : /\ RunningSum(v)[n] \in Nat
                             /\ \A m \in 0..n : RunningSum(v)[m] <= RunningSum(v)[n]}
<1>1. 0 \in S
  BY RunningSums
<1>2. ASSUME NEW n \in 0..(N - 1), n \in S PROVE n + 1 \in S
  <2>1. RunningSum(v)[n + 1] = RunningSum(v)[n] + v[n + 1] /\ v[n + 1] \in Nat
    BY RunningSums
  <2>2. RunningSum(v)[n + 1] \in Nat /\ RunningSum(v)[n] <= RunningSum(v)[n + 1]
    BY <1>2, <2>1
  <2>3. ASSUME NEW m \in 0..(n + 1) PROVE RunningSum(v)[m] <= RunningSum(v)[n + 1]
    <3>1. CASE m = n + 1
      BY <3>1, <2>2
    <3>2. CASE m # n + 1
      <4>1. m \in 0..n /\ m \in 0..N
        BY <3>2
      <4>2. RunningSum(v)[m] \in Int
        <5>1. \A i \in 1..N : v[i] \in Int
          OBVIOUS
        <5>2. QED
          BY <5>1, <4>1, SumsAreInt
      <4>3. QED
        BY <4>1, <4>2, <2>2, <1>2
    <3>3. QED
      BY <3>1, <3>2
  <2>4. QED
    BY <2>2, <2>3
<1> HIDE DEF S
<1>3. \A n \in 0..N : n \in S
  BY <1>1, <1>2, UpTo
<1>4. QED
  BY <1>3 DEF S

LEMMA SumsAreSame ==
    ASSUME NEW N \in Nat, NEW v, NEW w, \A i \in 1..N : v[i] = w[i]
    PROVE  \A n \in 0..N : RunningSum(v)[n] = RunningSum(w)[n]
<1> DEFINE S == {n \in 0..N : RunningSum(v)[n] = RunningSum(w)[n]}
<1>1. 0 \in S
  BY RunningSums
<1>2. ASSUME NEW n \in 0..(N - 1), n \in S PROVE n + 1 \in S
  BY <1>2, RunningSums
<1> HIDE DEF S
<1>3. \A n \in 0..N : n \in S
  BY <1>1, <1>2, UpTo
<1>4. QED
  BY <1>3 DEF S

Differences(x, y, N) == [i \in 1..N |-> x[i] - y[i]]

LEMMA SumOfDifferences ==
    ASSUME NEW N \in Nat, NEW x, NEW y, \A i \in 1..N : x[i] \in Int, \A i \in 1..N : y[i] \in Int
    PROVE  \A n \in 0..N : RunningSum(Differences(x, y, N))[n] = RunningSum(x)[n] - RunningSum(y)[n]
<1>1. PICK v : v = Differences(x, y, N)
  OBVIOUS
<1>2. \A i \in 1..N : x[i] \in Int /\ y[i] \in Int /\ v[i] = x[i] - y[i]
  BY <1>1 DEF Differences
<1> DEFINE S == {n \in 0..N : RunningSum(v)[n] = RunningSum(x)[n] - RunningSum(y)[n]}
<1>3. 0 \in S
  BY RunningSums
<1>4. ASSUME NEW n \in 0..(N - 1), n \in S PROVE n + 1 \in S
  <2>1. RunningSum(x)[n] \in Int /\ RunningSum(y)[n] \in Int
    BY <1>2, SumsAreInt
  <2>2. QED
    BY <1>4, <1>2, <2>1, RunningSums
<1> HIDE DEF S
<1>5. \A n \in 0..N : n \in S
  BY <1>3, <1>4, UpTo
<1>6. QED
  BY <1>1, <1>5 DEF S

-----------------------------------------------------------------------------
(* The units of the rows, in the order of the rows.                        *)

LEMMA RowOfUnit ==
    ASSUME NEW a, NEW N \in Nat, DOMAIN a = 1..N, \A i \in 1..N : a[i] \in Nat,
           NEW i \in 1..N, NEW u \in Nat, RunningSum(a)[i - 1] < u, u <= RunningSum(a)[i]
    PROVE  RowOf(a, u) = i
<1>1. ASSUME NEW j \in 1..N, RunningSum(a)[j - 1] < u, u <= RunningSum(a)[j] PROVE j = i
  <2>1. /\ i - 1 \in 0..N /\ j - 1 \in 0..N /\ i \in 0..N /\ j \in 0..N
    OBVIOUS
  <2>2. /\ \A n \in 0..N : RunningSum(a)[n] \in Nat
        /\ \A n, m \in 0..N : n <= m => RunningSum(a)[n] <= RunningSum(a)[m]
    BY SumsAreNat
  <2>3. ~(j <= i - 1) /\ ~(i <= j - 1)
    BY <1>1, <2>1, <2>2
  <2>4. QED
    BY <2>3
<1>2. QED
  BY <1>1 DEF RowOf

\* What each unit costs, or brings, that rows of these prices have.
Priced(a, p) == [u \in Nat |-> p[RowOf(a, u)]]

LEMMA UnitHasRow ==
    ASSUME NEW a, NEW N \in Nat, DOMAIN a = 1..N, \A i \in 1..N : a[i] \in Nat,
           NEW u \in 1..RunningSum(a)[N]
    PROVE  RowOf(a, u) \in 1..N
<1>1. \A n \in 0..N : RunningSum(a)[n] \in Nat
  BY SumsAreNat
<1> DEFINE T == {n \in Nat : n <= N /\ u <= RunningSum(a)[n]}
<1>2. PICK i \in T : \A m \in T : i <= m
  <2>1. N \in T /\ T \subseteq Nat
    BY <1>1
  <2> HIDE DEF T
  <2>2. QED
    BY <2>1, LeastNatural
<1>3. i # 0
  BY <1>2, RunningSums
<1>4. i \in 1..N /\ i - 1 \in 0..N /\ u <= RunningSum(a)[i]
  BY <1>2, <1>3
<1>5. i - 1 \notin T
  <2> HIDE DEF T
  <2>1. QED
    BY <1>2, <1>4
<1>6. RunningSum(a)[i - 1] < u
  BY <1>1, <1>4, <1>5
<1>7. u \in Nat
  BY <1>1
<1>8. RowOf(a, u) = i
  BY <1>4, <1>6, <1>7, RowOfUnit
<1>9. QED
  BY <1>4, <1>8

LEMMA PricesAreInt ==
    ASSUME NEW a, NEW N \in Nat, DOMAIN a = 1..N, NEW p \in [1..N -> Int],
           \A i \in 1..N : a[i] \in Nat,
           NEW u \in 1..RunningSum(a)[N]
    PROVE  Priced(a, p)[u] \in Int
<1>1. RowOf(a, u) \in 1..N
  BY UnitHasRow
<1>2. u \in Nat
  <2>1. N \in 0..N
    OBVIOUS
  <2>2. RunningSum(a)[N] \in Nat
    BY <2>1, SumsAreNat
  <2>3. QED
    BY <2>2
<1>3. QED
  BY <1>1, <1>2 DEF Priced

LEMMA OneMore ==
    ASSUME NEW x \in Int, NEW q \in Int
    PROVE  (x + 1) * q = x * q + q /\ x * q \in Int
OBVIOUS

\* The units of one row are all of its price.
LEMMA UnitsOfRow ==
    ASSUME NEW a, NEW N \in Nat, DOMAIN a = 1..N, NEW p \in [1..N -> Int],
           \A i \in 1..N : a[i] \in Nat,
           NEW i \in 1..N, NEW x \in 0..a[i]
    PROVE  RunningSum(Priced(a, p))[RunningSum(a)[i - 1] + x]
             = RunningSum(Priced(a, p))[RunningSum(a)[i - 1]] + x * p[i]
<1> DEFINE c == Priced(a, p)
           b == RunningSum(a)[i - 1]
           R == RunningSum(c)
           S == {y \in 0..a[i] : R[b + y] = R[b] + y * p[i]}
<1>1. /\ i - 1 \in 0..N /\ i \in 0..N /\ N \in 0..N /\ i <= N
      /\ \A n \in 0..N : RunningSum(a)[n] \in Nat
      /\ \A n, m \in 0..N : n <= m => RunningSum(a)[n] <= RunningSum(a)[m]
      /\ a[i] \in Nat /\ p[i] \in Int
  <2>1. i - 1 \in 0..N /\ i \in 0..N /\ N \in 0..N /\ i <= N
    OBVIOUS
  <2>2. /\ \A n \in 0..N : RunningSum(a)[n] \in Nat
        /\ \A n, m \in 0..N : n <= m => RunningSum(a)[n] <= RunningSum(a)[m]
    BY SumsAreNat
  <2>3. a[i] \in Nat /\ p[i] \in Int
    OBVIOUS
  <2>4. QED
    BY <2>1, <2>2, <2>3
<1>2. b \in Nat /\ RunningSum(a)[i] = b + a[i] /\ b + a[i] <= RunningSum(a)[N]
  <2>1. RunningSum(a)[i] = RunningSum(a)[i - 1] + a[i]
    <3>1. i - 1 \in Nat /\ (i - 1) + 1 = i
      BY <1>1
    <3>2. RunningSum(a)[(i - 1) + 1] = RunningSum(a)[i - 1] + a[(i - 1) + 1]
      BY <3>1, RunningSums
    <3>3. QED
      BY <3>1, <3>2
  <2>2. RunningSum(a)[i] <= RunningSum(a)[N]
    BY <1>1
  <2>3. QED
    BY <1>1, <2>1, <2>2
<1>3. R[b] \in Int
  <2>1. \A u \in 1..RunningSum(a)[N] : c[u] \in Int
    BY PricesAreInt
  <2>2. RunningSum(a)[N] \in Nat
    BY <1>1
  <2>3. b \in 0..RunningSum(a)[N]
    BY <1>1, <1>2
  <2> HIDE DEF c, b
  <2>4. QED
    BY <2>1, <2>2, <2>3, SumsAreInt
<1>4. 0 \in S
  BY <1>1, <1>2, <1>3
<1>5. ASSUME NEW y \in 0..(a[i] - 1), y \in S PROVE y + 1 \in S
  <2>1. R[(b + y) + 1] = R[b + y] + c[(b + y) + 1]
    <3>1. b + y \in Nat
      BY <1>2
    <3> HIDE DEF b, c
    <3>2. QED
      BY <3>1, RunningSums
  <2>2. c[(b + y) + 1] = p[i]
    <3>1. (b + y) + 1 \in Nat /\ RunningSum(a)[i - 1] < (b + y) + 1 /\ (b + y) + 1 <= RunningSum(a)[i]
      BY <1>1, <1>2
    <3>2. RowOf(a, (b + y) + 1) = i
      <4> HIDE DEF b
      <4>1. QED
        BY <3>1, RowOfUnit
    <3> HIDE DEF b
    <3>3. QED
      BY <3>1, <3>2 DEF Priced
  <2>3. R[b + y] = R[b] + y * p[i]
    BY <1>5
  <2>4. (b + y) + 1 = b + (y + 1) /\ (y + 1) * p[i] = y * p[i] + p[i] /\ y * p[i] \in Int
    <3>1. (b + y) + 1 = b + (y + 1)
      <4> HIDE DEF b
      <4>1. QED
        BY <1>2
    <3>2. PICK q \in Int : q = p[i]
      BY <1>1
    <3>3. (y + 1) * q = y * q + q /\ y * q \in Int
      BY OneMore
    <3>4. QED
      BY <3>1, <3>2, <3>3
  <2>5. R[b + (y + 1)] = R[b] + (y + 1) * p[i]
    <3> HIDE DEF R, b, c
    <3>1. QED
      BY <2>1, <2>2, <2>3, <2>4, <1>1, <1>3
  <2>6. y + 1 \in 0..a[i]
    BY <1>1
  <2>7. QED
    BY <2>5, <2>6
<1> HIDE DEF S
<1>6. \A y \in 0..a[i] : y \in S
  BY <1>1, <1>4, <1>5, UpTo
<1>7. QED
  BY <1>6 DEF S

-----------------------------------------------------------------------------
(* What is left of the lots when the units that were bought first are sold first.  *)

Positive(x) == IF x > 0 THEN x ELSE 0

\* What m units leave of the lots of the first n rows, if those bought a.
LeftOver(a, n, m) == [i \in DOMAIN a |-> IF i <= n THEN Portion(RunningSum(a)[i] - m, a[i]) ELSE 0]

LEMMA PortionAdds ==
    ASSUME NEW b \in Nat, NEW x \in Nat, NEW m \in Nat
    PROVE  /\ Positive(b - m) + Portion((b + x) - m, x) = Positive((b + x) - m)
           /\ Portion((b + x) - m, x) \in Nat
BY DEF Positive, Portion

LEMMA NextSum ==
    ASSUME NEW N \in Nat, NEW v, NEW i \in 1..N
    PROVE  RunningSum(v)[i] = RunningSum(v)[i - 1] + v[i] /\ i - 1 \in 0..N /\ i \in 0..N
<1>1. i - 1 \in Nat /\ (i - 1) + 1 = i
  OBVIOUS
<1>2. RunningSum(v)[(i - 1) + 1] = RunningSum(v)[i - 1] + v[(i - 1) + 1]
  BY <1>1, RunningSums
<1>3. QED
  BY <1>1, <1>2

LEMMA LotsLeft ==
    ASSUME NEW N \in Nat, NEW a, DOMAIN a = 1..N, \A i \in 1..N : a[i] \in Nat,
           NEW n \in 0..N, NEW m \in Nat
    PROVE  /\ LeftOver(a, n, m) \in [1..N -> Nat]
           /\ \A i \in 0..N : RunningSum(LeftOver(a, n, m))[i]
                                = Positive(RunningSum(a)[IF i <= n THEN i ELSE n] - m)
<1>1. \A i \in 0..N : RunningSum(a)[i] \in Nat
  BY SumsAreNat
<1>2. PICK l : l = LeftOver(a, n, m)
  OBVIOUS
<1>3. \A i \in 1..N : l[i] = IF i <= n THEN Portion(RunningSum(a)[i] - m, a[i]) ELSE 0
  BY <1>2 DEF LeftOver
<1>4. l \in [1..N -> Nat]
  <2>1. DOMAIN l = 1..N /\ l = [i \in 1..N |-> l[i]]
    BY <1>2 DEF LeftOver
  <2>2. \A i \in 1..N : l[i] \in Nat
    <3>1. SUFFICES ASSUME NEW i \in 1..N PROVE l[i] \in Nat
      OBVIOUS
    <3>2. RunningSum(a)[i] \in Nat /\ a[i] \in Nat
      BY <1>1
    <3>3. QED
      BY <3>2, <1>3 DEF Portion
  <2>3. QED
    BY <2>1, <2>2
<1> DEFINE S == {i \in 0..N : RunningSum(l)[i] = Positive(RunningSum(a)[IF i <= n THEN i ELSE n] - m)}
<1>5. 0 \in S
  <2>1. RunningSum(l)[0] = 0 /\ RunningSum(a)[0] = 0
    BY RunningSums
  <2>2. QED
    BY <2>1 DEF Positive
<1>6. ASSUME NEW i \in 0..(N - 1), i \in S PROVE i + 1 \in S
  <2>1. i \in Nat /\ i + 1 \in 1..N /\ i \in 0..N /\ i + 1 \in 0..N
    OBVIOUS
  <2>2. RunningSum(l)[i + 1] = RunningSum(l)[i] + l[i + 1]
    BY <2>1, RunningSums
  <2>3. RunningSum(a)[i + 1] = RunningSum(a)[i] + a[i + 1]
    BY <2>1, RunningSums
  <2>4. CASE i + 1 <= n
    <3>1. PICK b \in Nat : b = RunningSum(a)[i]
      BY <1>1, <2>1
    <3>2. PICK x \in Nat : x = a[i + 1]
      BY <2>1
    <3>3. l[i + 1] = Portion((b + x) - m, x)
      BY <1>3, <2>1, <2>3, <2>4, <3>1, <3>2
    <3>4. RunningSum(l)[i] = Positive(b - m)
      BY <1>6, <2>4, <3>1
    <3>5. RunningSum(l)[i + 1] = Positive((b + x) - m)
      <4>1. Positive(b - m) + Portion((b + x) - m, x) = Positive((b + x) - m)
        BY PortionAdds
      <4>2. QED
        BY <2>2, <3>3, <3>4, <4>1
    <3>6. QED
      BY <2>1, <2>3, <2>4, <3>1, <3>2, <3>5
  <2>5. CASE ~(i + 1 <= n)
    <3>1. l[i + 1] = 0
      BY <1>3, <2>1, <2>5
    <3>2. RunningSum(l)[i] = Positive(RunningSum(a)[n] - m)
      <4>1. (IF i <= n THEN i ELSE n) = n
        BY <2>1, <2>5
      <4>2. QED
        BY <1>6, <4>1
    <3>3. RunningSum(l)[i + 1] = Positive(RunningSum(a)[n] - m)
      <4>1. RunningSum(a)[n] - m \in Int
        BY <1>1
      <4>2. Positive(RunningSum(a)[n] - m) \in Int
        BY <4>1 DEF Positive
      <4>3. QED
        BY <2>2, <3>1, <3>2, <4>2
    <3>4. QED
      BY <2>1, <2>5, <3>3
  <2>6. QED
    BY <2>4, <2>5
<1> HIDE DEF S
<1>7. \A i \in 0..N : i \in S
  BY <1>5, <1>6, UpTo
<1>8. \A i \in 0..N : RunningSum(l)[i] = Positive(RunningSum(a)[IF i <= n THEN i ELSE n] - m)
  BY <1>7 DEF S
<1>9. QED
  BY <1>2, <1>4, <1>8

\* Taking q units more leaves what m + q units leave.
LEMMA TakenInTurn ==
    ASSUME NEW N \in Nat, NEW a, DOMAIN a = 1..N, \A i \in 1..N : a[i] \in Nat,
           NEW n \in 0..N, NEW m \in Nat, NEW q \in Nat
    PROVE  Consumed(LeftOver(a, n, m), q) = LeftOver(a, n, m + q)
<1>1. PICK l : l = LeftOver(a, n, m)
  OBVIOUS
<1>2. /\ \A i \in 0..N : RunningSum(a)[i] \in Nat
      /\ DOMAIN l = 1..N
      /\ \A i \in 1..N : l[i] = IF i <= n THEN Portion(RunningSum(a)[i] - m, a[i]) ELSE 0
      /\ \A i \in 0..N : RunningSum(l)[i] = Positive(RunningSum(a)[IF i <= n THEN i ELSE n] - m)
  <2>1. \A i \in 0..N : RunningSum(a)[i] \in Nat
    BY SumsAreNat
  <2>2. \A i \in 0..N : RunningSum(l)[i] = Positive(RunningSum(a)[IF i <= n THEN i ELSE n] - m)
    <3>1. \A i \in 0..N : RunningSum(LeftOver(a, n, m))[i]
                            = Positive(RunningSum(a)[IF i <= n THEN i ELSE n] - m)
      BY LotsLeft
    <3>2. QED
      BY <1>1, <3>1
  <2>3. QED
    BY <1>1, <2>1, <2>2 DEF LeftOver
<1>3. ASSUME NEW i \in 1..N
      PROVE l[i] - Portion(q - RunningSum(l)[i - 1], l[i])
              = IF i <= n THEN Portion(RunningSum(a)[i] - (m + q), a[i]) ELSE 0
  <2>1. RunningSum(a)[i] = RunningSum(a)[i - 1] + a[i] /\ i - 1 \in 0..N /\ i \in 0..N
    BY NextSum
  <2>2. CASE i <= n
    <3>1. PICK b \in Nat : b = RunningSum(a)[i - 1]
      BY <1>2, <2>1
    <3>2. PICK x \in Nat : x = a[i]
      OBVIOUS
    <3>3. l[i] = Portion((b + x) - m, x)
      BY <1>2, <2>1, <2>2, <3>1, <3>2
    <3>4. RunningSum(l)[i - 1] = Positive(b - m)
      <4>1. (IF i - 1 <= n THEN i - 1 ELSE n) = i - 1
        BY <2>2
      <4>2. QED
        BY <1>2, <2>1, <3>1, <4>1
    <3>5. Portion((b + x) - m, x) - Portion(q - Positive(b - m), Portion((b + x) - m, x))
            = Portion((b + x) - (m + q), x)
      BY DEF Positive, Portion
    <3>6. l[i] - Portion(q - RunningSum(l)[i - 1], l[i]) = Portion((b + x) - (m + q), x)
      BY <3>3, <3>4, <3>5
    <3>7. QED
      BY <2>1, <2>2, <3>1, <3>2, <3>6
  <2>3. CASE ~(i <= n)
    <3>1. l[i] = 0
      BY <1>2, <2>3
    <3>2. Portion(q - RunningSum(l)[i - 1], l[i]) = 0
      <4>1. PICK r : r = RunningSum(l)[i - 1]
        OBVIOUS
      <4>2. r \in Int
        <5>1. \A j \in 0..N : RunningSum(a)[j] - m \in Int
          BY <1>2
        <5>2. (IF i - 1 <= n THEN i - 1 ELSE n) \in 0..N
          BY <2>1
        <5>3. r = Positive(RunningSum(a)[IF i - 1 <= n THEN i - 1 ELSE n] - m)
          BY <1>2, <2>1, <4>1
        <5>4. QED
          BY <5>1, <5>2, <5>3 DEF Positive
      <4>3. QED
        BY <3>1, <4>1, <4>2 DEF Portion
    <3>3. QED
      BY <2>3, <3>1, <3>2
  <2>4. QED
    BY <2>2, <2>3
<1>4. Consumed(l, q) = [i \in 1..N |-> l[i] - Portion(q - RunningSum(l)[i - 1], l[i])]
  BY <1>2 DEF Consumed
<1>5. LeftOver(a, n, m + q) = [i \in 1..N |-> IF i <= n THEN Portion(RunningSum(a)[i] - (m + q), a[i]) ELSE 0]
  BY DEF LeftOver
<1>6. QED
  BY <1>1, <1>3, <1>4, <1>5

LEMMA DifferenceTimes ==
    ASSUME NEW x \in Int, NEW y \in Int, NEW q \in Int
    PROVE  (x - y) * q = x * q - y * q /\ x * q \in Int /\ y * q \in Int
OBVIOUS

LEMMA UnitSumsAreInt ==
    ASSUME NEW a, NEW N \in Nat, DOMAIN a = 1..N, NEW p \in [1..N -> Int],
           \A i \in 1..N : a[i] \in Nat
    PROVE  \A u \in 0..RunningSum(a)[N] : RunningSum(Priced(a, p))[u] \in Int
<1>1. \A u \in 1..RunningSum(a)[N] : Priced(a, p)[u] \in Int
  BY PricesAreInt
<1>2. RunningSum(a)[N] \in Nat
  <2>1. N \in 0..N
    OBVIOUS
  <2>2. QED
    BY <2>1, SumsAreNat
<1>3. QED
  BY <1>1, <1>2, SumsAreInt

Weighed(l, p) == [j \in DOMAIN l |-> l[j] * p[j]]

LEMMA LotsWorth ==
    ASSUME NEW N \in Nat, NEW a, DOMAIN a = 1..N, NEW p \in [1..N -> Int],
           \A i \in 1..N : a[i] \in Nat,
           NEW n \in 0..N, NEW m \in Nat, m <= RunningSum(a)[n]
    PROVE  RunningSum(Weighed(LeftOver(a, n, m), p))[N]
             = RunningSum(Priced(a, p))[RunningSum(a)[n]] - RunningSum(Priced(a, p))[m]
<1>1. PICK l : l = LeftOver(a, n, m)
  OBVIOUS
<1>2. PICK w : w = Weighed(l, p)
  OBVIOUS
<1>3. DOMAIN l = 1..N /\ \A j \in 1..N : w[j] = l[j] * p[j]
  BY <1>1, <1>2 DEF LeftOver, Weighed
<1>4. PICK R : R = RunningSum(Priced(a, p))
  OBVIOUS
<1>5. PICK B : B = RunningSum(a)
  OBVIOUS
<1>6. /\ \A i \in 0..N : B[i] \in Nat
      /\ \A i, k \in 0..N : i <= k => B[i] <= B[k]
      /\ N \in 0..N
  <2>1. /\ \A i \in 0..N : RunningSum(a)[i] \in Nat
        /\ \A i, k \in 0..N : i <= k => RunningSum(a)[i] <= RunningSum(a)[k]
    BY SumsAreNat
  <2>2. QED
    BY <1>5, <2>1
<1>7. \A u \in 0..B[N] : R[u] \in Int
  BY <1>4, <1>5, UnitSumsAreInt
<1>8. m <= B[N] /\ m \in 0..B[N] /\ \A i \in 0..N : B[i] \in 0..B[N]
  BY <1>5, <1>6
<1>9. \A i \in 1..N : \A x \in 0..a[i] : R[B[i - 1] + x] = R[B[i - 1]] + x * p[i]
  BY <1>4, <1>5, UnitsOfRow
<1> DEFINE far(i) == IF m > B[IF i <= n THEN i ELSE n] THEN m ELSE B[IF i <= n THEN i ELSE n]
           S == {i \in 0..N : RunningSum(w)[i] = R[far(i)] - R[m]}
<1>10. 0 \in S
  <2>1. RunningSum(w)[0] = 0 /\ B[0] = 0
    BY <1>5, RunningSums
  <2>2. far(0) = m
    BY <2>1
  <2>3. R[m] \in Int
    BY <1>7, <1>8
  <2> HIDE DEF far
  <2>4. QED
    BY <2>1, <2>2, <2>3
<1>11. ASSUME NEW i \in 0..(N - 1), i \in S PROVE i + 1 \in S
  <2>1. i \in Nat /\ i + 1 \in 1..N /\ i \in 0..N /\ i + 1 \in 0..N /\ (i + 1) - 1 = i
    OBVIOUS
  <2>2. RunningSum(w)[i + 1] = RunningSum(w)[i] + w[i + 1]
    BY <2>1, RunningSums
  <2>3. B[i + 1] = B[i] + a[i + 1]
    BY <1>5, <2>1, RunningSums
  <2>4. l[i + 1] = (IF i + 1 <= n THEN Portion(B[i + 1] - m, a[i + 1]) ELSE 0) /\ w[i + 1] = l[i + 1] * p[i + 1]
    BY <1>5, <1>1, <1>3, <2>1 DEF LeftOver
  <2>5. PICK b \in Nat : b = B[i]
    BY <1>6, <2>1
  <2>6. PICK x \in Nat : x = a[i + 1]
    BY <2>1
  <2>7. PICK q \in Int : q = p[i + 1]
    BY <2>1
  <2>8. \A y \in 0..x : R[b + y] = R[b] + y * q
    BY <1>9, <2>1, <2>5, <2>6, <2>7
  <2>9. RunningSum(w)[i] = R[far(i)] - R[m]
    BY <1>11
  <2>10. R[m] \in Int /\ R[b] \in Int /\ b + x \in 0..B[N] /\ R[b + x] \in Int
    BY <1>7, <1>8, <2>1, <2>3, <2>5, <2>6
  <2>11. SUFFICES R[far(i)] - R[m] + w[i + 1] = R[far(i + 1)] - R[m]
    <3> HIDE DEF far
    <3>1. QED
      BY <2>1, <2>2, <2>9
  <2>12. CASE i + 1 <= n /\ m <= b
    <3>1. far(i) = b
      BY <2>5, <2>12
    <3>2. far(i + 1) = b + x
      BY <2>3, <2>5, <2>6, <2>12
    <3>3. l[i + 1] = x
      BY <2>3, <2>4, <2>5, <2>6, <2>12 DEF Portion
    <3>4. R[b + x] = R[b] + x * q /\ w[i + 1] = x * q
      <4>1. x \in 0..x
        OBVIOUS
      <4>2. w[i + 1] = x * q
        BY <2>4, <2>7, <3>3
      <4>3. QED
        BY <2>8, <4>1, <4>2
    <3>5. x * q \in Int
      BY DifferenceTimes
    <3> HIDE DEF far
    <3>6. QED
      BY <2>10, <3>1, <3>2, <3>4, <3>5
  <2>13. CASE i + 1 <= n /\ b < m /\ m <= b + x
    <3>1. far(i) = m
      BY <2>5, <2>13
    <3>2. far(i + 1) = b + x
      BY <2>3, <2>5, <2>6, <2>13
    <3>3. l[i + 1] = x - (m - b)
      BY <2>3, <2>4, <2>5, <2>6, <2>13 DEF Portion
    <3>4. m - b \in 0..x /\ b + (m - b) = m
      BY <2>13
    <3>5. R[b + x] = R[b] + x * q /\ R[m] = R[b] + (m - b) * q
      <4>1. R[b + (m - b)] = R[b] + (m - b) * q
        BY <2>8, <3>4
      <4>2. R[b + x] = R[b] + x * q
        BY <2>8
      <4>3. QED
        BY <3>4, <4>1, <4>2
    <3>6. PICK y \in Int : y = m - b
      BY <3>4
    <3>7. (x - y) * q = x * q - y * q /\ x * q \in Int /\ y * q \in Int
      BY DifferenceTimes
    <3>8. w[i + 1] = x * q - y * q
      BY <2>4, <2>7, <3>3, <3>6, <3>7
    <3>9. R[m] = R[b] + y * q
      BY <3>5, <3>6
    <3>10. PICK xq \in Int, yq \in Int : xq = x * q /\ yq = y * q
      BY <3>7
    <3>11. R[b + x] = R[b] + xq /\ R[m] = R[b] + yq /\ w[i + 1] = xq - yq
      BY <3>5, <3>8, <3>9, <3>10
    <3>12. R[m] - R[m] + w[i + 1] = R[b + x] - R[m]
      <4>1. PICK rb \in Int, rm \in Int, rx \in Int : rb = R[b] /\ rm = R[m] /\ rx = R[b + x]
        BY <2>10
      <4>2. rx = rb + xq /\ rm = rb + yq
        BY <3>11, <4>1
      <4>3. rm - rm + (xq - yq) = rx - rm
        BY <4>2
      <4>4. QED
        BY <3>11, <4>1, <4>3
    <3> HIDE DEF far
    <3>13. QED
      BY <3>1, <3>2, <3>12
  <2>14. CASE i + 1 <= n /\ b + x < m
    <3>1. far(i) = m
      BY <2>5, <2>14
    <3>2. far(i + 1) = m
      BY <2>3, <2>5, <2>6, <2>14
    <3>3. l[i + 1] = 0
      BY <2>3, <2>4, <2>5, <2>6, <2>14 DEF Portion
    <3>4. 0 * q = 0
      OBVIOUS
    <3>5. w[i + 1] = 0
      BY <2>4, <2>7, <3>3, <3>4
    <3> HIDE DEF far
    <3>6. QED
      BY <2>10, <3>1, <3>2, <3>5
  <2>15. CASE ~(i + 1 <= n)
    <3>1. far(i) = far(i + 1)
      <4>1. (IF i <= n THEN i ELSE n) = n /\ (IF i + 1 <= n THEN i + 1 ELSE n) = n
        BY <2>1, <2>15
      <4>2. QED
        BY <4>1
    <3>2. 0 * q = 0
      OBVIOUS
    <3>3. w[i + 1] = 0
      BY <2>4, <2>7, <2>15, <3>2
    <3>4. R[far(i)] \in Int
      <4>1. (IF i <= n THEN i ELSE n) \in 0..N
        BY <2>1
      <4>2. far(i) \in 0..B[N]
        BY <1>8, <4>1
      <4> HIDE DEF far
      <4>3. QED
        BY <1>7, <4>2
    <3> HIDE DEF far
    <3>5. QED
      BY <2>10, <3>1, <3>3, <3>4
  <2>16. QED
    BY <2>12, <2>13, <2>14, <2>15
<1> HIDE DEF S
<1>12. \A i \in 0..N : i \in S
  BY <1>10, <1>11, UpTo
<1>13. RunningSum(w)[N] = R[far(N)] - R[m]
  BY <1>6, <1>12 DEF S
<1>14. far(N) = B[n]
  <2>1. (IF N <= n THEN N ELSE n) = n
    OBVIOUS
  <2>2. ~(m > B[n])
    BY <1>5, <1>6
  <2>3. QED
    BY <2>1, <2>2
<1>15. QED
  BY <1>4, <1>5, <1>1, <1>2, <1>13, <1>14

LEMMA LengthOf ==
    ASSUME NEW N \in Nat, NEW T, NEW f \in [1..N -> T]
    PROVE  f \in Seq(T) /\ Len(f) = N
<1>1. f \in Seq(T)
  OBVIOUS
<1>2. DOMAIN f = 1..Len(f) /\ Len(f) \in Nat
  BY <1>1
<1>3. QED
  BY <1>1, <1>2

LEMMA BookSteps ==
    ASSUME NEW rows
    PROVE  /\ Books(rows)[0] = EmptyBook(rows)
           /\ \A n \in Nat : Books(rows)[n + 1] = Book(Books(rows)[n], rows, n + 1)
<1> DEFINE Approx(g, k) == g = [n \in 0..k |-> IF n = 0 THEN EmptyBook(rows) ELSE Book(g[n - 1], rows, n)]
           Bad == {k \in Nat : ~\E g : Approx(g, k)}
<1>1. Bad = {}
  <2>1. SUFFICES ASSUME Bad # {} PROVE FALSE
    OBVIOUS
  <2>2. PICK k \in Bad : \A m \in Bad : k <= m
    <3>1. Bad \subseteq Nat
      OBVIOUS
    <3> HIDE DEF Bad
    <3>2. QED
      BY <2>1, <3>1, LeastNatural
  <2>3. CASE k = 0
    <3> DEFINE g == [n \in 0..0 |-> EmptyBook(rows)]
    <3>1. Approx(g, 0)
      OBVIOUS
    <3>2. QED
      BY <3>1, <2>2, <2>3
  <2>4. CASE k # 0
    <3>1. k \in Nat /\ k - 1 \in Nat /\ k - 1 \notin Bad
      <4>1. k \in Nat
        OBVIOUS
      <4> HIDE DEF Bad
      <4>2. QED
        BY <4>1, <2>2, <2>4
    <3>2. PICK h : Approx(h, k - 1)
      BY <3>1
    <3> DEFINE g == [n \in 0..k |-> IF n = k THEN Book(h[k - 1], rows, k) ELSE h[n]]
    <3>3. \A n \in 0..k : g[n] = IF n = 0 THEN EmptyBook(rows) ELSE Book(g[n - 1], rows, n)
      <4>1. \A n \in 0..(k - 1) : h[n] = IF n = 0 THEN EmptyBook(rows) ELSE Book(h[n - 1], rows, n)
        BY <3>2
      <4>2. \A n \in 0..k : g[n] = IF n = k THEN Book(h[k - 1], rows, k) ELSE h[n]
        OBVIOUS
      <4> HIDE DEF g
      <4>3. QED
        BY <4>1, <4>2, <3>1, <2>4
    <3>4. g = [n \in 0..k |-> g[n]]
      OBVIOUS
    <3>5. Approx(g, k)
      <4> HIDE DEF g
      <4>1. QED
        BY <3>3, <3>4
    <3>6. QED
      BY <3>5, <2>2
  <2>5. QED
    BY <2>3, <2>4
<1>2. ASSUME NEW k \in Nat, NEW m \in Nat, NEW g, NEW h, Approx(g, k), Approx(h, m),
             NEW n \in Nat, n <= k, n <= m
      PROVE  g[n] = h[n]
  <2> DEFINE Apart == {i \in Nat : i <= k /\ i <= m /\ g[i] # h[i]}
  <2>1. SUFFICES ASSUME Apart # {} PROVE FALSE
    BY <1>2
  <2>2. PICK i \in Apart : \A j \in Apart : i <= j
    <3>1. Apart \subseteq Nat
      OBVIOUS
    <3> HIDE DEF Apart
    <3>2. QED
      BY <2>1, <3>1, LeastNatural
  <2>3. i \in 0..k /\ i \in 0..m
    BY <2>2
  <2>4. /\ g[i] = IF i = 0 THEN EmptyBook(rows) ELSE Book(g[i - 1], rows, i)
        /\ h[i] = IF i = 0 THEN EmptyBook(rows) ELSE Book(h[i - 1], rows, i)
    BY <1>2, <2>3
  <2>5. i # 0 => g[i - 1] = h[i - 1]
    BY <2>2
  <2>6. QED
    BY <2>2, <2>4, <2>5
<1> DEFINE f == [n \in Nat |-> (CHOOSE g : Approx(g, n))[n]]
<1>3. \A n \in Nat : Approx(CHOOSE g : Approx(g, n), n)
  BY <1>1
<1>4. \A n \in Nat : f[n] = IF n = 0 THEN EmptyBook(rows) ELSE Book(f[n - 1], rows, n)
  <2>1. SUFFICES ASSUME NEW n \in Nat PROVE f[n] = IF n = 0 THEN EmptyBook(rows) ELSE Book(f[n - 1], rows, n)
    OBVIOUS
  <2>2. PICK g : g = CHOOSE x : Approx(x, n)
    OBVIOUS
  <2>3. Approx(g, n) /\ f[n] = g[n]
    BY <2>2, <1>3
  <2>4. g[n] = IF n = 0 THEN EmptyBook(rows) ELSE Book(g[n - 1], rows, n)
    BY <2>3
  <2>5. CASE n = 0
    BY <2>3, <2>4, <2>5
  <2>6. CASE n # 0
    <3>1. n - 1 \in Nat
      BY <2>6
    <3>2. PICK h : h = CHOOSE x : Approx(x, n - 1)
      OBVIOUS
    <3>3. Approx(h, n - 1) /\ f[n - 1] = h[n - 1]
      BY <3>1, <3>2, <1>3
    <3>4. h[n - 1] = g[n - 1]
      <4> HIDE DEF Approx
      <4>1. QED
        BY <3>1, <3>3, <2>3, <1>2
    <3>5. QED
      BY <2>3, <2>4, <2>6, <3>3, <3>4
  <2>7. QED
    BY <2>5, <2>6
<1>5. f = [n \in Nat |-> IF n = 0 THEN EmptyBook(rows) ELSE Book(f[n - 1], rows, n)]
  BY <1>4
<1>6. Books(rows) = [n \in Nat |-> IF n = 0 THEN EmptyBook(rows) ELSE Book(Books(rows)[n - 1], rows, n)]
  <2>1. Books(rows) = CHOOSE r : r = [n \in Nat |-> IF n = 0 THEN EmptyBook(rows) ELSE Book(r[n - 1], rows, n)]
    BY DEF Books
  <2> HIDE DEF f
  <2>2. QED
    BY <2>1, <1>5
<1>7. QED
  <2>1. \A n \in Nat : Books(rows)[n] = IF n = 0 THEN EmptyBook(rows) ELSE Book(Books(rows)[n - 1], rows, n)
    BY <1>6
  <2>2. ASSUME NEW n \in Nat PROVE Books(rows)[n + 1] = Book(Books(rows)[n], rows, n + 1)
    <3>1. n + 1 \in Nat /\ n + 1 # 0 /\ (n + 1) - 1 = n
      OBVIOUS
    <3>2. QED
      BY <2>1, <3>1
  <2>3. QED
    BY <2>1, <2>2

\* The store after each number of rows of a batch.
AfterRows(kept, all, batch) ==
    /\ kept[0] = all
    /\ \A n \in Nat : kept[n + 1] = Insert(kept[n], batch[n + 1])
    /\ Ingested(all, batch) = kept[Len(batch)]

LEMMA InsertSteps == ASSUME NEW all, NEW batch PROVE \E kept : AfterRows(kept, all, batch)
<1> DEFINE Approx(g, k) == g = [n \in 0..k |-> IF n = 0 THEN all ELSE Insert(g[n - 1], batch[n])]
           Bad == {k \in Nat : ~\E g : Approx(g, k)}
<1>1. Bad = {}
  <2>1. SUFFICES ASSUME Bad # {} PROVE FALSE
    OBVIOUS
  <2>2. PICK k \in Bad : \A m \in Bad : k <= m
    <3>1. Bad \subseteq Nat
      OBVIOUS
    <3> HIDE DEF Bad
    <3>2. QED
      BY <2>1, <3>1, LeastNatural
  <2>3. CASE k = 0
    <3> DEFINE g == [n \in 0..0 |-> all]
    <3>1. Approx(g, 0)
      OBVIOUS
    <3>2. QED
      BY <3>1, <2>2, <2>3
  <2>4. CASE k # 0
    <3>1. k \in Nat /\ k - 1 \in Nat /\ k - 1 \notin Bad
      <4>1. k \in Nat
        OBVIOUS
      <4> HIDE DEF Bad
      <4>2. QED
        BY <4>1, <2>2, <2>4
    <3>2. PICK h : Approx(h, k - 1)
      BY <3>1
    <3> DEFINE g == [n \in 0..k |-> IF n = k THEN Insert(h[k - 1], batch[k]) ELSE h[n]]
    <3>3. \A n \in 0..k : g[n] = IF n = 0 THEN all ELSE Insert(g[n - 1], batch[n])
      <4>1. \A n \in 0..(k - 1) : h[n] = IF n = 0 THEN all ELSE Insert(h[n - 1], batch[n])
        BY <3>2
      <4>2. \A n \in 0..k : g[n] = IF n = k THEN Insert(h[k - 1], batch[k]) ELSE h[n]
        OBVIOUS
      <4> HIDE DEF g
      <4>3. QED
        BY <4>1, <4>2, <3>1, <2>4
    <3>4. g = [n \in 0..k |-> g[n]]
      OBVIOUS
    <3>5. Approx(g, k)
      <4> HIDE DEF g
      <4>1. QED
        BY <3>3, <3>4
    <3>6. QED
      BY <3>5, <2>2
  <2>5. QED
    BY <2>3, <2>4
<1>2. ASSUME NEW k \in Nat, NEW m \in Nat, NEW g, NEW h, Approx(g, k), Approx(h, m),
             NEW n \in Nat, n <= k, n <= m
      PROVE  g[n] = h[n]
  <2> DEFINE Apart == {i \in Nat : i <= k /\ i <= m /\ g[i] # h[i]}
  <2>1. SUFFICES ASSUME Apart # {} PROVE FALSE
    BY <1>2
  <2>2. PICK i \in Apart : \A j \in Apart : i <= j
    <3>1. Apart \subseteq Nat
      OBVIOUS
    <3> HIDE DEF Apart
    <3>2. QED
      BY <2>1, <3>1, LeastNatural
  <2>3. i \in 0..k /\ i \in 0..m
    BY <2>2
  <2>4. /\ g[i] = IF i = 0 THEN all ELSE Insert(g[i - 1], batch[i])
        /\ h[i] = IF i = 0 THEN all ELSE Insert(h[i - 1], batch[i])
    BY <1>2, <2>3
  <2>5. i # 0 => g[i - 1] = h[i - 1]
    BY <2>2
  <2>6. QED
    BY <2>2, <2>4, <2>5
<1> DEFINE f == [n \in Nat |-> (CHOOSE g : Approx(g, n))[n]]
<1>3. \A n \in Nat : Approx(CHOOSE g : Approx(g, n), n)
  BY <1>1
<1>4. \A n \in Nat : f[n] = IF n = 0 THEN all ELSE Insert(f[n - 1], batch[n])
  <2>1. SUFFICES ASSUME NEW n \in Nat PROVE f[n] = IF n = 0 THEN all ELSE Insert(f[n - 1], batch[n])
    OBVIOUS
  <2>2. PICK g : g = CHOOSE x : Approx(x, n)
    OBVIOUS
  <2>3. Approx(g, n) /\ f[n] = g[n]
    BY <2>2, <1>3
  <2>4. g[n] = IF n = 0 THEN all ELSE Insert(g[n - 1], batch[n])
    BY <2>3
  <2>5. CASE n = 0
    BY <2>3, <2>4, <2>5
  <2>6. CASE n # 0
    <3>1. n - 1 \in Nat
      BY <2>6
    <3>2. PICK h : h = CHOOSE x : Approx(x, n - 1)
      OBVIOUS
    <3>3. Approx(h, n - 1) /\ f[n - 1] = h[n - 1]
      BY <3>1, <3>2, <1>3
    <3>4. h[n - 1] = g[n - 1]
      <4> HIDE DEF Approx
      <4>1. QED
        BY <3>1, <3>3, <2>3, <1>2
    <3>5. QED
      BY <2>3, <2>4, <2>6, <3>3, <3>4
  <2>7. QED
    BY <2>5, <2>6
<1>5. f = [n \in Nat |-> IF n = 0 THEN all ELSE Insert(f[n - 1], batch[n])]
  <2>1. PICK r : r = f
    OBVIOUS
  <2>2. r = [n \in Nat |-> r[n]]
    BY <2>1
  <2>3. \A n \in Nat : r[n] = IF n = 0 THEN all ELSE Insert(r[n - 1], batch[n])
    <3> HIDE DEF f
    <3>1. QED
      BY <1>4, <2>1
  <2>4. r = [n \in Nat |-> IF n = 0 THEN all ELSE Insert(r[n - 1], batch[n])]
    BY <2>2, <2>3
  <2> HIDE DEF f
  <2>5. QED
    BY <2>1, <2>4
<1> DEFINE kept == CHOOSE r : r = [n \in Nat |-> IF n = 0 THEN all ELSE Insert(r[n - 1], batch[n])]
<1>6. kept = [n \in Nat |-> IF n = 0 THEN all ELSE Insert(kept[n - 1], batch[n])]
  <2> HIDE DEF f
  <2>1. QED
    BY <1>5
<1>7. \A n \in Nat : kept[n] = IF n = 0 THEN all ELSE Insert(kept[n - 1], batch[n])
  <2>1. PICK r : r = kept
    OBVIOUS
  <2>2. r = [n \in Nat |-> IF n = 0 THEN all ELSE Insert(r[n - 1], batch[n])]
    BY <1>6, <2>1
  <2>3. \A n \in Nat : r[n] = IF n = 0 THEN all ELSE Insert(r[n - 1], batch[n])
    BY <2>2
  <2>4. QED
    BY <2>1, <2>3
<1>8. Ingested(all, batch) = kept[Len(batch)]
  BY DEF Ingested
<1>9. QED
  <2>1. PICK r : r = kept
    OBVIOUS
  <2>2. /\ \A n \in Nat : r[n] = IF n = 0 THEN all ELSE Insert(r[n - 1], batch[n])
        /\ Ingested(all, batch) = r[Len(batch)]
    BY <1>7, <1>8, <2>1
  <2>3. r[0] = all
    BY <2>2
  <2>4. ASSUME NEW n \in Nat PROVE r[n + 1] = Insert(r[n], batch[n + 1])
    <3>1. n + 1 \in Nat /\ n + 1 # 0 /\ (n + 1) - 1 = n
      OBVIOUS
    <3>2. QED
      BY <2>2, <3>1
  <2>5. QED
    BY <2>2, <2>3, <2>4 DEF AfterRows

-----------------------------------------------------------------------------
(* The book of the rows of one wallet and one token.                       *)

\* What a stored fill is known to be.
IsFill(f) == /\ f.side \in {"buy", "sell"} /\ f.qty \in Nat /\ f.qty > 0
             /\ f.gross \in Int /\ f.fee \in Int

AreFills(rows) == \A i \in DOMAIN rows : IsFill(rows[i])

Accounts(N) == [lots : [1..N -> Int], bought : Int, sold : Int, realized : Int,
                orphan : BOOLEAN, oversold : BOOLEAN]

LEMMA LeastOfTwo ==
    ASSUME NEW x \in Int, NEW y \in Int
    PROVE  Min({x, y}) = IF x <= y THEN x ELSE y
<1>1. Min({x, y}) = CHOOSE z \in {x, y} : \A w \in {x, y} : z <= w
  BY DEF Min
<1>2. QED
  BY <1>1

LEMMA GreatestOfTwo ==
    ASSUME NEW x \in Int, NEW y \in Int
    PROVE  Max({x, y}) = IF x <= y THEN y ELSE x
<1>1. Max({x, y}) = CHOOSE z \in {x, y} : \A w \in {x, y} : z >= w
  BY DEF Max
<1>2. QED
  BY <1>1

LEMMA UnitPrices ==
    ASSUME NEW f, IsFill(f)
    PROVE  UnitCost(f) \in Int /\ UnitNet(f) \in Int
<1>1. PICK q \in Nat : q = f.qty /\ q > 0
  BY DEF IsFill
<1>2. PICK g \in Int, e \in Int : g = f.gross /\ e = f.fee
  BY DEF IsFill
<1>3. (g + e) \div q \in Int
  BY <1>1
<1>4. PICK z \in Int : z = Max({0, g - e})
  BY GreatestOfTwo
<1>5. z \div q \in Int
  BY <1>1
<1>6. QED
  BY <1>1, <1>2, <1>3, <1>4, <1>5 DEF UnitCost, UnitNet

LEMMA TimesIsInt ==
    ASSUME NEW x \in Int, NEW y \in Int PROVE x * y \in Int
OBVIOUS

LEMMA WorthIsInt ==
    ASSUME NEW N \in Nat, NEW rows, DOMAIN rows = 1..N, AreFills(rows), NEW l \in [1..N -> Int]
    PROVE  /\ Held(l) \in Int /\ Held(l) = RunningSum(l)[N]
           /\ Worth(rows, l) \in Int
           /\ Worth(rows, l) = RunningSum([i \in 1..N |-> l[i] * UnitCost(rows[i])])[N]
<1>1. Len(l) = N /\ N \in 0..N /\ DOMAIN l = 1..N
  BY LengthOf
<1>2. Held(l) = RunningSum(l)[N]
  BY <1>1 DEF Held
<1>3. RunningSum(l)[N] \in Int
  BY <1>1, SumsAreInt
<1>4. Worth(rows, l) = RunningSum([i \in 1..N |-> l[i] * UnitCost(rows[i])])[N]
  BY <1>1 DEF Worth
<1>5. ASSUME NEW i \in 1..N PROVE l[i] * UnitCost(rows[i]) \in Int
  <2>1. UnitCost(rows[i]) \in Int
    BY UnitPrices DEF AreFills
  <2>2. QED
    BY <2>1, TimesIsInt
<1>6. PICK w : w = [i \in 1..N |-> l[i] * UnitCost(rows[i])]
  OBVIOUS
<1>7. \A i \in 1..N : w[i] \in Int
  BY <1>5, <1>6
<1>8. RunningSum(w)[N] \in Int
  BY <1>1, <1>7, SumsAreInt
<1>9. QED
  BY <1>2, <1>3, <1>4, <1>6, <1>8

LEMMA ConsumedIsInt ==
    ASSUME NEW N \in Nat, NEW l \in [1..N -> Int], NEW q \in Int
    PROVE  Consumed(l, q) \in [1..N -> Int]
<1>1. ASSUME NEW i \in 1..N PROVE l[i] - Portion(q - RunningSum(l)[i - 1], l[i]) \in Int
  <2>1. i - 1 \in 0..N /\ l[i] \in Int
    OBVIOUS
  <2>2. RunningSum(l)[i - 1] \in Int
    BY <2>1, SumsAreInt
  <2>3. QED
    BY <2>1, <2>2 DEF Portion
<1>2. Consumed(l, q) = [i \in 1..N |-> l[i] - Portion(q - RunningSum(l)[i - 1], l[i])]
  BY DEF Consumed
<1>3. QED
  BY <1>1, <1>2

LEMMA BookStep ==
    ASSUME NEW N \in Nat, NEW rows, DOMAIN rows = 1..N, AreFills(rows),
           NEW b \in Accounts(N), NEW n \in 1..N, NEW c, c = Book(b, rows, n)
    PROVE  /\ c \in Accounts(N)
           /\ ~c.orphan /\ ~c.oversold => ~b.orphan /\ ~b.oversold
           /\ rows[n].side = "buy" => /\ c.lots = [b.lots EXCEPT ![n] = rows[n].qty]
                                      /\ c.realized = b.realized
           /\ rows[n].side = "sell" /\ ~c.orphan /\ ~c.oversold =>
                 /\ rows[n].qty <= Held(b.lots)
                 /\ c.lots = Consumed(b.lots, rows[n].qty)
                 /\ c.realized = b.realized + rows[n].qty * UnitNet(rows[n])
                                   - (Worth(rows, b.lots) - Worth(rows, c.lots))
<1> DEFINE f == rows[n]
<1>1. IsFill(f)
  BY DEF AreFills
<1>2. PICK have \in Int : have = Held(b.lots)
  <2>1. b.lots \in [1..N -> Int]
    BY DEF Accounts
  <2>2. QED
    BY <2>1, WorthIsInt
<1>3. PICK m \in Int : m = Min({have, f.qty}) /\ m = IF have <= f.qty THEN have ELSE f.qty
  BY <1>1, LeastOfTwo DEF IsFill
<1>4. PICK pay \in Int : pay = m * UnitNet(f)
  BY <1>1, UnitPrices, TimesIsInt
<1>5. PICK rest \in [1..N -> Int] : rest = Consumed(b.lots, m)
  <2>1. b.lots \in [1..N -> Int]
    BY DEF Accounts
  <2>2. QED
    BY <2>1, ConsumedIsInt
<1>6. PICK w \in Int, z \in Int : w = Worth(rows, b.lots) /\ z = Worth(rows, rest)
  <2>1. b.lots \in [1..N -> Int]
    BY DEF Accounts
  <2>2. Worth(rows, b.lots) \in Int /\ Worth(rows, rest) \in Int
    BY <2>1, WorthIsInt
  <2>3. QED
    BY <2>2
<1>7. CASE f.side = "buy"
  <2>1. c = [b EXCEPT !.lots[n] = f.qty, !.bought = @ + f.gross + f.fee]
    BY <1>7 DEF Book
  <2>2. f.gross \in Int /\ f.fee \in Int /\ f.qty \in Int /\ f.side # "sell"
    BY <1>1, <1>7 DEF IsFill
  <2> HIDE DEF f
  <2>3. PICK lots \in [1..N -> Int] : lots = [b.lots EXCEPT ![n] = f.qty]
    BY <2>2 DEF Accounts
  <2>4. PICK spent \in Int : spent = b.bought + f.gross + f.fee
    BY <2>2 DEF Accounts
  <2>5. c = [b EXCEPT !.lots = lots, !.bought = spent]
    BY <2>1, <2>3, <2>4 DEF Accounts
  <2>6. c \in Accounts(N)
    BY <2>5 DEF Accounts
  <2>7. c.lots = lots /\ c.realized = b.realized /\ c.orphan = b.orphan /\ c.oversold = b.oversold
    BY <2>5 DEF Accounts
  <2>8. QED
    BY <2>2, <2>3, <2>6, <2>7 DEF f
<1>8. CASE f.side = "sell" /\ have = 0
  <2>1. c = [b EXCEPT !.orphan = TRUE]
    BY <1>2, <1>8 DEF Book
  <2>2. c \in Accounts(N) /\ c.orphan
    BY <2>1 DEF Accounts
  <2>3. QED
    BY <2>2, <1>8
<1>9. CASE f.side = "sell" /\ have # 0
  <2>1. c = [b EXCEPT !.lots = rest, !.sold = @ + pay, !.oversold = @ \/ f.qty > have,
                      !.realized = @ + pay - (w - z)]
    BY <1>2, <1>3, <1>4, <1>5, <1>6, <1>9 DEF Book
  <2>2. c \in Accounts(N)
    <3>1. (b.oversold \/ f.qty > have) \in BOOLEAN
      OBVIOUS
    <3>2. b.realized + pay - (w - z) \in Int /\ b.sold + pay \in Int
      BY DEF Accounts
    <3> HIDE DEF f
    <3>3. QED
      BY <2>1, <3>1, <3>2 DEF Accounts
  <2>3. /\ c.lots = rest /\ c.orphan = b.orphan /\ (c.oversold <=> (b.oversold \/ f.qty > have))
        /\ c.realized = b.realized + pay - (w - z)
    <3> HIDE DEF f
    <3>1. QED
      BY <2>1 DEF Accounts
  <2>4. ~c.oversold => f.qty <= have /\ m = f.qty
    <3>1. PICK q \in Int : q = f.qty
      BY <1>1 DEF IsFill
    <3> HIDE DEF f
    <3>2. ~c.oversold => ~(q > have)
      BY <2>3, <3>1
    <3>3. m = IF have <= q THEN have ELSE q
      BY <1>3, <3>1
    <3>4. ~(q > have) => q <= have /\ m = q
      BY <3>3
    <3>5. QED
      BY <3>1, <3>2, <3>4
  <2>5. f.side # "buy"
    BY <1>9
  <2>6. ~c.orphan /\ ~c.oversold => ~b.orphan /\ ~b.oversold
    BY <2>3
  <2> HIDE DEF f
  <2>7. QED
    BY <1>2, <1>4, <1>5, <1>6, <2>2, <2>3, <2>4, <2>5, <2>6 DEF f
<1>10. QED
  BY <1>1, <1>7, <1>8, <1>9 DEF IsFill

LEMMA AmountsOf ==
    ASSUME NEW N \in Nat, NEW rows, DOMAIN rows = 1..N, AreFills(rows), NEW side
    PROVE  /\ DOMAIN Amounts(rows, side) = 1..N
           /\ \A i \in 1..N : /\ Amounts(rows, side)[i] \in Nat
                              /\ Amounts(rows, side)[i] = IF rows[i].side = side THEN rows[i].qty ELSE 0
<1>1. Amounts(rows, side) = [i \in 1..N |-> IF rows[i].side = side THEN rows[i].qty ELSE 0]
  BY DEF Amounts
<1>2. \A i \in 1..N : rows[i].qty \in Nat
  BY DEF AreFills, IsFill
<1>3. QED
  BY <1>1, <1>2

\* What the book of the first n rows of N says, if the units are sold in the order they were
\* bought: every moment was covered, the lots are what the sold units leave, and the profit is
\* what the sold units brought less what as many of the first bought units cost.
InTurn(rows, N, n) ==
    LET bought == Amounts(rows, "buy")
        sold   == Amounts(rows, "sell")
        spent  == RunningSum(Priced(bought, [i \in 1..N |-> UnitCost(rows[i])]))
        earned == RunningSum(Priced(sold, [i \in 1..N |-> UnitNet(rows[i])]))
        m      == RunningSum(sold)[n]
    IN  /\ \A k \in 0..n : RunningSum(sold)[k] <= RunningSum(bought)[k]
        /\ Books(rows)[n].lots = LeftOver(bought, n, m)
        /\ Books(rows)[n].realized = earned[m] - spent[m]

LEMMA BookInTurn ==
    ASSUME NEW N \in Nat, NEW rows, DOMAIN rows = 1..N, AreFills(rows)
    PROVE  \A n \in 0..N : /\ Books(rows)[n] \in Accounts(N)
                           /\ ~Books(rows)[n].orphan /\ ~Books(rows)[n].oversold => InTurn(rows, N, n)
<1>1. PICK a : a = Amounts(rows, "buy")
  OBVIOUS
<1>2. PICK s : s = Amounts(rows, "sell")
  OBVIOUS
<1>3. PICK p : p = [i \in 1..N |-> UnitCost(rows[i])]
  OBVIOUS
<1>4. PICK v : v = [i \in 1..N |-> UnitNet(rows[i])]
  OBVIOUS
<1>5. PICK W : W = RunningSum(Priced(a, p))
  OBVIOUS
<1>6. PICK V : V = RunningSum(Priced(s, v))
  OBVIOUS
<1>7. PICK B : B = RunningSum(a)
  OBVIOUS
<1>8. PICK S : S = RunningSum(s)
  OBVIOUS
<1>9. /\ DOMAIN a = 1..N /\ DOMAIN s = 1..N
      /\ \A i \in 1..N : a[i] \in Nat /\ s[i] \in Nat
      /\ \A i \in 1..N : a[i] = (IF rows[i].side = "buy" THEN rows[i].qty ELSE 0)
      /\ \A i \in 1..N : s[i] = (IF rows[i].side = "sell" THEN rows[i].qty ELSE 0)
  BY <1>1, <1>2, AmountsOf
<1>10. DOMAIN a = 1..N /\ \A i \in 1..N : a[i] \in Nat
  BY <1>9
<1>11. ASSUME NEW j \in 0..N, NEW x \in Nat, NEW y \in Nat
      PROVE  Consumed(LeftOver(a, j, x), y) = LeftOver(a, j, x + y)
  BY <1>10, TakenInTurn
<1>12. p \in [1..N -> Int] /\ v \in [1..N -> Int]
  <2>1. \A i \in 1..N : UnitCost(rows[i]) \in Int /\ UnitNet(rows[i]) \in Int
    BY UnitPrices DEF AreFills
  <2>2. QED
    BY <2>1, <1>3, <1>4
<1>13. ASSUME NEW j \in 0..N, NEW x \in Nat, x <= RunningSum(a)[j]
      PROVE  RunningSum(Weighed(LeftOver(a, j, x), p))[N]
               = RunningSum(Priced(a, p))[RunningSum(a)[j]] - RunningSum(Priced(a, p))[x]
  BY <1>10, <1>12, <1>13, LotsWorth
<1>14. /\ \A i \in 0..N : B[i] \in Nat /\ S[i] \in Nat
       /\ \A i, k \in 0..N : i <= k => B[i] <= B[k]
       /\ \A i, k \in 0..N : i <= k => S[i] <= S[k]
  <2>1. /\ \A i \in 0..N : RunningSum(a)[i] \in Nat
        /\ \A i, k \in 0..N : i <= k => RunningSum(a)[i] <= RunningSum(a)[k]
    BY <1>9, SumsAreNat
  <2>2. /\ \A i \in 0..N : RunningSum(s)[i] \in Nat
        /\ \A i, k \in 0..N : i <= k => RunningSum(s)[i] <= RunningSum(s)[k]
    BY <1>9, SumsAreNat
  <2>3. QED
    BY <1>7, <1>8, <2>1, <2>2
<1>15. /\ \A u \in 0..B[N] : W[u] \in Int
       /\ \A u \in 0..S[N] : V[u] \in Int
  <2>1. \A u \in 0..RunningSum(a)[N] : RunningSum(Priced(a, p))[u] \in Int
    BY <1>9, <1>12, UnitSumsAreInt
  <2>2. \A u \in 0..RunningSum(s)[N] : RunningSum(Priced(s, v))[u] \in Int
    BY <1>9, <1>12, UnitSumsAreInt
  <2>3. QED
    BY <1>5, <1>6, <1>7, <1>8, <2>1, <2>2
<1> DEFINE Good(n) == /\ \A k \in 0..n : S[k] <= B[k]
                      /\ Books(rows)[n].lots = LeftOver(a, n, S[n])
                      /\ Books(rows)[n].realized = V[S[n]] - W[S[n]]
           T == {n \in 0..N : /\ Books(rows)[n] \in Accounts(N)
                              /\ ~Books(rows)[n].orphan /\ ~Books(rows)[n].oversold => Good(n)}
<1>16. \A n \in 0..N : InTurn(rows, N, n) <=> Good(n)
  BY <1>1, <1>2, <1>3, <1>4, <1>5, <1>6, <1>7, <1>8 DEF InTurn
<1>17. 0 \in T
  <2>1. Books(rows)[0] = EmptyBook(rows)
    BY BookSteps
  <2>2. EmptyBook(rows) \in Accounts(N)
    BY DEF EmptyBook, Accounts
  <2>3. S[0] = 0 /\ B[0] = 0 /\ V[0] = 0 /\ W[0] = 0
    BY <1>5, <1>6, <1>7, <1>8, RunningSums
  <2>4. EmptyBook(rows).lots = LeftOver(a, 0, S[0])
    <3>1. EmptyBook(rows).lots = [i \in 1..N |-> 0]
      BY DEF EmptyBook
    <3>2. LeftOver(a, 0, S[0]) = [i \in 1..N |-> 0]
      <4>1. LeftOver(a, 0, S[0])
              = [i \in 1..N |-> IF i <= 0 THEN Portion(RunningSum(a)[i] - S[0], a[i]) ELSE 0]
        BY <1>9 DEF LeftOver
      <4>2. \A i \in 1..N : ~(i <= 0)
        OBVIOUS
      <4>3. QED
        BY <4>1, <4>2
    <3>3. QED
      BY <3>1, <3>2
  <2>5. EmptyBook(rows).realized = 0
    BY DEF EmptyBook
  <2>6. Good(0)
    BY <2>1, <2>3, <2>4, <2>5
  <2>7. QED
    BY <2>1, <2>2, <2>6
<1>18. ASSUME NEW n \in 0..(N - 1), n \in T PROVE n + 1 \in T
  <2>1. n \in Nat /\ n + 1 \in 1..N /\ n \in 0..N /\ n + 1 \in 0..N
    OBVIOUS
  <2>2. PICK b : b = Books(rows)[n]
    OBVIOUS
  <2>3. PICK c : c = Books(rows)[n + 1]
    OBVIOUS
  <2>4. c = Book(b, rows, n + 1)
    BY <2>1, <2>2, <2>3, BookSteps
  <2>5. b \in Accounts(N) /\ (~b.orphan /\ ~b.oversold => Good(n))
    BY <1>18, <2>2
  <2>6. /\ c \in Accounts(N)
        /\ ~c.orphan /\ ~c.oversold => ~b.orphan /\ ~b.oversold
        /\ rows[n + 1].side = "buy" => /\ c.lots = [b.lots EXCEPT ![n + 1] = rows[n + 1].qty]
                                       /\ c.realized = b.realized
        /\ rows[n + 1].side = "sell" /\ ~c.orphan /\ ~c.oversold =>
              /\ rows[n + 1].qty <= Held(b.lots)
              /\ c.lots = Consumed(b.lots, rows[n + 1].qty)
              /\ c.realized = b.realized + rows[n + 1].qty * UnitNet(rows[n + 1])
                                - (Worth(rows, b.lots) - Worth(rows, c.lots))
    BY <2>1, <2>4, <2>5, BookStep
  <2>7. ASSUME ~c.orphan, ~c.oversold PROVE Good(n + 1)
    <3>1. /\ \A k \in 0..n : S[k] <= B[k]
          /\ b.lots = LeftOver(a, n, S[n])
          /\ b.realized = V[S[n]] - W[S[n]]
      BY <2>2, <2>5, <2>6, <2>7
    <3>2. /\ B[n + 1] = B[n] + a[n + 1]
          /\ S[n + 1] = S[n] + s[n + 1]
      BY <1>7, <1>8, <2>1, RunningSums
    <3>3. PICK bn \in Nat, m \in Nat : bn = B[n] /\ m = S[n] /\ m <= bn
      BY <1>14, <2>1, <3>1
    <3>4. PICK q \in Nat : q = rows[n + 1].qty
      BY <2>1 DEF AreFills, IsFill
    <3>5. rows[n + 1].side \in {"buy", "sell"}
      BY <2>1 DEF AreFills, IsFill
    <3>6. CASE rows[n + 1].side = "buy"
      <4>1. a[n + 1] = q /\ s[n + 1] = 0
        BY <1>9, <2>1, <3>4, <3>6
      <4>2. S[n + 1] = m /\ B[n + 1] = bn + q
        BY <3>2, <3>3, <4>1
      <4>3. \A k \in 0..(n + 1) : S[k] <= B[k]
        BY <3>1, <3>3, <4>2
      <4>4. c.lots = LeftOver(a, n + 1, S[n + 1])
        <5>1. c.lots = [LeftOver(a, n, m) EXCEPT ![n + 1] = q]
          BY <2>6, <3>1, <3>3, <3>4, <3>6
        <5>2. LeftOver(a, n, m) = [i \in 1..N |-> IF i <= n THEN Portion(RunningSum(a)[i] - m, a[i]) ELSE 0]
          BY <1>9 DEF LeftOver
        <5>3. LeftOver(a, n + 1, m) = [i \in 1..N |-> IF i <= n + 1 THEN Portion(RunningSum(a)[i] - m, a[i]) ELSE 0]
          BY <1>9 DEF LeftOver
        <5>4. Portion(RunningSum(a)[n + 1] - m, a[n + 1]) = q
          <6>1. RunningSum(a)[n + 1] = bn + q /\ a[n + 1] = q
            BY <1>7, <4>1, <4>2
          <6>2. Portion((bn + q) - m, q) = q
            BY <3>3 DEF Portion
          <6>3. QED
            BY <6>1, <6>2
        <5>5. \A i \in 1..N : i # n + 1 => (i <= n <=> i <= n + 1)
          BY <2>1
        <5>6. QED
          BY <2>1, <4>2, <5>1, <5>2, <5>3, <5>4, <5>5
      <4>5. c.realized = V[S[n + 1]] - W[S[n + 1]]
        BY <2>6, <3>1, <3>3, <3>6, <4>2
      <4>6. QED
        BY <2>3, <4>3, <4>4, <4>5
    <3>7. CASE rows[n + 1].side = "sell"
      <4>1. a[n + 1] = 0 /\ s[n + 1] = q
        BY <1>9, <2>1, <3>4, <3>7
      <4>2. S[n + 1] = m + q /\ B[n + 1] = bn
        BY <3>2, <3>3, <4>1
      <4>3. PICK l : l = LeftOver(a, n, m) /\ l = b.lots
        BY <3>1, <3>3
      <4>4. l \in [1..N -> Nat] /\ l \in [1..N -> Int]
        <5>1. LeftOver(a, n, m) \in [1..N -> Nat]
          BY <1>10, <2>1, LotsLeft
        <5>2. QED
          BY <4>3, <5>1
      <4>5. Held(l) = bn - m
        <5>1. Held(l) = RunningSum(l)[N]
          BY <4>4, WorthIsInt
        <5>2. N \in 0..N /\ (IF N <= n THEN N ELSE n) = n
          BY <2>1
        <5>3. \A i \in 0..N : RunningSum(LeftOver(a, n, m))[i]
                                = Positive(RunningSum(a)[IF i <= n THEN i ELSE n] - m)
          BY <1>9, <2>1, LotsLeft
        <5>4. RunningSum(l)[N] = Positive(bn - m)
          BY <1>7, <3>3, <4>3, <5>2, <5>3
        <5>5. Positive(bn - m) = bn - m
          BY <3>3 DEF Positive
        <5>6. QED
          BY <5>1, <5>4, <5>5
      <4>6. m + q <= bn
        <5>1. q <= bn - m
          BY <2>6, <2>7, <3>4, <3>7, <4>3, <4>5
        <5>2. QED
          BY <5>1
      <4>7. \A k \in 0..(n + 1) : S[k] <= B[k]
        BY <3>1, <4>2, <4>6
      <4>8. PICK r : r = LeftOver(a, n, m + q) /\ r = c.lots
        <5>1. Consumed(LeftOver(a, n, m), q) = LeftOver(a, n, m + q)
          BY <1>11, <2>1
        <5>2. QED
          BY <2>6, <2>7, <3>4, <3>7, <4>3, <5>1
      <4>9. LeftOver(a, n + 1, m + q) = LeftOver(a, n, m + q)
        <5>1. LeftOver(a, n, m + q)
                = [i \in 1..N |-> IF i <= n THEN Portion(RunningSum(a)[i] - (m + q), a[i]) ELSE 0]
          BY <1>9 DEF LeftOver
        <5>2. LeftOver(a, n + 1, m + q)
                = [i \in 1..N |-> IF i <= n + 1 THEN Portion(RunningSum(a)[i] - (m + q), a[i]) ELSE 0]
          BY <1>9 DEF LeftOver
        <5>3. Portion(RunningSum(a)[n + 1] - (m + q), a[n + 1]) = 0
          <6>1. RunningSum(a)[n + 1] - (m + q) \in Int
            BY <1>7, <4>2
          <6>2. QED
            BY <4>1, <6>1 DEF Portion
        <5>4. \A i \in 1..N : i # n + 1 => (i <= n <=> i <= n + 1)
          BY <2>1
        <5>5. QED
          BY <2>1, <5>1, <5>2, <5>3, <5>4
      <4>10. r \in [1..N -> Int]
        <5>1. m + q \in Nat
          OBVIOUS
        <5>2. LeftOver(a, n, m + q) \in [1..N -> Nat]
          BY <1>10, <2>1, <5>1, LotsLeft
        <5>3. QED
          BY <4>8, <5>2
      <4>11. Worth(rows, l) = W[bn] - W[m] /\ Worth(rows, r) = W[bn] - W[m + q]
        <5>1. m + q \in Nat /\ m \in Nat
          OBVIOUS
        <5>2. PICK wl : wl = Weighed(l, p)
          OBVIOUS
        <5>3. PICK wr : wr = Weighed(r, p)
          OBVIOUS
        <5>4. m <= RunningSum(a)[n] /\ m + q <= RunningSum(a)[n]
          BY <1>7, <3>3, <4>6
        <5>5. RunningSum(wl)[N] = RunningSum(Priced(a, p))[RunningSum(a)[n]] - RunningSum(Priced(a, p))[m]
          BY <2>1, <4>3, <5>1, <5>2, <5>4, <1>13
        <5>6. RunningSum(wr)[N] = RunningSum(Priced(a, p))[RunningSum(a)[n]] - RunningSum(Priced(a, p))[m + q]
          BY <2>1, <4>8, <5>1, <5>3, <5>4, <1>13
        <5>7. wl = [j \in 1..N |-> l[j] * UnitCost(rows[j])] /\ wr = [j \in 1..N |-> r[j] * UnitCost(rows[j])]
          BY <1>3, <4>4, <4>10, <5>2, <5>3 DEF Weighed
        <5>8. Worth(rows, l) = RunningSum(wl)[N] /\ Worth(rows, r) = RunningSum(wr)[N]
          BY <4>4, <4>10, <5>7, WorthIsInt
        <5>9. QED
          BY <1>5, <1>7, <3>3, <5>5, <5>6, <5>8
      <4>12. V[m + q] = V[m] + q * v[n + 1]
        <5>1. q \in 0..s[n + 1] /\ (n + 1) - 1 = n
          BY <2>1, <4>1
        <5>2. PICK i \in 1..N : i = n + 1
          BY <2>1
        <5>3. i - 1 = n /\ q \in 0..s[i]
          BY <5>1, <5>2
        <5>4. RunningSum(Priced(s, v))[RunningSum(s)[i - 1] + q]
                = RunningSum(Priced(s, v))[RunningSum(s)[i - 1]] + q * v[i]
          BY <1>9, <1>12, <5>3, UnitsOfRow
        <5>5. QED
          BY <1>6, <1>8, <3>3, <5>2, <5>3, <5>4
      <4>13. c.realized = V[m + q] - W[m + q]
        <5>1. c.realized = (V[m] - W[m]) + q * v[n + 1] - ((W[bn] - W[m]) - (W[bn] - W[m + q]))
          <6>1. v[n + 1] = UnitNet(rows[n + 1])
            BY <1>4, <2>1
          <6>2. QED
            BY <2>6, <2>7, <3>1, <3>3, <3>4, <3>7, <4>3, <4>8, <4>11, <6>1
        <5>2. bn \in 0..B[N] /\ m \in 0..B[N] /\ m + q \in 0..B[N]
          <6>1. N \in 0..N /\ bn <= B[N] /\ B[N] \in Nat
            BY <1>14, <2>1, <3>3
          <6>2. QED
            BY <3>3, <4>6, <6>1
        <5>3. PICK wb \in Int, wm \in Int, wq \in Int : wb = W[bn] /\ wm = W[m] /\ wq = W[m + q]
          BY <1>15, <5>2
        <5>4. m \in 0..S[N]
          BY <1>14, <2>1, <3>3
        <5>5. PICK vm \in Int : vm = V[m]
          BY <1>15, <5>4
        <5>6. PICK qv \in Int : qv = q * v[n + 1]
          <6>1. v[n + 1] \in Int
            BY <1>12, <2>1
          <6>2. QED
            BY <6>1, TimesIsInt
        <5>7. c.realized = (vm - wm) + qv - ((wb - wm) - (wb - wq))
          BY <5>1, <5>3, <5>5, <5>6
        <5>8. c.realized = (vm + qv) - wq
          BY <5>7
        <5>9. QED
          BY <4>12, <5>3, <5>5, <5>6, <5>8
      <4>14. QED
        BY <2>3, <4>2, <4>7, <4>8, <4>9, <4>13
    <3>8. QED
      BY <3>5, <3>6, <3>7
  <2>8. QED
    <3> HIDE DEF Good
    <3>1. QED
      BY <2>1, <2>3, <2>6, <2>7
<1> HIDE DEF T, Good
<1>19. \A n \in 0..N : n \in T
  BY <1>17, <1>18, UpTo
<1>20. QED
  BY <1>16, <1>19 DEF T

\* The fields of a position that the figures of a profile rest on.
LEMMA PositionFields ==
    ASSUME NEW rows, NEW history, NEW now, NEW b, b = Books(rows)[Len(rows)]
    PROVE  /\ Position(rows, history, now).complete
                <=> (~b.orphan /\ ~b.oversold /\ \A i \in DOMAIN rows : rows[i].proven)
           /\ Position(rows, history, now).realized = b.realized
           /\ Position(rows, history, now).fresh
                <=> (history # <<>> /\ now - Last(history).at <= Settings.maxAge)
<1>1. Position(rows, history, now) = Outlook(b, rows, history, now)
  BY DEF Position
<1>2. Outlook(b, rows, history, now).complete
        <=> (~b.orphan /\ ~b.oversold /\ \A i \in DOMAIN rows : rows[i].proven)
  BY DEF Outlook, ToSet
<1>3. Outlook(b, rows, history, now).realized = b.realized
  BY DEF Outlook
<1>4. Outlook(b, rows, history, now).fresh
        <=> (history # <<>> /\ now - Last(history).at <= Settings.maxAge)
  BY DEF Outlook
<1>5. QED
  BY <1>1, <1>2, <1>3, <1>4

\* A position whose inventory is complete was never short, and its profit is that of the
\* units that were sold, each at the price of the unit bought in its turn.
LEMMA CompleteIsMatched ==
    ASSUME NEW rows, NEW N \in Nat, Len(rows) = N, DOMAIN rows = 1..N, AreFills(rows),
           NEW history, NEW now, Position(rows, history, now).complete
    PROVE  /\ NeverShort(rows)
           /\ Position(rows, history, now).realized = Matched(rows)
           /\ \A i \in DOMAIN rows : rows[i].proven
<1>1. PICK b : b = Books(rows)[Len(rows)]
  OBVIOUS
<1>2. /\ ~b.orphan /\ ~b.oversold /\ \A i \in DOMAIN rows : rows[i].proven
      /\ Position(rows, history, now).realized = b.realized
  BY <1>1, PositionFields
<1>3. N \in 0..N /\ InTurn(rows, N, N)
  <2>1. N \in 0..N
    OBVIOUS
  <2>2. QED
    BY <1>1, <1>2, <2>1, BookInTurn
<1>4. PICK a : a = Amounts(rows, "buy")
  OBVIOUS
<1>5. PICK s : s = Amounts(rows, "sell")
  OBVIOUS
<1>6. PICK p : p = [i \in 1..N |-> UnitCost(rows[i])]
  OBVIOUS
<1>7. PICK v : v = [i \in 1..N |-> UnitNet(rows[i])]
  OBVIOUS
<1>8. PICK m : m = RunningSum(s)[N]
  OBVIOUS
<1>9. /\ \A k \in 0..N : RunningSum(s)[k] <= RunningSum(a)[k]
      /\ b.realized = RunningSum(Priced(s, v))[m] - RunningSum(Priced(a, p))[m]
  BY <1>1, <1>3, <1>4, <1>5, <1>6, <1>7, <1>8 DEF InTurn
<1>10. /\ DOMAIN a = 1..N /\ DOMAIN s = 1..N
       /\ \A i \in 1..N : a[i] \in Nat
       /\ \A i \in 1..N : s[i] \in Nat
  BY <1>4, <1>5, AmountsOf
<1>11. p \in [1..N -> Int] /\ v \in [1..N -> Int]
  <2>1. \A i \in 1..N : UnitCost(rows[i]) \in Int /\ UnitNet(rows[i]) \in Int
    BY UnitPrices DEF AreFills
  <2>2. QED
    BY <2>1, <1>6, <1>7
<1>12. m \in Nat /\ m <= RunningSum(a)[N] /\ RunningSum(a)[N] \in Nat
  <2>1. \A i \in 0..N : RunningSum(s)[i] \in Nat
    BY <1>10, SumsAreNat
  <2>2. \A i \in 0..N : RunningSum(a)[i] \in Nat
    BY <1>10, SumsAreNat
  <2>3. QED
    BY <1>3, <1>8, <1>9, <2>1, <2>2
<1>13. \A u \in 1..m : Priced(a, p)[u] \in Int
  <2>1. \A u \in 1..RunningSum(a)[N] : Priced(a, p)[u] \in Int
    BY <1>10, <1>11, PricesAreInt
  <2>2. QED
    BY <1>12, <2>1
<1>14. \A u \in 1..m : Priced(s, v)[u] \in Int
  BY <1>8, <1>10, <1>11, PricesAreInt
<1>15. PICK d : d = [u \in 1..m |-> UnitNet(rows[RowOf(s, u)]) - UnitCost(rows[RowOf(a, u)])]
  OBVIOUS
<1>16. Matched(rows) = RunningSum(d)[m]
  BY <1>4, <1>5, <1>8, <1>15 DEF Matched
<1>17. ASSUME NEW u \in 1..m PROVE d[u] = Priced(s, v)[u] - Priced(a, p)[u]
  <2>1. u \in Nat
    BY <1>12
  <2>2. Priced(s, v)[u] = v[RowOf(s, u)] /\ Priced(a, p)[u] = p[RowOf(a, u)]
    BY <2>1 DEF Priced
  <2>3. RowOf(s, u) \in 1..N
    BY <1>8, <1>10, UnitHasRow
  <2>4. RowOf(a, u) \in 1..N
    <3>1. u \in 1..RunningSum(a)[N]
      BY <1>12
    <3>2. QED
      BY <3>1, <1>10, UnitHasRow
  <2>5. QED
    BY <1>6, <1>7, <1>15, <2>2, <2>3, <2>4
<1>18. RunningSum(d)[m] = RunningSum(Priced(s, v))[m] - RunningSum(Priced(a, p))[m]
  <2>1. PICK x : x = Priced(s, v)
    OBVIOUS
  <2>2. PICK y : y = Priced(a, p)
    OBVIOUS
  <2>3. /\ \A u \in 1..m : x[u] \in Int
        /\ \A u \in 1..m : y[u] \in Int
    BY <1>13, <1>14, <2>1, <2>2
  <2>4. \A n \in 0..m : RunningSum(d)[n] = RunningSum(x)[n] - RunningSum(y)[n]
    <3>1. m \in Nat
      BY <1>12
    <3>2. \A n \in 0..m : RunningSum(Differences(x, y, m))[n] = RunningSum(x)[n] - RunningSum(y)[n]
      BY <3>1, <2>3, SumOfDifferences
    <3>3. d = Differences(x, y, m)
      <4>1. d = [u \in 1..m |-> d[u]] /\ \A u \in 1..m : d[u] = x[u] - y[u]
        BY <1>15, <1>17, <2>1, <2>2
      <4>2. QED
        BY <4>1 DEF Differences
    <3>4. QED
      BY <3>2, <3>3
  <2>5. m \in 0..m
    BY <1>12
  <2>6. QED
    BY <2>1, <2>2, <2>4, <2>5
<1>19. NeverShort(rows)
  BY <1>4, <1>5, <1>9 DEF NeverShort
<1>20. QED
  BY <1>2, <1>9, <1>16, <1>18, <1>19

-----------------------------------------------------------------------------
(* Rows in order.                                                          *)

Before(rows, of, i) == {j \in of : Precedes(rows, j, i)}
Rank(rows, of, i)   == Cardinality(Before(rows, of, i))

\* Rows that can be put in order.
Timed(rows, of) == IsFiniteSet(of) /\ of \subseteq Int /\ \A i \in of : rows[i].at \in Int

LEMMA Ranks ==
    ASSUME NEW rows, NEW of, Timed(rows, of)
    PROVE  /\ Cardinality(of) \in Nat
           /\ \A i \in of : Rank(rows, of, i) \in 0..(Cardinality(of) - 1)
           /\ \A i, j \in of : Rank(rows, of, i) = Rank(rows, of, j) => i = j
           /\ \A n \in 1..Cardinality(of) : \E i \in of : Rank(rows, of, i) = n - 1
<1>1. IsFiniteSet(of) /\ Cardinality(of) \in Nat
  BY FS_CardinalityType DEF Timed
<1>2. ASSUME NEW i \in of
      PROVE  /\ IsFiniteSet(Before(rows, of, i)) /\ Rank(rows, of, i) \in Nat
             /\ Rank(rows, of, i) < Cardinality(of)
  <2>1. PICK T : T = Before(rows, of, i)
    OBVIOUS
  <2>2. T \in SUBSET of /\ i \notin T
    BY <2>1 DEF Before, Precedes, Timed
  <2>3. IsFiniteSet(T) /\ Cardinality(T) <= Cardinality(of) /\ Cardinality(T) # Cardinality(of)
    BY <1>1, <2>2, FS_Subset
  <2>4. Cardinality(T) \in Nat
    BY <2>3, FS_CardinalityType
  <2>5. QED
    BY <1>1, <2>1, <2>3, <2>4 DEF Rank
<1>3. ASSUME NEW i \in of, NEW j \in of, Precedes(rows, i, j)
      PROVE  Rank(rows, of, i) < Rank(rows, of, j)
  <2>1. PICK T : T = Before(rows, of, i)
    OBVIOUS
  <2>2. PICK U : U = Before(rows, of, j)
    OBVIOUS
  <2>3. T \in SUBSET U
    BY <1>3, <2>1, <2>2 DEF Before, Precedes, Timed
  <2>4. i \in U /\ i \notin T
    BY <1>3, <2>1, <2>2 DEF Before, Precedes, Timed
  <2>5. IsFiniteSet(U) /\ Cardinality(U) \in Nat /\ Cardinality(T) \in Nat
    BY <1>2, <2>1, <2>2 DEF Rank
  <2>6. Cardinality(T) <= Cardinality(U) /\ Cardinality(T) # Cardinality(U)
    BY <2>3, <2>4, <2>5, FS_Subset
  <2>7. QED
    BY <2>1, <2>2, <2>5, <2>6 DEF Rank
<1>4. ASSUME NEW i \in of, NEW j \in of, Rank(rows, of, i) = Rank(rows, of, j) PROVE i = j
  <2>1. Rank(rows, of, i) \in Nat
    BY <1>2
  <2>2. ~Precedes(rows, i, j) /\ ~Precedes(rows, j, i)
    BY <1>3, <1>4, <2>1
  <2>3. i \in Int /\ j \in Int /\ rows[i].at \in Int /\ rows[j].at \in Int
    BY DEF Timed
  <2>4. ~(rows[i].at < rows[j].at) /\ ~(rows[j].at < rows[i].at) /\ rows[i].at = rows[j].at
    BY <2>2, <2>3 DEF Precedes
  <2>5. ~(i < j) /\ ~(j < i)
    BY <2>2, <2>4 DEF Precedes
  <2>6. QED
    BY <2>3, <2>5
<1>5. ASSUME NEW i \in of PROVE Rank(rows, of, i) \in 0..(Cardinality(of) - 1)
  BY <1>1, <1>2
<1>6. ASSUME NEW n \in 1..Cardinality(of) PROVE \E i \in of : Rank(rows, of, i) = n - 1
  <2>1. PICK T : T = 0..(Cardinality(of) - 1)
    OBVIOUS
  <2>2. PICK f : f = [i \in of |-> Rank(rows, of, i)]
    OBVIOUS
  <2>3. f \in Injection(of, T)
    <3>1. f \in [of -> T]
      BY <1>5, <2>1, <2>2
    <3>2. \A x, y \in DOMAIN f : f[x] = f[y] => x = y
      BY <1>4, <2>2
    <3>3. QED
      BY <3>1, <3>2 DEF Injection, IsInjective
  <2>4. IsFiniteSet(T) /\ Cardinality(T) = Cardinality(of)
    <3>1. 0 \in Int /\ Cardinality(of) - 1 \in Int
      BY <1>1
    <3>2. /\ IsFiniteSet(0..(Cardinality(of) - 1))
          /\ Cardinality(0..(Cardinality(of) - 1))
               = IF 0 > Cardinality(of) - 1 THEN 0 ELSE (Cardinality(of) - 1) - 0 + 1
      BY <3>1, FS_Interval
    <3>3. QED
      BY <1>1, <2>1, <3>2
  <2>5. f \in Surjection(of, T)
    BY <2>3, <2>4, FS_Injection
  <2>6. n - 1 \in T
    BY <1>1, <2>1
  <2>7. QED
    BY <2>2, <2>5, <2>6 DEF Surjection
<1>7. QED
  BY <1>1, <1>4, <1>5, <1>6

\* Every row is in the order once, under its rank, and nothing else is.
LEMMA RowsInOrder ==
    ASSUME NEW rows, NEW of, Timed(rows, of), NEW o, o = InOrder(rows, of)
    PROVE  /\ Len(o) = Cardinality(of) /\ Cardinality(of) \in Nat /\ DOMAIN o = 1..Cardinality(of)
           /\ \A i \in of : o[Rank(rows, of, i) + 1] = rows[i] /\ Rank(rows, of, i) + 1 \in DOMAIN o
           /\ \A n \in DOMAIN o : \E i \in of : o[n] = rows[i] /\ Rank(rows, of, i) = n - 1
<1>1. /\ Cardinality(of) \in Nat
      /\ \A i \in of : Rank(rows, of, i) \in 0..(Cardinality(of) - 1)
      /\ \A i, j \in of : Rank(rows, of, i) = Rank(rows, of, j) => i = j
      /\ \A n \in 1..Cardinality(of) : \E i \in of : Rank(rows, of, i) = n - 1
  BY Ranks
<1>2. o = [n \in 1..Cardinality(of) |-> rows[CHOOSE i \in of : Rank(rows, of, i) = n - 1]]
  BY DEF InOrder, Rank, Before
<1>3. DOMAIN o = 1..Cardinality(of) /\ Len(o) = Cardinality(of)
  <2>1. PICK N \in Nat : N = Cardinality(of)
    BY <1>1
  <2>2. PICK T : T = {o[n] : n \in 1..N}
    OBVIOUS
  <2>3. o \in [1..N -> T]
    BY <1>2, <2>1, <2>2
  <2>4. QED
    BY <2>1, <2>3, LengthOf
<1>4. ASSUME NEW i \in of PROVE o[Rank(rows, of, i) + 1] = rows[i] /\ Rank(rows, of, i) + 1 \in DOMAIN o
  <2>1. PICK n : n = Rank(rows, of, i) + 1
    OBVIOUS
  <2>2. n \in 1..Cardinality(of) /\ Rank(rows, of, i) = n - 1
    BY <1>1, <2>1
  <2>3. PICK k : k = CHOOSE j \in of : Rank(rows, of, j) = n - 1
    OBVIOUS
  <2>4. k \in of /\ Rank(rows, of, k) = n - 1
    BY <2>2, <2>3
  <2>5. k = i
    BY <1>1, <2>2, <2>4
  <2>6. o[n] = rows[k]
    BY <1>2, <2>2, <2>3
  <2>7. QED
    BY <1>3, <2>1, <2>2, <2>5, <2>6
<1>5. ASSUME NEW n \in DOMAIN o PROVE \E i \in of : o[n] = rows[i] /\ Rank(rows, of, i) = n - 1
  <2>1. PICK i \in of : Rank(rows, of, i) = n - 1
    BY <1>1, <1>3
  <2>2. Rank(rows, of, i) + 1 = n
    BY <1>1, <1>3, <2>1
  <2>3. QED
    BY <1>4, <2>1, <2>2
<1>6. QED
  BY <1>1, <1>3, <1>4, <1>5

\* Rows that are the same, and precede one another in the same way, are in the same order.
LEMMA SameOrder ==
    ASSUME NEW r, NEW of, Timed(r, of), NEW s, NEW og, NEW f \in Bijection(of, og),
           \A i \in of : s[f[i]] = r[i],
           \A i, j \in of : Precedes(s, f[i], f[j]) <=> Precedes(r, i, j)
    PROVE  InOrder(s, og) = InOrder(r, of)
<1>1. /\ f \in [of -> og]
      /\ \A x, y \in of : f[x] = f[y] => x = y
      /\ \A y \in og : \E x \in of : f[x] = y
  BY DEF Bijection, Injection, Surjection, IsInjective
<1>2. IsFiniteSet(of) /\ IsFiniteSet(og) /\ Cardinality(og) = Cardinality(of)
  <2>1. IsFiniteSet(of) /\ ExistsBijection(of, og)
    BY DEF Timed, ExistsBijection
  <2>2. QED
    BY <2>1, FS_Bijection
<1>3. ASSUME NEW i \in of PROVE Rank(s, og, f[i]) = Rank(r, of, i)
  <2>1. PICK T : T = Before(r, of, i)
    OBVIOUS
  <2>2. PICK U : U = Before(s, og, f[i])
    OBVIOUS
  <2>3. PICK g : g = [j \in T |-> f[j]]
    OBVIOUS
  <2>4. T \subseteq of /\ U \subseteq og
    BY <2>1, <2>2 DEF Before
  <2>5. \A j \in T : f[j] \in U
    BY <1>1, <2>1, <2>2 DEF Before
  <2>6. \A k \in U : \E j \in T : f[j] = k
    <3>1. SUFFICES ASSUME NEW k \in U PROVE \E j \in T : f[j] = k
      OBVIOUS
    <3>2. PICK j \in of : f[j] = k
      BY <1>1, <2>4
    <3>3. Precedes(s, f[j], f[i])
      BY <2>2, <3>2 DEF Before
    <3>4. j \in T
      BY <2>1, <3>3 DEF Before
    <3>5. QED
      BY <3>2, <3>4
  <2>7. g \in Bijection(T, U)
    <3>1. g \in [T -> U]
      BY <2>3, <2>5
    <3>2. \A x, y \in DOMAIN g : g[x] = g[y] => x = y
      BY <1>1, <2>3, <2>4
    <3>3. \A k \in U : \E j \in T : g[j] = k
      BY <2>3, <2>6
    <3>4. QED
      BY <3>1, <3>2, <3>3 DEF Bijection, Injection, Surjection, IsInjective
  <2>8. IsFiniteSet(T)
    BY <1>2, <2>4, FS_Subset
  <2>9. Cardinality(U) = Cardinality(T)
    <3>1. ExistsBijection(T, U)
      BY <2>7 DEF ExistsBijection
    <3>2. QED
      BY <2>8, <3>1, FS_Bijection
  <2>10. QED
    BY <2>1, <2>2, <2>9 DEF Rank
<1>4. /\ Cardinality(of) \in Nat
      /\ \A i, j \in of : Rank(r, of, i) = Rank(r, of, j) => i = j
      /\ \A n \in 1..Cardinality(of) : \E i \in of : Rank(r, of, i) = n - 1
  BY Ranks
<1>5. ASSUME NEW n \in 1..Cardinality(of)
      PROVE  s[CHOOSE i \in og : Rank(s, og, i) = n - 1] = r[CHOOSE i \in of : Rank(r, of, i) = n - 1]
  <2>1. PICK i : i = CHOOSE j \in of : Rank(r, of, j) = n - 1
    OBVIOUS
  <2>2. i \in of /\ Rank(r, of, i) = n - 1
    BY <1>4, <2>1
  <2>3. PICK k : k = CHOOSE j \in og : Rank(s, og, j) = n - 1
    OBVIOUS
  <2>4. f[i] \in og /\ Rank(s, og, f[i]) = n - 1
    BY <1>1, <1>3, <2>2
  <2>5. k \in og /\ Rank(s, og, k) = n - 1
    BY <2>3, <2>4
  <2>6. PICK j \in of : f[j] = k
    BY <1>1, <2>5
  <2>7. j = i
    BY <1>3, <1>4, <2>2, <2>5, <2>6
  <2>8. QED
    BY <2>1, <2>2, <2>3, <2>6, <2>7
<1>6. InOrder(r, of) = [n \in 1..Cardinality(of) |-> r[CHOOSE i \in of : Rank(r, of, i) = n - 1]]
  BY DEF InOrder, Rank, Before
<1>7. InOrder(s, og) = [n \in 1..Cardinality(of) |-> s[CHOOSE i \in og : Rank(s, og, i) = n - 1]]
  BY <1>2 DEF InOrder, Rank, Before
<1>8. QED
  BY <1>5, <1>6, <1>7

LEMMA OrderStays ==
    ASSUME NEW r, NEW of, Timed(r, of), NEW s, \A i \in of : s[i] = r[i]
    PROVE  InOrder(s, of) = InOrder(r, of)
<1>1. PICK f : f = [i \in of |-> i]
  OBVIOUS
<1>2. f \in Bijection(of, of)
  BY <1>1 DEF Bijection, Injection, Surjection, IsInjective
<1>3. \A i \in of : s[f[i]] = r[i]
  BY <1>1
<1>4. \A i, j \in of : Precedes(s, f[i], f[j]) <=> Precedes(r, i, j)
  BY <1>1 DEF Precedes
<1>5. QED
  BY <1>2, <1>3, <1>4, SameOrder

\* Rows that are kept in a sequence, each with its time.
Dated(rows) == /\ rows \in Seq(ToSet(rows)) /\ Len(rows) \in Nat /\ DOMAIN rows = 1..Len(rows)
               /\ \A i \in DOMAIN rows : rows[i].at \in Int

LEMMA PartIsTimed ==
    ASSUME NEW rows, Dated(rows), NEW of \in SUBSET DOMAIN rows
    PROVE  Timed(rows, of)
<1>1. IsFiniteSet(DOMAIN rows)
  <2>1. PICK n \in Nat : n = Len(rows)
    BY DEF Dated
  <2>2. IsFiniteSet(1..n)
    BY FS_Interval
  <2>3. QED
    BY <2>1, <2>2 DEF Dated
<1>2. IsFiniteSet(of)
  BY <1>1, FS_Subset
<1>3. QED
  BY <1>2 DEF Dated, Timed

LEMMA PartOfBijection ==
    ASSUME NEW S, NEW T, NEW f \in Bijection(S, T), NEW s \in SUBSET S, NEW t \in SUBSET T,
           \A x \in S : x \in s <=> f[x] \in t
    PROVE  \E g \in Bijection(s, t) : \A x \in s : g[x] = f[x]
<1>1. /\ f \in [S -> T]
      /\ \A x, y \in S : f[x] = f[y] => x = y
      /\ \A y \in T : \E x \in S : f[x] = y
  BY DEF Bijection, Injection, Surjection, IsInjective
<1>2. PICK g : g = [x \in s |-> f[x]]
  OBVIOUS
<1>3. g \in [s -> t]
  BY <1>1, <1>2
<1>4. \A x, y \in DOMAIN g : g[x] = g[y] => x = y
  BY <1>1, <1>2
<1>5. \A y \in t : \E x \in s : g[x] = y
  BY <1>1, <1>2
<1>6. g \in Bijection(s, t)
  BY <1>3, <1>4, <1>5 DEF Bijection, Injection, Surjection, IsInjective
<1>7. QED
  BY <1>2, <1>6

\* A profile is the same if the same rows are elsewhere, as long as those of one wallet and
\* token precede one another in the same way.
LEMMA SameProfile ==
    ASSUME NEW k, NEW all, Dated(all), NEW new, NEW f \in Bijection(Mine(k, all), Mine(k, new)),
           \A i \in Mine(k, all) : new[f[i]] = all[i],
           \A i, j \in Mine(k, all) : Pair(all[i]) = Pair(all[j]) =>
               (Precedes(new, f[i], f[j]) <=> Precedes(all, i, j)),
           NEW m, NEW s, NEW t
    PROVE  Profile(k, new, m, s, t) = Profile(k, all, m, s, t)
<1>1. PICK M : M = Mine(k, all)
  OBVIOUS
<1>2. PICK K : K = Mine(k, new)
  OBVIOUS
<1>3. f \in Bijection(M, K) /\ \A i \in M : new[f[i]] = all[i]
  BY <1>1, <1>2
<1>4. /\ f \in [M -> K]
      /\ \A y \in K : \E x \in M : f[x] = y
  BY <1>3 DEF Bijection, Injection, Surjection
<1>5. M \subseteq DOMAIN all
  BY <1>1 DEF Mine
<1>6. Pairs(k, new) = Pairs(k, all)
  <2>1. Pairs(k, all) = {Pair(all[i]) : i \in M} /\ Pairs(k, new) = {Pair(new[i]) : i \in K}
    BY <1>1, <1>2 DEF Pairs
  <2>2. \A g : g \in {Pair(all[i]) : i \in M} <=> g \in {Pair(new[i]) : i \in K}
    BY <1>3, <1>4
  <2>3. QED
    BY <2>1, <2>2
<1>7. ASSUME NEW g PROVE RowsOf(k, g, new) = RowsOf(k, g, all)
  <2>1. PICK of : of = {i \in M : Pair(all[i]) = g}
    OBVIOUS
  <2>2. PICK og : og = {i \in K : Pair(new[i]) = g}
    OBVIOUS
  <2>3. PICK h \in Bijection(of, og) : \A i \in of : h[i] = f[i]
    <3>1. of \in SUBSET M /\ og \in SUBSET K
      BY <2>1, <2>2
    <3>2. \A i \in M : i \in of <=> f[i] \in og
      BY <1>3, <1>4, <2>1, <2>2
    <3>3. QED
      BY <1>3, <3>1, <3>2, PartOfBijection
  <2>4. Timed(all, of)
    <3>1. of \in SUBSET DOMAIN all
      BY <1>5, <2>1
    <3>2. QED
      BY <3>1, PartIsTimed
  <2>5. \A i \in of : new[h[i]] = all[i]
    BY <1>3, <2>1, <2>3
  <2>6. \A i, j \in of : Precedes(new, h[i], h[j]) <=> Precedes(all, i, j)
    BY <1>1, <2>1, <2>3
  <2>7. InOrder(new, og) = InOrder(all, of)
    BY <2>4, <2>5, <2>6, SameOrder
  <2>8. QED
    BY <1>1, <1>2, <2>1, <2>2, <2>7 DEF RowsOf
<1>8. Positions(k, new, m, t) = Positions(k, all, m, t)
  BY <1>6, <1>7 DEF Positions
<1>9. PICK buys : buys = {i \in M : all[i].side = "buy"}
  OBVIOUS
<1>10. PICK bought : bought = {i \in K : new[i].side = "buy"}
  OBVIOUS
<1>11. PICK h \in Bijection(buys, bought) : \A i \in buys : h[i] = f[i]
  <2>1. buys \in SUBSET M /\ bought \in SUBSET K
    BY <1>9, <1>10
  <2>2. \A i \in M : i \in buys <=> f[i] \in bought
    BY <1>3, <1>4, <1>9, <1>10
  <2>3. QED
    BY <1>3, <2>1, <2>2, PartOfBijection
<1>12. Cardinality(bought) = Cardinality(buys)
  <2>1. buys \in SUBSET DOMAIN all
    BY <1>5, <1>9
  <2>2. IsFiniteSet(buys)
    BY <2>1, PartIsTimed DEF Timed
  <2>3. ExistsBijection(buys, bought)
    BY <1>11 DEF ExistsBijection
  <2>4. QED
    BY <2>2, <2>3, FS_Bijection
<1>13. {new[i].at \div DayLength : i \in bought} = {all[i].at \div DayLength : i \in buys}
  <2>1. \A i \in buys : h[i] \in bought /\ new[h[i]] = all[i]
    BY <1>3, <1>9, <1>11 DEF Bijection, Injection
  <2>2. \A j \in bought : \E i \in buys : h[i] = j
    BY <1>11 DEF Bijection, Surjection
  <2>3. QED
    BY <2>1, <2>2
<1>14. {new[i].at : i \in K} = {all[i].at : i \in M}
  BY <1>3, <1>4
<1>15. K = {} <=> M = {}
  BY <1>4
<1>16. PICK days : days = {all[i].at \div DayLength : i \in buys}
  OBVIOUS
<1>17. PICK times : times = {all[i].at : i \in M}
  OBVIOUS
<1>18. PICK ids : ids = {x \in s : x.kol = k}
  OBVIOUS
<1>19. PICK pos : pos = Positions(k, all, m, t)
  OBVIOUS
<1>20. Profile(k, all, m, s, t) = IF M = {} THEN NoProfile
                                 ELSE Summary(pos, Cardinality(buys), days, Max(times), ids, t)
  BY <1>1, <1>9, <1>16, <1>17, <1>18, <1>19 DEF Profile
<1>21. Profile(k, new, m, s, t) = IF K = {} THEN NoProfile
                                 ELSE Summary(pos, Cardinality(bought), days, Max(times), ids, t)
  <2>1. days = {new[i].at \div DayLength : i \in bought} /\ times = {new[i].at : i \in K}
    BY <1>13, <1>14, <1>16, <1>17
  <2>2. pos = Positions(k, new, m, t)
    BY <1>8, <1>19
  <2>3. QED
    BY <1>2, <1>10, <1>18, <2>1, <2>2 DEF Profile
<1>22. QED
  BY <1>12, <1>15, <1>20, <1>21

\* Only fills of one wallet and token at one time show the order they arrived in.
LEMMA BackwardsIsSame ==
    ASSUME NEW k, NEW all, Dated(all),
           \A i, j \in Mine(k, all) : i # j /\ all[i].at = all[j].at => Pair(all[i]) # Pair(all[j]),
           NEW m, NEW s, NEW t
    PROVE  Profile(k, Backwards(all), m, s, t) = Profile(k, all, m, s, t)
<1>1. PICK L \in Nat : L = Len(all)
  BY DEF Dated
<1>2. PICK new : new = Backwards(all)
  OBVIOUS
<1>3. DOMAIN all = 1..L /\ new = [i \in 1..L |-> all[L + 1 - i]]
  BY <1>1, <1>2 DEF Backwards, Dated
<1>4. PICK M : M = Mine(k, all)
  OBVIOUS
<1>5. PICK K : K = Mine(k, new)
  OBVIOUS
<1>6. PICK f : f = [i \in M |-> L + 1 - i]
  OBVIOUS
<1>7. M \subseteq 1..L /\ (\A i \in 1..L : i \in M <=> all[i].kol = k)
  BY <1>3, <1>4 DEF Mine
<1>8. K \subseteq 1..L /\ (\A i \in 1..L : i \in K <=> new[i].kol = k)
  BY <1>3, <1>5 DEF Mine
<1>9. \A i \in 1..L : /\ L + 1 - i \in 1..L /\ L + 1 - (L + 1 - i) = i
                      /\ new[L + 1 - i] = all[i] /\ new[i] = all[L + 1 - i]
  BY <1>3
<1>10. f \in Bijection(M, K)
  <2>1. \A i \in M : f[i] \in K
    <3>1. SUFFICES ASSUME NEW i \in M PROVE f[i] \in K
      OBVIOUS
    <3>2. i \in 1..L /\ all[i].kol = k /\ f[i] = L + 1 - i
      BY <1>6, <1>7
    <3>3. L + 1 - i \in 1..L /\ new[L + 1 - i] = all[i]
      BY <1>9, <3>2
    <3>4. QED
      BY <1>8, <3>2, <3>3
  <2>2. f \in [M -> K]
    BY <1>6, <2>1
  <2>3. \A x, y \in M : f[x] = f[y] => x = y
    BY <1>6, <1>7
  <2>4. \A y \in K : \E x \in M : f[x] = y
    <3>1. SUFFICES ASSUME NEW y \in K PROVE \E x \in M : f[x] = y
      OBVIOUS
    <3>2. y \in 1..L /\ new[y].kol = k
      BY <1>8
    <3>3. PICK x \in Int : x = L + 1 - y
      BY <3>2
    <3>4. x \in 1..L /\ new[y] = all[x] /\ L + 1 - x = y
      BY <1>9, <3>2, <3>3
    <3>5. x \in M
      BY <1>7, <3>2, <3>4
    <3>6. QED
      BY <1>6, <3>4, <3>5
  <2>5. QED
    BY <1>6, <2>2, <2>3, <2>4 DEF Bijection, Injection, Surjection, IsInjective
<1>11. \A i \in M : new[f[i]] = all[i]
  <2>1. \A i \in M : f[i] = L + 1 - i /\ i \in 1..L
    BY <1>6, <1>7
  <2>2. QED
    BY <1>9, <2>1
<1>12. ASSUME NEW i \in M, NEW j \in M, Pair(all[i]) = Pair(all[j])
       PROVE  Precedes(new, f[i], f[j]) <=> Precedes(all, i, j)
  <2>1. i \in 1..L /\ j \in 1..L /\ f[i] \in Int /\ f[j] \in Int /\ all[i].at \in Int /\ all[j].at \in Int
    BY <1>1, <1>3, <1>6, <1>7 DEF Dated
  <2>2. new[f[i]].at = all[i].at /\ new[f[j]].at = all[j].at
    BY <1>11
  <2>3. CASE i = j
    <3>1. ~(i < j) /\ ~(f[i] < f[j]) /\ ~(all[i].at < all[j].at)
      BY <2>1, <2>3
    <3>2. ~(new[f[i]].at < new[f[j]].at)
      BY <2>2, <3>1
    <3>3. QED
      BY <3>1, <3>2 DEF Precedes
  <2>4. CASE i # j
    <3>1. all[i].at # all[j].at
      BY <1>4, <1>12, <2>4
    <3>2. QED
      BY <2>2, <3>1 DEF Precedes
  <2>5. QED
    BY <2>3, <2>4
<1>13. /\ f \in Bijection(Mine(k, all), Mine(k, new))
       /\ \A i \in Mine(k, all) : new[f[i]] = all[i]
       /\ \A i, j \in Mine(k, all) : Pair(all[i]) = Pair(all[j]) =>
              (Precedes(new, f[i], f[j]) <=> Precedes(all, i, j))
  BY <1>4, <1>5, <1>10, <1>11, <1>12
<1>14. Profile(k, new, m, s, t) = Profile(k, all, m, s, t)
  BY <1>13, SameProfile
<1>15. QED
  BY <1>2, <1>14

\* What others do leaves a profile as it is.
LEMMA OthersFills ==
    ASSUME NEW k, NEW all, Dated(all), NEW new, Mine(k, new) = Mine(k, all),
           \A i \in DOMAIN all : new[i] = all[i], NEW m, NEW s, NEW t
    PROVE  Profile(k, new, m, s, t) = Profile(k, all, m, s, t)
<1>1. PICK f : f = [i \in Mine(k, all) |-> i]
  OBVIOUS
<1>2. \A i \in Mine(k, all) : f[i] = i /\ i \in DOMAIN all
  BY <1>1 DEF Mine
<1>3. f \in Bijection(Mine(k, all), Mine(k, new))
  <2>1. PICK M : M = Mine(k, all)
    OBVIOUS
  <2>2. f = [i \in M |-> i]
    BY <1>1, <2>1
  <2>3. f \in Bijection(M, M)
    BY <2>2 DEF Bijection, Injection, Surjection, IsInjective
  <2>4. QED
    BY <2>1, <2>3
<1>4. \A i \in Mine(k, all) : new[f[i]] = all[i]
  BY <1>2
<1>5. \A i, j \in Mine(k, all) : Pair(all[i]) = Pair(all[j]) => (Precedes(new, f[i], f[j]) <=> Precedes(all, i, j))
  BY <1>2 DEF Precedes
<1>6. QED
  BY <1>3, <1>4, <1>5, SameProfile

\* The marks that have come are not of what k has traded.
MarksOfOthers(k, all, m, new) ==
    /\ DOMAIN m \subseteq DOMAIN new /\ \A i \in DOMAIN m : new[i] = m[i]
    /\ \A i \in DOMAIN new \ DOMAIN m : \A j \in Mine(k, all) : all[j].token # new[i].token

LEMMA OthersMarks ==
    ASSUME NEW k, NEW all, NEW m, Dated(m), NEW new, MarksOfOthers(k, all, m, new), NEW s, NEW t
    PROVE  Profile(k, all, new, s, t) = Profile(k, all, m, s, t)
<1>1. /\ DOMAIN m \subseteq DOMAIN new /\ \A i \in DOMAIN m : new[i] = m[i]
      /\ \A i \in DOMAIN new \ DOMAIN m : \A j \in Mine(k, all) : all[j].token # new[i].token
  BY DEF MarksOfOthers
<1>2. ASSUME NEW g \in Pairs(k, all) PROVE History(g[2], new) = History(g[2], m)
  <2>1. PICK j \in Mine(k, all) : g = Pair(all[j])
    BY DEF Pairs
  <2>2. g[2] = all[j].token
    BY <2>1 DEF Pair
  <2>3. PICK of : of = {i \in DOMAIN m : m[i].token = g[2]}
    OBVIOUS
  <2>4. {i \in DOMAIN new : new[i].token = g[2]} = of
    BY <1>1, <2>2, <2>3
  <2>5. Timed(m, of)
    <3>1. of \in SUBSET DOMAIN m
      BY <2>3
    <3>2. QED
      BY <3>1, PartIsTimed
  <2>6. \A i \in of : new[i] = m[i]
    BY <1>1, <2>3
  <2>7. InOrder(new, of) = InOrder(m, of)
    BY <2>5, <2>6, OrderStays
  <2>8. QED
    BY <2>3, <2>4, <2>7 DEF History
<1>3. Positions(k, all, new, t) = Positions(k, all, m, t)
  BY <1>2 DEF Positions
<1>4. QED
  BY <1>3 DEF Profile

LEMMA OthersSocials ==
    ASSUME NEW k, NEW all, NEW m, NEW s, NEW new, \A x : x.kol = k => (x \in new <=> x \in s), NEW t
    PROVE  Profile(k, all, m, new, t) = Profile(k, all, m, s, t)
<1>1. {x \in new : x.kol = k} = {x \in s : x.kol = k}
  OBVIOUS
<1>2. QED
  BY <1>1 DEF Profile

-----------------------------------------------------------------------------
(* What a profile says.                                                    *)

LEMMA SummaryFields ==
    ASSUME NEW position, NEW buys, NEW days, NEW ended, NEW ids, NEW now
    PROVE  LET p == Summary(position, buys, days, ended, ids, now)
           IN  /\ p.asOf = now /\ p # NoProfile
               /\ p.inventory => \A g \in DOMAIN position : position[g].complete
               /\ p.realized = Net([g \in DOMAIN position |-> position[g].realized], DOMAIN position)
               /\ p.verified => p.historic /\ \A g \in DOMAIN position : position[g].fresh
<1>1. PICK p : p = Summary(position, buys, days, ended, ids, now)
  OBVIOUS
<1>2. p.asOf = now
  BY <1>1 DEF Summary
<1>3. p.status # "none"
  BY <1>1 DEF Summary
<1>4. p.inventory => \A g \in DOMAIN position : position[g].complete
  BY <1>1 DEF Summary
<1>5. p.realized = Net([g \in DOMAIN position |-> position[g].realized], DOMAIN position)
  BY <1>1 DEF Summary
<1>6. p.verified => p.historic /\ \A g \in DOMAIN position : position[g].fresh
  BY <1>1 DEF Summary
<1>7. NoProfile.status = "none"
  BY DEF NoProfile
<1>8. QED
  BY <1>1, <1>2, <1>3, <1>4, <1>5, <1>6, <1>7

LEMMA RowsOfPair ==
    ASSUME NEW k, NEW g, NEW all, Dated(all), AreFills(all), NEW rows, rows = RowsOf(k, g, all)
    PROVE  /\ Len(rows) \in Nat /\ DOMAIN rows = 1..Len(rows) /\ AreFills(rows)
           /\ \A i \in Mine(k, all) : Pair(all[i]) = g => \E n \in DOMAIN rows : rows[n] = all[i]
<1>1. PICK of : of = {i \in Mine(k, all) : Pair(all[i]) = g}
  OBVIOUS
<1>2. of \in SUBSET DOMAIN all
  BY <1>1 DEF Mine
<1>3. Timed(all, of) /\ rows = InOrder(all, of)
  BY <1>1, <1>2, PartIsTimed DEF RowsOf
<1>4. /\ Len(rows) = Cardinality(of) /\ Cardinality(of) \in Nat /\ DOMAIN rows = 1..Cardinality(of)
      /\ \A i \in of : rows[Rank(all, of, i) + 1] = all[i] /\ Rank(all, of, i) + 1 \in DOMAIN rows
      /\ \A n \in DOMAIN rows : \E i \in of : rows[n] = all[i] /\ Rank(all, of, i) = n - 1
  BY <1>3, RowsInOrder
<1>5. AreFills(rows)
  BY <1>2, <1>4 DEF AreFills
<1>6. QED
  BY <1>1, <1>4, <1>5

LEMMA ProfileTime ==
    ASSUME NEW k, NEW all, NEW m, NEW s, NEW t, Mine(k, all) # {}
    PROVE  Profile(k, all, m, s, t).asOf = t /\ Profile(k, all, m, s, t) # NoProfile
<1>1. PICK p : p = Profile(k, all, m, s, t)
  OBVIOUS
<1>2. PICK pos : pos = Positions(k, all, m, t)
  OBVIOUS
<1>3. \E buys, days, ended, ids : p = Summary(pos, buys, days, ended, ids, t)
  BY <1>1, <1>2 DEF Profile
<1>4. PICK buys, days, ended, ids : p = Summary(pos, buys, days, ended, ids, t)
  BY <1>3
<1>5. LET x == Summary(pos, buys, days, ended, ids, t)
      IN  /\ x.asOf = t /\ x # NoProfile
          /\ x.inventory => \A g \in DOMAIN pos : pos[g].complete
          /\ x.realized = Net([g \in DOMAIN pos |-> pos[g].realized], DOMAIN pos)
          /\ x.verified => x.historic /\ \A g \in DOMAIN pos : pos[g].fresh
  BY SummaryFields
<1>6. QED
  BY <1>1, <1>4, <1>5

LEMMA ProfileFields ==
    ASSUME NEW k, NEW all, NEW m, NEW s, NEW t, Mine(k, all) # {}, NEW p, p = Profile(k, all, m, s, t)
    PROVE  /\ p.asOf = t /\ p # NoProfile
           /\ p.inventory => \A g \in Pairs(k, all) : Position(RowsOf(k, g, all), History(g[2], m), t).complete
           /\ p.realized = Net([g \in Pairs(k, all) |-> Position(RowsOf(k, g, all), History(g[2], m), t).realized],
                               Pairs(k, all))
           /\ p.verified => /\ p.historic
                            /\ \A g \in Pairs(k, all) : Position(RowsOf(k, g, all), History(g[2], m), t).fresh
<1>1. PICK pos : pos = Positions(k, all, m, t)
  OBVIOUS
<1>2. PICK S : S = Pairs(k, all)
  OBVIOUS
<1>3. /\ DOMAIN pos = S
      /\ \A g \in S : pos[g] = Position(RowsOf(k, g, all), History(g[2], m), t)
  BY <1>1, <1>2 DEF Positions
<1>4. \E buys, days, ended, ids : p = Summary(pos, buys, days, ended, ids, t)
  BY <1>1 DEF Profile
<1>5. PICK buys, days, ended, ids : p = Summary(pos, buys, days, ended, ids, t)
  BY <1>4
<1>6. /\ p.asOf = t /\ p # NoProfile
      /\ p.inventory => \A g \in DOMAIN pos : pos[g].complete
      /\ p.realized = Net([g \in DOMAIN pos |-> pos[g].realized], DOMAIN pos)
      /\ p.verified => p.historic /\ \A g \in DOMAIN pos : pos[g].fresh
  <2>1. LET x == Summary(pos, buys, days, ended, ids, t)
        IN  /\ x.asOf = t /\ x # NoProfile
            /\ x.inventory => \A g \in DOMAIN pos : pos[g].complete
            /\ x.realized = Net([g \in DOMAIN pos |-> pos[g].realized], DOMAIN pos)
            /\ x.verified => x.historic /\ \A g \in DOMAIN pos : pos[g].fresh
    BY SummaryFields
  <2>2. QED
    BY <1>5, <2>1
<1>7. [g \in DOMAIN pos |-> pos[g].realized]
        = [g \in S |-> Position(RowsOf(k, g, all), History(g[2], m), t).realized]
  BY <1>3
<1>8. p.realized = Net([g \in S |-> Position(RowsOf(k, g, all), History(g[2], m), t).realized], S)
  BY <1>3, <1>6, <1>7
<1>9. QED
  BY <1>2, <1>3, <1>6, <1>8

\* A profile whose inventory is complete has every fill proven, was never short, and counts
\* the units in their turn.
LEMMA InventoryIsBacked ==
    ASSUME NEW k, NEW all, Dated(all), AreFills(all), NEW m, NEW s, NEW t, Mine(k, all) # {},
           NEW p, p = Profile(k, all, m, s, t), p.inventory
    PROVE  /\ \A i \in Mine(k, all) : all[i].proven
           /\ \A g \in Pairs(k, all) : NeverShort(RowsOf(k, g, all))
           /\ p.realized = Net([g \in Pairs(k, all) |-> Matched(RowsOf(k, g, all))], Pairs(k, all))
<1>1. PICK S : S = Pairs(k, all)
  OBVIOUS
<1>2. /\ \A g \in S : Position(RowsOf(k, g, all), History(g[2], m), t).complete
      /\ p.realized = Net([g \in S |-> Position(RowsOf(k, g, all), History(g[2], m), t).realized], S)
  BY <1>1, ProfileFields
<1>3. ASSUME NEW g \in S
      PROVE  /\ NeverShort(RowsOf(k, g, all))
             /\ Position(RowsOf(k, g, all), History(g[2], m), t).realized = Matched(RowsOf(k, g, all))
             /\ \A i \in Mine(k, all) : Pair(all[i]) = g => all[i].proven
  <2>1. PICK rows : rows = RowsOf(k, g, all)
    OBVIOUS
  <2>2. PICK h : h = History(g[2], m)
    OBVIOUS
  <2>3. /\ Len(rows) \in Nat /\ DOMAIN rows = 1..Len(rows) /\ AreFills(rows)
        /\ \A i \in Mine(k, all) : Pair(all[i]) = g => \E n \in DOMAIN rows : rows[n] = all[i]
    BY <2>1, RowsOfPair
  <2>4. Position(rows, h, t).complete
    BY <1>2, <2>1, <2>2
  <2>5. /\ NeverShort(rows) /\ Position(rows, h, t).realized = Matched(rows)
        /\ \A n \in DOMAIN rows : rows[n].proven
    BY <2>3, <2>4, CompleteIsMatched
  <2>6. QED
    BY <2>1, <2>2, <2>3, <2>5
<1>4. [g \in S |-> Position(RowsOf(k, g, all), History(g[2], m), t).realized]
        = [g \in S |-> Matched(RowsOf(k, g, all))]
  BY <1>3
<1>5. p.realized = Net([g \in S |-> Matched(RowsOf(k, g, all))], S)
  BY <1>2, <1>4
<1>6. \A i \in Mine(k, all) : all[i].proven
  <2>1. \A i \in Mine(k, all) : Pair(all[i]) \in S
    BY <1>1 DEF Pairs
  <2>2. QED
    BY <1>3, <2>1
<1>7. QED
  BY <1>1, <1>3, <1>5, <1>6

\* Whoever is advised to buy relies on a market that was fresh for every token.
LEMMA AdviceIsFresh ==
    ASSUME NEW k, NEW all, NEW m, Dated(m), NEW s, NEW t, Mine(k, all) # {},
           NEW p, p = Profile(k, all, m, s, t), NEW signal, Advice(p, signal) > 0
    PROVE  /\ p.historic
           /\ \A i \in Mine(k, all) : \E x \in ToSet(m) :
                x.token = all[i].token /\ t - x.at <= Settings.maxAge
<1>1. p.verified
  <2>1. ~Blocked(p, signal)
    BY DEF Advice
  <2>2. QED
    BY <2>1 DEF Blocked
<1>2. p.historic /\ \A g \in Pairs(k, all) : Position(RowsOf(k, g, all), History(g[2], m), t).fresh
  BY <1>1, ProfileFields
<1>3. ASSUME NEW i \in Mine(k, all)
      PROVE  \E x \in ToSet(m) : x.token = all[i].token /\ t - x.at <= Settings.maxAge
  <2>1. PICK g : g = Pair(all[i])
    OBVIOUS
  <2>2. g \in Pairs(k, all) /\ g[2] = all[i].token
    BY <2>1 DEF Pairs, Pair
  <2>3. PICK h : h = History(g[2], m)
    OBVIOUS
  <2>4. Position(RowsOf(k, g, all), h, t).fresh
    BY <1>2, <2>2, <2>3
  <2>5. h # <<>> /\ t - Last(h).at <= Settings.maxAge
    BY <2>4, PositionFields
  <2>6. PICK of : of = {j \in DOMAIN m : m[j].token = g[2]}
    OBVIOUS
  <2>7. Timed(m, of) /\ h = InOrder(m, of)
    <3>1. of \in SUBSET DOMAIN m
      BY <2>6
    <3>2. Timed(m, of)
      BY <3>1, PartIsTimed
    <3>3. QED
      BY <2>3, <2>6, <3>2 DEF History
  <2>8. /\ Len(h) = Cardinality(of) /\ Cardinality(of) \in Nat /\ DOMAIN h = 1..Cardinality(of)
        /\ \A n \in DOMAIN h : \E j \in of : h[n] = m[j] /\ Rank(m, of, j) = n - 1
    BY <2>7, RowsInOrder
  <2>9. Len(h) # 0
    <3>1. SUFFICES ASSUME Len(h) = 0 PROVE h = <<>>
      BY <2>5
    <3>2. DOMAIN h = {} /\ h = [n \in DOMAIN h |-> h[n]]
      BY <2>7, <2>8, <3>1 DEF InOrder
    <3>3. QED
      BY <3>2
  <2>10. Len(h) \in DOMAIN h
    BY <2>8, <2>9
  <2>11. PICK j \in of : h[Len(h)] = m[j]
    BY <2>8, <2>10
  <2>12. Last(h) = m[j]
    BY <2>11 DEF Last
  <2>13. m[j] \in ToSet(m) /\ m[j].token = all[i].token
    BY <2>2, <2>6 DEF ToSet
  <2>14. QED
    BY <2>5, <2>12, <2>13
<1>4. QED
  BY <1>2, <1>3

-----------------------------------------------------------------------------
(* The store of the fills and the profiles.                                *)

\* A profile that is stored is what the store would give at the time it was computed.
ProfilesFollow ==
    \A k \in Kols : profiles[k] # NoProfile =>
        /\ Mine(k, fills) # {}
        /\ profiles[k] = Profile(k, fills, marks, socials, profiles[k].asOf)

\* What an opening of the store is going to make is all that is missing, and nothing is
\* missing of a store that is open.
OpeningInStep ==
    /\ store \in {"old", "upgraded", "open"}
    /\ store = "old" => missing = {}
    /\ missing # {} => /\ store = "upgraded"
                       /\ missing = {k \in Kols : profiles[k] = NoProfile /\ Mine(k, fills) # {}}
    /\ store = "open" => missing = {} /\ \A k \in Kols : Mine(k, fills) # {} => profiles[k] # NoProfile

StoreInv ==
    /\ Dated(fills) /\ AreFills(fills) /\ Dated(marks)
    /\ DOMAIN profiles = Kols
    /\ ProfilesFollow
    /\ OpeningInStep

LEMMA OneMoreRow ==
    ASSUME NEW rows, rows \in Seq(ToSet(rows)), NEW f
    PROVE  LET new == Append(rows, f) IN
           /\ Len(rows) \in Nat /\ DOMAIN rows = 1..Len(rows)
           /\ new \in Seq(ToSet(new)) /\ Len(new) = Len(rows) + 1 /\ DOMAIN new = 1..Len(new)
           /\ \A i \in DOMAIN rows : new[i] = rows[i]
           /\ new[Len(rows) + 1] = f
<1>1. PICK new : new = Append(rows, f)
  OBVIOUS
<1>2. PICK S : S = ToSet(rows) \cup {f}
  OBVIOUS
<1>3. rows \in Seq(S) /\ f \in S
  BY <1>2
<1>4. /\ new \in Seq(S) /\ Len(new) = Len(rows) + 1
      /\ \A i \in 1..Len(rows) : new[i] = rows[i]
      /\ new[Len(rows) + 1] = f
      /\ ToSet(new) = ToSet(rows) \cup {f}
  BY <1>1, <1>3, AppendFacts
<1>5. Len(rows) \in Nat /\ DOMAIN rows = 1..Len(rows)
  OBVIOUS
<1>6. DOMAIN new = 1..Len(new)
  BY <1>4
<1>7. QED
  BY <1>1, <1>2, <1>4, <1>5, <1>6

\* What a row of a batch is known to be.
IsRow(f) == f.qty \in Int /\ f.gross \in Int /\ f.fee \in Int /\ f.at \in Int

\* A batch only adds rows that are trades.
LEMMA BatchAdds ==
    ASSUME NEW all, Dated(all), AreFills(all), NEW batch, Len(batch) \in Nat,
           \A i \in 1..Len(batch) : IsRow(batch[i]), NEW new, new = Ingested(all, batch)
    PROVE  /\ Dated(new) /\ AreFills(new)
           /\ DOMAIN all \subseteq DOMAIN new
           /\ \A i \in DOMAIN all : new[i] = all[i]
<1>1. PICK N \in Nat : N = Len(batch)
  OBVIOUS
<1>2. PICK kept : AfterRows(kept, all, batch)
  BY InsertSteps
<1> DEFINE Fine(rows) == /\ Dated(rows) /\ AreFills(rows)
                         /\ DOMAIN all \subseteq DOMAIN rows
                         /\ \A i \in DOMAIN all : rows[i] = all[i]
           S == {n \in 0..N : Fine(kept[n])}
<1>3. 0 \in S
  BY <1>2 DEF AfterRows
<1>4. ASSUME NEW n \in 0..(N - 1), n \in S PROVE n + 1 \in S
  <2>1. n \in Nat /\ n + 1 \in 1..N /\ n + 1 \in 0..N
    OBVIOUS
  <2>2. PICK old : old = kept[n]
    OBVIOUS
  <2>3. PICK f : f = batch[n + 1]
    OBVIOUS
  <2>4. Fine(old) /\ IsRow(f)
    BY <1>1, <1>4, <2>1, <2>2, <2>3
  <2>5. kept[n + 1] = Insert(old, f)
    BY <1>2, <2>1, <2>2, <2>3 DEF AfterRows
  <2>6. CASE ~(Valid(f) /\ \A i \in DOMAIN old : old[i].id # f.id /\ old[i].key # f.key)
    <3>1. kept[n + 1] = old
      BY <2>5, <2>6 DEF Insert
    <3> HIDE DEF Fine
    <3>2. QED
      BY <2>1, <2>4, <3>1
  <2>7. CASE Valid(f) /\ \A i \in DOMAIN old : old[i].id # f.id /\ old[i].key # f.key
    <3>1. PICK now : now = Append(old, f)
      OBVIOUS
    <3>2. kept[n + 1] = now
      BY <2>5, <2>7, <3>1 DEF Insert
    <3>3. IsFill(f) /\ f.at \in Int
      BY <2>4, <2>7 DEF Valid, IsRow, IsFill
    <3>4. /\ Len(old) \in Nat /\ DOMAIN old = 1..Len(old)
          /\ now \in Seq(ToSet(now)) /\ Len(now) = Len(old) + 1 /\ DOMAIN now = 1..Len(now)
          /\ \A i \in DOMAIN old : now[i] = old[i]
          /\ now[Len(old) + 1] = f
      <4>1. old \in Seq(ToSet(old))
        BY <2>4 DEF Dated
      <4>2. QED
        BY <3>1, <4>1, OneMoreRow
    <3>5. \A i \in DOMAIN now : i \in DOMAIN old \/ i = Len(old) + 1
      BY <3>4
    <3>6. Dated(now)
      BY <2>4, <3>3, <3>4, <3>5 DEF Dated
    <3>7. AreFills(now)
      BY <2>4, <3>3, <3>4, <3>5 DEF AreFills
    <3>8. DOMAIN all \subseteq DOMAIN now /\ \A i \in DOMAIN all : now[i] = all[i]
      <4>1. DOMAIN old \subseteq DOMAIN now
        BY <3>4
      <4>2. QED
        BY <2>4, <3>4, <4>1
    <3>9. Fine(now)
      BY <3>6, <3>7, <3>8
    <3> HIDE DEF Fine
    <3>10. QED
      BY <2>1, <3>2, <3>9
  <2>8. QED
    BY <2>6, <2>7
<1> HIDE DEF S
<1>5. \A n \in 0..N : n \in S
  BY <1>3, <1>4, UpTo
<1>6. N \in S
  BY <1>5
<1>7. QED
  BY <1>1, <1>2, <1>6 DEF S, AfterRows

LEMMA StoreInitially == PerformanceInit => StoreInv
<1>1. SUFFICES ASSUME PerformanceInit PROVE StoreInv
  OBVIOUS
<1>2. fills = OldFills /\ marks = <<>> /\ profiles = [k \in Kols |-> NoProfile]
      /\ store = "old" /\ missing = {}
  BY <1>1 DEF PerformanceInit
<1>3. Dated(OldFills) /\ AreFills(OldFills)
  <2>1. /\ OldFills \in Seq(ToSet(OldFills))
        /\ \A f \in ToSet(OldFills) : /\ f.qty \in Int /\ f.gross \in Int /\ f.fee \in Int /\ f.at \in Int
                                      /\ Valid(f)
    BY PerformanceAssumption
  <2>2. Len(OldFills) \in Nat /\ DOMAIN OldFills = 1..Len(OldFills)
    BY <2>1
  <2>3. \A i \in DOMAIN OldFills : OldFills[i] \in ToSet(OldFills)
    BY DEF ToSet
  <2>4. ASSUME NEW i \in DOMAIN OldFills PROVE IsFill(OldFills[i]) /\ OldFills[i].at \in Int
    <3>1. PICK f \in ToSet(OldFills) : f = OldFills[i]
      BY <2>3
    <3>2. IsFill(f) /\ f.at \in Int
      BY <2>1 DEF Valid, IsFill
    <3>3. QED
      BY <3>1, <3>2
  <2>5. QED
    BY <2>1, <2>2, <2>4 DEF Dated, AreFills
<1>4. Dated(<<>>)
  <2>1. <<>> \in Seq(ToSet(<<>>)) /\ Len(<<>>) = 0 /\ DOMAIN <<>> = {}
    OBVIOUS
  <2>2. DOMAIN <<>> = 1..Len(<<>>)
    BY <2>1
  <2>3. QED
    BY <2>1, <2>2 DEF Dated
<1>5. ProfilesFollow
  BY <1>2 DEF ProfilesFollow
<1>6. OpeningInStep
  BY <1>2 DEF OpeningInStep
<1>7. QED
  BY <1>2, <1>3, <1>4, <1>5, <1>6 DEF StoreInv

\* A rebuild of some leaves the profiles in step, if for the others nothing has changed.
LEMMA RebuildFollows ==
    ASSUME StoreInv, NEW kols, profiles' = Rebuilt(kols, fills', marks', socials'),
           \A k \in Kols \ kols : Mine(k, fills') = Mine(k, fills),
           \A k \in Kols \ kols : \A t : Profile(k, fills', marks', socials', t) = Profile(k, fills, marks, socials, t),
           store = "open" \/ (kols = missing /\ missing # {}), store' = "open", missing' = {},
           Dated(fills'), AreFills(fills'), Dated(marks')
    PROVE  StoreInv'
<1>1. ASSUME NEW k \in Kols
      PROVE  profiles'[k] = IF k \in kols THEN Profile(k, fills', marks', socials', clock) ELSE profiles[k]
  BY DEF Rebuilt
<1>2. DOMAIN profiles' = Kols
  BY DEF Rebuilt
<1>3. ASSUME NEW k \in Kols, profiles'[k] # NoProfile
      PROVE  /\ Mine(k, fills') # {}
             /\ profiles'[k] = Profile(k, fills', marks', socials', profiles'[k].asOf)
  <2>1. CASE k \in kols
    <3>1. PICK p : p = Profile(k, fills', marks', socials', clock)
      OBVIOUS
    <3>2. profiles'[k] = p
      BY <1>1, <2>1, <3>1
    <3>3. Mine(k, fills') # {}
      BY <1>3, <3>1, <3>2 DEF Profile
    <3>4. p.asOf = clock
      BY <3>1, <3>3, ProfileTime
    <3>5. QED
      BY <3>1, <3>2, <3>3, <3>4
  <2>2. CASE k \notin kols
    <3>1. profiles'[k] = profiles[k] /\ profiles[k] # NoProfile
      BY <1>1, <1>3, <2>2
    <3>2. Mine(k, fills) # {} /\ profiles[k] = Profile(k, fills, marks, socials, profiles[k].asOf)
      BY <3>1 DEF StoreInv, ProfilesFollow
    <3>3. QED
      BY <2>2, <3>1, <3>2
  <2>3. QED
    BY <2>1, <2>2
<1>4. ASSUME NEW k \in Kols, Mine(k, fills') # {} PROVE profiles'[k] # NoProfile
  <2>1. CASE k \in kols
    <3>1. PICK p : p = Profile(k, fills', marks', socials', clock)
      OBVIOUS
    <3>2. p # NoProfile
      BY <1>4, <3>1, ProfileTime
    <3>3. QED
      BY <1>1, <2>1, <3>1, <3>2
  <2>2. CASE k \notin kols
    <3>1. Mine(k, fills) # {} /\ profiles'[k] = profiles[k]
      BY <1>1, <1>4, <2>2
    <3>2. CASE store = "open"
      BY <3>1, <3>2 DEF StoreInv, OpeningInStep
    <3>3. CASE store # "open"
      BY <2>2, <3>1, <3>3 DEF StoreInv, OpeningInStep
    <3>4. QED
      BY <3>2, <3>3
  <2>3. QED
    BY <2>1, <2>2
<1>5. ProfilesFollow'
  BY <1>3 DEF ProfilesFollow
<1>6. OpeningInStep'
  BY <1>4 DEF OpeningInStep
<1>7. QED
  BY <1>2, <1>5, <1>6 DEF StoreInv

LEMMA FillsCome == ASSUME StoreInv, NEW batch \in Batches, IngestFills(batch) PROVE StoreInv'
<1>1. Dated(fills) /\ AreFills(fills) /\ Dated(marks)
  BY DEF StoreInv
<1>2. PICK new : new = fills'
  OBVIOUS
<1>3. /\ store = "open" /\ new = Ingested(fills, batch)
      /\ marks' = marks /\ socials' = socials /\ store' = store /\ missing' = missing
  BY <1>2 DEF IngestFills
<1>4. Len(batch) \in Nat /\ \A i \in 1..Len(batch) : IsRow(batch[i])
  <2>1. /\ batch \in Seq(ToSet(batch))
        /\ \A f \in ToSet(batch) : f.qty \in Int /\ f.gross \in Int /\ f.fee \in Int /\ f.at \in Int
    BY PerformanceAssumption
  <2>2. Len(batch) \in Nat /\ DOMAIN batch = 1..Len(batch)
    BY <2>1
  <2>3. \A i \in 1..Len(batch) : batch[i] \in ToSet(batch)
    BY <2>2 DEF ToSet
  <2>4. QED
    BY <2>1, <2>2, <2>3 DEF IsRow
<1>5. /\ Dated(new) /\ AreFills(new)
      /\ DOMAIN fills \subseteq DOMAIN new
      /\ \A i \in DOMAIN fills : new[i] = fills[i]
  BY <1>1, <1>3, <1>4, BatchAdds
<1>6. PICK kols : kols = {new[i].kol : i \in DOMAIN new \ DOMAIN fills}
  OBVIOUS
<1>7. profiles' = Rebuilt(kols, fills', marks', socials')
  BY <1>2, <1>3, <1>6 DEF IngestFills
<1>8. ASSUME NEW k \in Kols \ kols PROVE Mine(k, new) = Mine(k, fills)
  BY <1>5, <1>6 DEF Mine
<1>9. ASSUME NEW k \in Kols \ kols, NEW t
      PROVE  Profile(k, new, marks, socials, t) = Profile(k, fills, marks, socials, t)
  BY <1>1, <1>5, <1>8, OthersFills
<1>10. /\ \A k \in Kols \ kols : Mine(k, fills') = Mine(k, fills)
       /\ \A k \in Kols \ kols : \A t :
             Profile(k, fills', marks', socials', t) = Profile(k, fills, marks, socials, t)
  BY <1>2, <1>3, <1>8, <1>9
<1>11. store' = "open" /\ missing' = {} /\ Dated(fills') /\ AreFills(fills') /\ Dated(marks')
  BY <1>1, <1>2, <1>3, <1>5 DEF StoreInv, OpeningInStep
<1>12. QED
  BY <1>3, <1>7, <1>10, <1>11, RebuildFollows

LEMMA MarksCome == ASSUME StoreInv, NEW m \in MarkRows, IngestMarketHistory(m) PROVE StoreInv'
<1>1. Dated(fills) /\ AreFills(fills) /\ Dated(marks)
  BY DEF StoreInv
<1>2. PICK new : new = marks'
  OBVIOUS
<1>3. /\ store = "open" /\ new = Append(marks, m)
      /\ fills' = fills /\ socials' = socials /\ store' = store /\ missing' = missing
      /\ profiles' = Rebuilt(Traders(m.token), fills', marks', socials')
  BY <1>2 DEF IngestMarketHistory
<1>4. /\ Len(marks) \in Nat /\ DOMAIN marks = 1..Len(marks)
      /\ new \in Seq(ToSet(new)) /\ Len(new) = Len(marks) + 1 /\ DOMAIN new = 1..Len(new)
      /\ \A i \in DOMAIN marks : new[i] = marks[i]
      /\ new[Len(marks) + 1] = m
  <2>1. marks \in Seq(ToSet(marks))
    BY <1>1 DEF Dated
  <2>2. LET x == Append(marks, m) IN
        /\ Len(marks) \in Nat /\ DOMAIN marks = 1..Len(marks)
        /\ x \in Seq(ToSet(x)) /\ Len(x) = Len(marks) + 1 /\ DOMAIN x = 1..Len(x)
        /\ \A i \in DOMAIN marks : x[i] = marks[i]
        /\ x[Len(marks) + 1] = m
    BY <2>1, OneMoreRow
  <2>3. QED
    BY <1>3, <2>2
<1>5. \A i \in DOMAIN new : i \in DOMAIN marks \/ i = Len(marks) + 1
  BY <1>4
<1>6. Dated(new)
  <2>1. m.at \in Int
    BY PerformanceAssumption
  <2>2. QED
    BY <1>1, <1>4, <1>5, <2>1 DEF Dated
<1>7. ASSUME NEW k \in Kols \ Traders(m.token), NEW t
      PROVE  Profile(k, fills, new, socials, t) = Profile(k, fills, marks, socials, t)
  <2>1. DOMAIN marks \subseteq DOMAIN new
    BY <1>4
  <2>2. ASSUME NEW i \in DOMAIN new \ DOMAIN marks, NEW j \in Mine(k, fills)
        PROVE  fills[j].token # new[i].token
    <3>1. new[i] = m
      BY <1>4, <1>5
    <3>2. j \in DOMAIN fills /\ fills[j].kol = k
      BY DEF Mine
    <3>3. fills[j].token # m.token
      BY <3>2 DEF Traders
    <3>4. QED
      BY <3>1, <3>3
  <2>3. /\ \A i \in DOMAIN new \ DOMAIN marks : \A j \in Mine(k, fills) : fills[j].token # new[i].token
        /\ \A i \in DOMAIN marks : new[i] = marks[i]
    BY <1>4, <2>2
  <2>4. MarksOfOthers(k, fills, marks, new)
    BY <2>1, <2>3 DEF MarksOfOthers
  <2>5. QED
    BY <1>1, <2>4, OthersMarks
<1>8. PICK kols : kols = Traders(m.token)
  OBVIOUS
<1>9. profiles' = Rebuilt(kols, fills', marks', socials')
  BY <1>3, <1>8
<1>10. /\ \A k \in Kols \ kols : Mine(k, fills') = Mine(k, fills)
       /\ \A k \in Kols \ kols : \A t :
             Profile(k, fills', marks', socials', t) = Profile(k, fills, marks, socials, t)
  BY <1>2, <1>3, <1>7, <1>8
<1>11. store' = "open" /\ missing' = {} /\ Dated(fills') /\ AreFills(fills') /\ Dated(marks')
  BY <1>1, <1>2, <1>3, <1>6 DEF StoreInv, OpeningInStep
<1>12. QED
  BY <1>3, <1>9, <1>10, <1>11, RebuildFollows

LEMMA SocialsCome == ASSUME StoreInv, NEW s \in SocialRows, IngestSocial(s) PROVE StoreInv'
<1>1. Dated(fills) /\ AreFills(fills) /\ Dated(marks)
  BY DEF StoreInv
<1>2. PICK new : new = socials'
  OBVIOUS
<1>3. /\ store = "open" /\ new = {o \in socials : <<o.kol, o.account>> # <<s.kol, s.account>>} \cup {s}
      /\ fills' = fills /\ marks' = marks /\ store' = store /\ missing' = missing
      /\ profiles' = Rebuilt({s.kol}, fills', marks', socials')
  BY <1>2 DEF IngestSocial
<1>4. ASSUME NEW k \in Kols \ {s.kol}, NEW t
      PROVE  Profile(k, fills, marks, new, t) = Profile(k, fills, marks, socials, t)
  <2>1. \A x : x.kol = k => (x \in new <=> x \in socials)
    BY <1>3
  <2>2. QED
    BY <2>1, OthersSocials
<1>5. PICK kols : kols = {s.kol}
  OBVIOUS
<1>6. profiles' = Rebuilt(kols, fills', marks', socials')
  BY <1>3, <1>5
<1>7. /\ \A k \in Kols \ kols : Mine(k, fills') = Mine(k, fills)
      /\ \A k \in Kols \ kols : \A t :
            Profile(k, fills', marks', socials', t) = Profile(k, fills, marks, socials, t)
  BY <1>2, <1>3, <1>4, <1>5
<1>8. store' = "open" /\ missing' = {} /\ Dated(fills') /\ AreFills(fills') /\ Dated(marks')
  BY <1>1, <1>3 DEF StoreInv, OpeningInStep
<1>9. QED
  BY <1>3, <1>6, <1>7, <1>8, RebuildFollows

LEMMA StoreStep == StoreInv /\ [PerformanceNext]_pvars => StoreInv'
<1> SUFFICES ASSUME StoreInv, [PerformanceNext]_pvars PROVE StoreInv'
  OBVIOUS
<1>1. ASSUME NEW batch \in Batches, IngestFills(batch) PROVE StoreInv'
  BY <1>1, FillsCome
<1>2. ASSUME NEW m \in MarkRows, IngestMarketHistory(m) PROVE StoreInv'
  BY <1>2, MarksCome
<1>3. ASSUME NEW s \in SocialRows, IngestSocial(s) PROVE StoreInv'
  BY <1>3, SocialsCome
<1>4. CASE Upgrade
  <2>1. /\ profiles' = [k \in Kols |-> NoProfile] /\ store' = "upgraded" /\ missing' = missing
        /\ fills' = fills /\ marks' = marks /\ socials' = socials /\ store = "old" /\ missing = {}
    BY <1>4 DEF Upgrade, StoreInv, OpeningInStep
  <2>2. ProfilesFollow'
    BY <2>1 DEF ProfilesFollow
  <2>3. OpeningInStep'
    BY <2>1 DEF OpeningInStep
  <2>4. DOMAIN profiles' = Kols
    BY <2>1
  <2>5. QED
    BY <2>1, <2>2, <2>3, <2>4 DEF StoreInv
<1>5. CASE ReadMissing
  <2>1. /\ store # "old" /\ missing = {}
        /\ missing' = {k \in Kols : profiles[k] = NoProfile /\ Mine(k, fills) # {}}
        /\ store' = (IF missing' = {} THEN "open" ELSE store)
        /\ fills' = fills /\ marks' = marks /\ socials' = socials /\ profiles' = profiles
    BY <1>5 DEF ReadMissing
  <2>2. PICK none : none = {k \in Kols : profiles[k] = NoProfile /\ Mine(k, fills) # {}}
    OBVIOUS
  <2>3. missing' = none /\ (\A k \in Kols : k \in none <=> profiles[k] = NoProfile /\ Mine(k, fills) # {})
        /\ none = {k \in Kols : profiles'[k] = NoProfile /\ Mine(k, fills') # {}}
    BY <2>1, <2>2
  <2>4. ProfilesFollow'
    BY <2>1 DEF StoreInv, ProfilesFollow
  <2>5. OpeningInStep'
    <3>1. store = "open" => none = {}
      BY <2>3 DEF StoreInv, OpeningInStep
    <3>2. CASE none = {}
      BY <2>1, <2>3, <3>2 DEF OpeningInStep
    <3>3. CASE none # {}
      <4>1. store' = store /\ store' # "old" /\ store' # "open"
        BY <2>1, <2>3, <3>1, <3>3
      <4>2. CASE store = "upgraded"
        BY <2>1, <2>3, <3>3, <4>1, <4>2 DEF OpeningInStep
      <4>3. store = "upgraded"
        BY <4>1, <2>1 DEF StoreInv, OpeningInStep
      <4>4. QED
        BY <4>2, <4>3
    <3>4. QED
      BY <3>2, <3>3
  <2>6. QED
    BY <2>1, <2>4, <2>5 DEF StoreInv
<1>6. CASE MaterializeMissing
  <2>1. /\ missing # {} /\ profiles' = Rebuilt(missing, fills', marks', socials')
        /\ missing' = {} /\ store' = "open"
        /\ fills' = fills /\ marks' = marks /\ socials' = socials
    BY <1>6 DEF MaterializeMissing
  <2>2. /\ \A k \in Kols \ missing : Mine(k, fills') = Mine(k, fills)
        /\ \A k \in Kols \ missing : \A t :
              Profile(k, fills', marks', socials', t) = Profile(k, fills, marks, socials, t)
    BY <2>1
  <2>3. Dated(fills') /\ AreFills(fills') /\ Dated(marks')
    BY <2>1 DEF StoreInv
  <2>4. QED
    BY <2>1, <2>2, <2>3, RebuildFollows
<1>7. CASE OpeningStops
  <2>1. /\ missing # {} /\ missing' = {} /\ store' = store /\ profiles' = profiles
        /\ fills' = fills /\ marks' = marks /\ socials' = socials
    BY <1>7 DEF OpeningStops
  <2>2. ProfilesFollow'
    BY <2>1 DEF StoreInv, ProfilesFollow
  <2>3. OpeningInStep'
    BY <2>1 DEF StoreInv, OpeningInStep
  <2>4. QED
    BY <2>1, <2>2, <2>3 DEF StoreInv
<1>8. CASE RebuildAll
  <2>1. PICK kols : kols = {fills[i].kol : i \in DOMAIN fills}
    OBVIOUS
  <2>2. /\ store = "open" /\ profiles' = Rebuilt(kols, fills', marks', socials')
        /\ missing' = missing /\ store' = store
        /\ fills' = fills /\ marks' = marks /\ socials' = socials
    BY <1>8, <2>1 DEF RebuildAll
  <2>3. /\ \A k \in Kols \ kols : Mine(k, fills') = Mine(k, fills)
        /\ \A k \in Kols \ kols : \A t :
              Profile(k, fills', marks', socials', t) = Profile(k, fills, marks, socials, t)
    BY <2>2
  <2>4. Dated(fills') /\ AreFills(fills') /\ Dated(marks') /\ missing' = {} /\ store' = "open"
    BY <2>2 DEF StoreInv, OpeningInStep
  <2>5. QED
    BY <2>2, <2>3, <2>4, RebuildFollows
<1>9. CASE Tick
  BY <1>9 DEF Tick, StoreInv, ProfilesFollow, OpeningInStep
<1>10. CASE UNCHANGED pvars
  BY <1>10 DEF pvars, StoreInv, ProfilesFollow, OpeningInStep
<1>11. QED
  BY <1>1, <1>2, <1>3, <1>4, <1>5, <1>6, <1>7, <1>8, <1>9, <1>10 DEF PerformanceNext

LEMMA StoreIsRight == StoreInv => ProfilesAreRight
<1>1. SUFFICES ASSUME StoreInv PROVE ProfilesAreRight
  OBVIOUS
<1>2. Dated(fills) /\ AreFills(fills) /\ Dated(marks)
  BY <1>1 DEF StoreInv
<1>3. ASSUME NEW k \in Kols, profiles[k] # NoProfile
      PROVE  Mine(k, fills) # {} /\ profiles[k] = Profile(k, fills, marks, socials, profiles[k].asOf)
  BY <1>1, <1>3 DEF StoreInv, ProfilesFollow
<1>4. ProfileIsCurrent
  <2>1. SUFFICES ASSUME store = "open", NEW k \in Kols
                 PROVE  /\ profiles[k] = NoProfile <=> Mine(k, fills) = {}
                        /\ profiles[k] = NoProfile \/ Tied(k) \/
                             profiles[k] = Profile(k, Backwards(fills), marks, socials, profiles[k].asOf)
    BY DEF ProfileIsCurrent
  <2>2. profiles[k] = NoProfile <=> Mine(k, fills) = {}
    BY <1>1, <1>3, <2>1 DEF StoreInv, OpeningInStep
  <2>3. ASSUME profiles[k] # NoProfile, ~Tied(k)
        PROVE  profiles[k] = Profile(k, Backwards(fills), marks, socials, profiles[k].asOf)
    <3>1. PICK t : t = profiles[k].asOf
      OBVIOUS
    <3>2. \A i, j \in Mine(k, fills) : i # j /\ fills[i].at = fills[j].at => Pair(fills[i]) # Pair(fills[j])
      BY <2>3 DEF Tied
    <3>3. Profile(k, Backwards(fills), marks, socials, t) = Profile(k, fills, marks, socials, t)
      BY <1>2, <3>2, BackwardsIsSame
    <3>4. QED
      BY <1>3, <2>3, <3>1, <3>3
  <2>4. QED
    BY <2>2, <2>3
<1>5. VerifiedIsBacked
  <2>1. SUFFICES ASSUME NEW k \in Kols, profiles[k] # NoProfile, NEW p, p = profiles[k]
                 PROVE  /\ p.inventory => Backed(k, p)
                        /\ (\E s \in SignalsSeen : Advice(p, s) > 0) =>
                             /\ p.historic
                             /\ \A i \in Mine(k, fills) : \E m \in ToSet(marks) :
                                  m.token = fills[i].token /\ p.asOf - m.at <= Settings.maxAge
    BY DEF VerifiedIsBacked
  <2>2. PICK t : t = p.asOf
    OBVIOUS
  <2>3. Mine(k, fills) # {} /\ p = Profile(k, fills, marks, socials, t)
    BY <1>3, <2>1, <2>2
  <2>4. ASSUME p.inventory PROVE Backed(k, p)
    <3>1. /\ \A i \in Mine(k, fills) : fills[i].proven
          /\ \A g \in Pairs(k, fills) : NeverShort(RowsOf(k, g, fills))
          /\ p.realized = Net([g \in Pairs(k, fills) |-> Matched(RowsOf(k, g, fills))], Pairs(k, fills))
      BY <1>2, <2>3, <2>4, InventoryIsBacked
    <3>2. QED
      BY <3>1 DEF Backed
  <2>5. ASSUME NEW s \in SignalsSeen, Advice(p, s) > 0
        PROVE  /\ p.historic
               /\ \A i \in Mine(k, fills) : \E m \in ToSet(marks) :
                    m.token = fills[i].token /\ p.asOf - m.at <= Settings.maxAge
    BY <1>2, <2>2, <2>3, <2>5, AdviceIsFresh
  <2>6. QED
    BY <2>4, <2>5
<1>6. QED
  BY <1>4, <1>5 DEF ProfilesAreRight

\* In every behaviour of the store, a profile is what the fills and the market give in whatever
\* order they came, whoever has fills has one once the store is open, and what a profile calls
\* verified is backed by the units of the fills, first in first out (VerifiedPerformanceStore).
THEOREM ProfilesAlwaysRight == PerformanceSpec => []ProfilesAreRight
<1>1. PerformanceInit => StoreInv
  BY StoreInitially
<1>2. StoreInv /\ [PerformanceNext]_pvars => StoreInv'
  BY StoreStep
<1>3. StoreInv => ProfilesAreRight
  BY StoreIsRight
<1>4. QED
  BY <1>1, <1>2, <1>3, PTL DEF PerformanceSpec

=============================================================================
