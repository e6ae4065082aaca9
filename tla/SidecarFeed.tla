----------------------------- MODULE SidecarFeed -----------------------------
(***************************************************************************)
(* How the watcher takes the events of the sidecar's file into its inbox   *)
(* (sidecar_events and the sidecar records of State, fomo/app.py).  The    *)
(* cursors are rows of the table kv, under the generation of the file,     *)
(* under no generation, or under the path of another host.                 *)
(***************************************************************************)
EXTENDS NdjsonLog

CONSTANTS
    EventIn,        \* [Lines -> the event of a line, or NoEvent: filtered or malformed]
    NoEvent,
    Copied,         \* cursors that the state may hold from another host
    MaxInvented     \* bound: the generations that polls may invent beyond the writer's

ASSUME FeedAssumption == Copied \subseteq Nat /\ MaxInvented \in Nat

Missing == -1
Generations == 0..(MaxTurns + MaxStops + MaxInvented)
EventIds == {EventIn[l] : l \in Lines} \ {NoEvent}

VARIABLES
    scan,           \* [Generations -> cursor of the scan, or Missing]
    last,           \* the cursor under no generation, or Missing
    host,           \* the cursor of another host, or Missing
    known,          \* sidecar_generation, or Missing
    records,        \* sidecar_records: set of [gen, start, event, done]
    committed,      \* [Generations -> sidecar_offset]
    inbox,          \* [EventIds -> "none", "pending" or "done", with its generation]
    poll,           \* a running sidecar_events or complete_event: [at, announced, former, gen, offset, size]
    foreign         \* history: [Generations -> how far cursors that are not its own reached into its file]

cursors == <<scan, last, host, known>>
svars   == <<cursors, records, committed, inbox, poll, foreign>>

NoPoll == [at |-> "idle", announced |-> 0, former |-> 0, gen |-> 0, offset |-> 0, size |-> 0]

FeedInit ==
    /\ scan = [g \in Generations |-> Missing] /\ last = Missing /\ known = Missing
    /\ host \in Copied \cup {Missing}
    /\ records = {} /\ committed = [g \in Generations |-> 0]
    /\ inbox = [e \in EventIds |-> [status |-> "none", gen |-> 0]]
    /\ poll = NoPoll /\ foreign = [g \in Generations |-> 0]

-----------------------------------------------------------------------------
(* Where a poll begins.  An action is what is read and the commit after it.  *)

\* the generation the writer announces; kv keeps it once it has changed
PollMarker ==
    /\ poll.at = "idle"
    /\ LET g      == marker.gen
           former == IF known = Missing THEN g ELSE known
       IN  /\ g \in Generations
           /\ known' = IF g # former THEN g ELSE known
           /\ poll' = [NoPoll EXCEPT !.at = "resume", !.announced = g, !.former = former]
    /\ UNCHANGED <<scan, last, host, records, committed, inbox, foreign>>

Fits(c, size) == c # Missing /\ c <= size

\* the furthest cursor of any generation or host that lies in the file
Furthest(size) ==
    LET fitting == {c \in {scan[g] : g \in Generations} \cup {host} : Fits(c, size)}
    IN  IF fitting = {} THEN Missing ELSE Max(fitting)

\* a mutant: the furthest cursor, whatever it belongs to
ResumeFurthest(gen, size) == Furthest(size)

\* _sidecar_resume_offset: the generation's own cursor, the last one, or the furthest of all
Resume(gen, size) ==
    IF Fits(scan[gen], size) THEN scan[gen]
    ELSE IF Fits(last, size) THEN last
    ELSE Furthest(size)

\* what a generation without a cursor of its own may be begun at
ForeignReach(gen, size) ==
    Max({foreign[gen], committed[gen]}
          \cup {c \in {scan[g] : g \in Generations} \cup {last, host} : Fits(c, size)})

PollResume ==
    /\ poll.at = "resume"
    /\ LET g       == poll.announced
           size    == Len(text)
           resumed == Resume(g, size)
           offset  == IF resumed = Missing THEN committed[g] ELSE resumed
       IN  /\ scan' = [scan EXCEPT ![g] = offset]
           /\ foreign' = IF Fits(scan[g], size) THEN foreign ELSE [foreign EXCEPT ![g] = ForeignReach(g, size)]
           /\ poll' = [poll EXCEPT !.at = "last", !.offset = offset, !.size = size]
    /\ UNCHANGED <<last, host, known, records, committed, inbox>>

ReadsFrom(gen, offset) == [NoPoll EXCEPT !.at = "lines", !.gen = gen, !.offset = offset]

PollLast ==
    /\ poll.at = "last"
    /\ last' = poll.offset
    /\ poll' = IF poll.offset > poll.size THEN [poll EXCEPT !.at = "fresh"]
               ELSE ReadsFrom(poll.announced, poll.offset)
    /\ UNCHANGED <<scan, host, known, records, committed, inbox, foreign>>

\* a cursor beyond the end tells of a truncation that no marker announced: the poll reads
\* from the start, under a generation of its own
PollFresh ==
    /\ poll.at = "fresh"
    /\ LET gen == Max({poll.announced, poll.former + 1})
       IN  /\ gen \in Generations
           /\ known' = gen
           /\ poll' = ReadsFrom(gen, 0)
    /\ UNCHANGED <<scan, last, host, records, committed, inbox, foreign>>

-----------------------------------------------------------------------------
(* Line by line, and event by event.                                         *)

\* enqueue_sidecar_line: the event and the record of the line with the cursor
PollLine ==
    /\ poll.at = "lines" /\ poll.offset < Len(text)
    /\ LET e   == EventIn[text[poll.offset + 1]]
           g   == poll.gen
           end == poll.offset + 1
           r   == [gen |-> g, start |-> poll.offset, event |-> e,
                   done |-> e = NoEvent \/ inbox[e].status = "done"]
       IN  /\ inbox' = IF e = NoEvent \/ inbox[e].status # "none" THEN inbox
                       ELSE [inbox EXCEPT ![e] = [status |-> "pending", gen |-> g]]
           /\ records' = IF \E q \in records : q.gen = g /\ q.start = r.start THEN records
                         ELSE records \cup {r}
           /\ scan' = [scan EXCEPT ![g] = end]
           /\ foreign' = IF g > marker.gen THEN [foreign EXCEPT ![g] = Max({@, end})] ELSE foreign
           /\ poll' = [poll EXCEPT !.at = "taken", !.offset = end]
    /\ UNCHANGED <<last, host, known, committed>>

\* complete_event, when the dispatcher is done with an event: the one thread runs it
\* between its polls
Complete(e) ==
    /\ poll.at = "idle" /\ inbox[e].status = "pending"
    /\ inbox' = [inbox EXCEPT ![e].status = "done"]
    /\ records' = {IF r.event = e /\ r.gen = inbox[e].gen THEN [r EXCEPT !.done = TRUE] ELSE r : r \in records}
    /\ poll' = [NoPoll EXCEPT !.at = "completed", !.gen = inbox[e].gen]
    /\ UNCHANGED <<cursors, committed, foreign>>

\* _advance_sidecar_offset: over the lines that are done, from where it stood
Advanced(recs, g, at) ==
    Max({n \in at..(at + Cardinality(recs)) :
            \A i \in at..(n - 1) : \E r \in recs : r.gen = g /\ r.start = i /\ r.done})

Advance ==
    /\ poll.at \in {"taken", "completed"}
    /\ committed' = [committed EXCEPT ![poll.gen] = Advanced(records, poll.gen, @)]
    /\ poll' = IF poll.at = "taken" THEN [poll EXCEPT !.at = "lines"] ELSE NoPoll
    /\ UNCHANGED <<cursors, records, inbox, foreign>>

PollEnds ==
    /\ poll.at = "lines" /\ poll.offset >= Len(text)
    /\ poll' = NoPoll
    /\ UNCHANGED <<cursors, records, committed, inbox, foreign>>

\* the watcher ends between two commits
PollStops ==
    /\ poll.at # "idle"
    /\ poll' = NoPoll
    /\ UNCHANGED <<cursors, records, committed, inbox, foreign>>

FeedNext ==
    \/ PollMarker \/ PollResume \/ PollLast \/ PollFresh \/ PollLine
    \/ \E e \in EventIds : Complete(e)
    \/ Advance \/ PollEnds \/ PollStops

-----------------------------------------------------------------------------
(* Properties.                                                               *)

\* Every line between the cursor a generation was begun at and the cursor it has now has its
\* event in the inbox: none is skipped by an end of the process between two commits or by a
\* poll beside a rotation (sidecar_events, enqueue_sidecar_line).  The lines before a foreign
\* cursor are lost where the file of a new generation has outgrown it when the first poll
\* comes, after a rotation like any other; `foreign' is as far as such a cursor reached, of
\* another generation, of no generation, of another host, or left under this generation by
\* a poll that invented it (_sidecar_resume_offset).  Nothing is said after a rotation that
\* ended between its truncation and its marker, nor of lines that were archived unread.
NothingSkipped ==
    ~unmarked => \A i \in DOMAIN text :
        foreign[marker.gen] < i /\ i <= scan[marker.gen] /\ EventIn[text[i]] # NoEvent
          => inbox[EventIn[text[i]]].status # "none"
=============================================================================
