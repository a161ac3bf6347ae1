---------------------------- MODULE EventStream ----------------------------
(***************************************************************************)
(* The event log of a session (src/events.py) and the SSE streams that     *)
(* replay and follow it (src/api/sse.py, src/api/routers/events.py), seen  *)
(* by one client that reconnects with the last id it was given.            *)
(*                                                                         *)
(* Only the worker thread of the run queue emits; it appends a line and    *)
(* copies the list of subscribers under the emitter's lock and calls them  *)
(* after it. The streams run on the event-loop thread. An event is its     *)
(* number in the order of emission; what it says is left out.              *)
(***************************************************************************)
EXTENDS Integers, Sequences, SequencesExt

CONSTANTS
    MaxEvents,    \* bound on the events emitted
    MaxConns,     \* bound on the connections the client opens
    MaxCrashes,   \* bound on the crashes of the server
    SinceParams   \* the values of ?since= a client may put in its URL

ASSUME EventStreamAssumption ==
    /\ MaxEvents \in Nat /\ MaxConns \in Nat /\ MaxCrashes \in Nat
    /\ SinceParams \subseteq Nat

VARIABLES
    log,       \* events.jsonl: the events on its readable lines, in order
    torn,      \* how many of its lines json.loads refuses: nothing depends on
               \* where they stand; the line that is being written is one
    newline,   \* does the file end with a newline?
    emitted,   \* how many events were emitted
    phase,     \* where emit() stands
    pending,   \* the subscribers emit() has still to call
    subs,      \* the subscribers of each EventEmitter this process made, in order
    shared,    \* _SESSION_EMITTERS[sid]: an object, or None
    active,    \* _EMITTERS[sid]: an object, or None
    runs,      \* the emitter of the run in progress, or None
    stream,    \* the generator of each connection
    wire,      \* frames sent and not received, per connection
    client,    \* the client: its connection, its cursor, its URL
    got,       \* the events the client was given, per connection
    crashes    \* how often the server crashed

emitterVars == <<log, torn, newline, emitted, phase, pending>>
registryVars == <<shared, active, runs>>
streamVars == <<stream, wire, client, got>>
vars == <<emitterVars, subs, registryVars, streamVars, crashes>>

Conns == 1 .. MaxConns
Events == 1 .. MaxEvents
None == 0
NoStream ==
    [st |-> "unused", em |-> None, since |-> 0, replay |-> <<>>, queue |-> <<>>,
     subAt |-> 0, readAt |-> 0]
Writing == phase \in {"writing", "gluing"}   \* the emitter's lock is held

Init ==
    /\ log = <<>> /\ torn = 0 /\ newline = TRUE /\ emitted = 0
    /\ phase = "idle" /\ pending = <<>>
    /\ subs = <<>> /\ shared = None /\ active = None /\ runs = None
    /\ stream = [c \in Conns |-> NoStream]
    /\ wire = [c \in Conns |-> <<>>]
    /\ got = [c \in Conns |-> <<>>]
    /\ \E n \in SinceParams : client = [conn |-> None, last |-> -1, param |-> n]
    /\ crashes = 0

-----------------------------------------------------------------------------
(* The registry of emitters *)

\* Resolve(e): e is what emitter_for_session returns: the active emitter, or
\* the one every caller shares, or a new one that is shared from now on.
Resolve(e) ==
    IF active # None \/ shared # None
    THEN /\ e = IF active # None THEN active ELSE shared
         /\ UNCHANGED subs
    ELSE e = Len(subs) + 1 /\ subs' = Append(subs, <<>>)

\* A run registers the emitter it found.
RunBegins ==
    /\ runs = None
    /\ \E e \in 1 .. Len(subs) + 1 :
         Resolve(e) /\ shared' = e /\ active' = e /\ runs' = e
    /\ UNCHANGED <<emitterVars, streamVars, crashes>>

\* Mutant: the end of a run forgets the shared emitter too.
RunEndsForgetting ==
    /\ runs # None /\ phase = "idle"
    /\ runs' = None /\ active' = None /\ shared' = None
    /\ UNCHANGED <<emitterVars, subs, streamVars, crashes>>

\* Its end takes it out of the active ones; the shared one stays.
RunEnds ==
    /\ runs # None /\ phase = "idle"
    /\ runs' = None /\ active' = None
    /\ UNCHANGED <<emitterVars, subs, shared, streamVars, crashes>>

-----------------------------------------------------------------------------
(* emit() *)

\* With the lock held the line begins in the file; behind a torn line it
\* becomes part of that line, and neither can be read any more.
EmitWrites ==
    /\ runs # None /\ phase = "idle" /\ emitted < MaxEvents
    /\ emitted' = emitted + 1
    /\ phase' = IF newline THEN "writing" ELSE "gluing"
    /\ torn' = IF newline THEN torn + 1 ELSE torn
    /\ newline' = FALSE
    /\ UNCHANGED <<log, pending, subs, registryVars, streamVars, crashes>>

\* The line is complete; the subscribers are copied and the lock is released.
EmitWritten ==
    /\ Writing
    /\ IF phase = "writing"
       THEN log' = Append(log, emitted) /\ torn' = torn - 1
       ELSE UNCHANGED <<log, torn>>
    /\ newline' = TRUE
    /\ pending' = subs[runs]
    /\ phase' = IF pending' = <<>> THEN "idle" ELSE "telling"
    /\ UNCHANGED <<emitted, subs, registryVars, streamVars, crashes>>

\* One callback: call_soon_threadsafe puts the event in the queue of a stream.
\* A stream that has ended meanwhile leaves its queue to nobody.
Notify ==
    /\ phase = "telling"
    /\ LET c == Head(pending) IN
         stream' = IF stream[c].st = "over" THEN stream
                   ELSE [stream EXCEPT ![c].queue = Append(@, emitted)]
    /\ pending' = Tail(pending)
    /\ phase' = IF pending' = <<>> THEN "idle" ELSE "telling"
    /\ UNCHANGED <<log, torn, newline, emitted, subs, registryVars, wire, client,
                   got, crashes>>

-----------------------------------------------------------------------------
(* History *)

\* event_count() counts the lines, readable or not.
EventCount == Len(log) + torn
\* history() skips the lines it cannot read: events[since:], each with its index.
HistorySince(n) ==
    [i \in 1 .. Len(log) - n |-> [id |-> n + i - 1, ev |-> log[n + i]]]

-----------------------------------------------------------------------------
(* A stream *)

\* Mutant: a reconnecting client starts at the last event it has seen.
ParseSinceLast ==
    IF client.param > 0 THEN client.param
    ELSE IF client.last >= 0 THEN client.last ELSE 0

\* _parse_since: a positive ?since= wins over Last-Event-ID.
ParseSince ==
    IF client.param > 0 THEN client.param
    ELSE IF client.last >= 0 THEN client.last + 1 ELSE 0

\* The handler of GET /events finds the emitter and the place to start from.
Connect(c) ==
    /\ client.conn = None
    /\ stream[c].st = "unused"
    /\ \A d \in Conns : d < c => stream[d].st # "unused"
    /\ \E e \in 1 .. Len(subs) + 1 :
         /\ Resolve(e)
         /\ shared' = IF active # None THEN shared ELSE e
         /\ stream' = [stream EXCEPT
                ![c] = [NoStream EXCEPT !.st = "accepted", !.em = e,
                                        !.since = ParseSince]]
    /\ client' = [client EXCEPT !.conn = c]
    /\ UNCHANGED <<emitterVars, active, runs, wire, got, crashes>>

\* Mutant: a stream subscribes only after it has read the file.
SubscribeLate(c) ==
    \/ /\ stream[c].st = "accepted"
       /\ stream' = [stream EXCEPT ![c].st = "subscribed", ![c].subAt = emitted]
       /\ UNCHANGED <<emitterVars, subs, registryVars, wire, client, got, crashes>>
    \/ /\ stream[c].st = "open" /\ ~Writing
       /\ c \notin ToSet(subs[stream[c].em])
       /\ subs' = [subs EXCEPT ![stream[c].em] = Append(@, c)]
       /\ UNCHANGED <<emitterVars, registryVars, stream, wire, client, got, crashes>>

\* The generator subscribes, which takes the emitter's lock, ...
Subscribe(c) ==
    /\ stream[c].st = "accepted" /\ ~Writing
    /\ subs' = [subs EXCEPT ![stream[c].em] = Append(@, c)]
    /\ stream' = [stream EXCEPT ![c].st = "subscribed", ![c].subAt = emitted]
    /\ UNCHANGED <<emitterVars, registryVars, wire, client, got, crashes>>

\* ... and then reads the file without it.
ReadHistory(c) ==
    /\ stream[c].st = "subscribed"
    /\ stream' = [stream EXCEPT ![c].st = "open", ![c].readAt = emitted,
                                ![c].replay = HistorySince(stream[c].since)]
    /\ UNCHANGED <<emitterVars, subs, registryVars, wire, client, got, crashes>>

Send(c, id, e) == wire' = [wire EXCEPT ![c] = Append(@, [id |-> id, ev |-> e])]

Replay(c) ==
    /\ stream[c].st = "open" /\ stream[c].replay # <<>>
    /\ LET f == Head(stream[c].replay) IN Send(c, f.id, f.ev)
    /\ stream' = [stream EXCEPT ![c].replay = Tail(@)]
    /\ UNCHANGED <<emitterVars, subs, registryVars, client, got, crashes>>

\* Mutant: live events are sent while the replay is under way.
FollowEarly(c) ==
    /\ stream[c].st = "open" /\ stream[c].queue # <<>>
    /\ Send(c, EventCount - 1, Head(stream[c].queue))
    /\ stream' = [stream EXCEPT ![c].queue = Tail(@)]
    /\ UNCHANGED <<emitterVars, subs, registryVars, client, got, crashes>>

\* The id of a live event is read from the file when the event is sent.
Follow(c) ==
    /\ stream[c].st = "open" /\ stream[c].replay = <<>> /\ stream[c].queue # <<>>
    /\ Send(c, EventCount - 1, Head(stream[c].queue))
    /\ stream' = [stream EXCEPT ![c].queue = Tail(@)]
    /\ UNCHANGED <<emitterVars, subs, registryVars, client, got, crashes>>

\* The generator of a lost connection is closed: its finally unsubscribes, if it
\* had subscribed.
Unsubscribe(c) ==
    /\ stream[c].st = "lost" /\ ~Writing
    /\ subs' = [subs EXCEPT ![stream[c].em] = RemoveFirst(@, c)]
    /\ stream' = [stream EXCEPT ![c] = [NoStream EXCEPT !.st = "over"]]
    /\ UNCHANGED <<emitterVars, registryVars, wire, client, got, crashes>>

-----------------------------------------------------------------------------
(* The client, an EventSource that reconnects by itself *)

Receive(c) ==
    /\ client.conn = c /\ wire[c] # <<>>
    /\ got' = [got EXCEPT ![c] = Append(@, Head(wire[c]).ev)]
    /\ client' = [client EXCEPT !.last = Head(wire[c]).id]
    /\ wire' = [wire EXCEPT ![c] = Tail(@)]
    /\ UNCHANGED <<emitterVars, subs, registryVars, stream, crashes>>

\* The connection is lost, with what is on the wire.
Disconnect(c) ==
    /\ client.conn = c
    /\ client' = [client EXCEPT !.conn = None]
    /\ wire' = [wire EXCEPT ![c] = <<>>]
    /\ stream' = [stream EXCEPT ![c].st = "lost"]
    /\ UNCHANGED <<emitterVars, subs, registryVars, got, crashes>>

\* The server dies, perhaps in the middle of a line.
Crash ==
    /\ crashes < MaxCrashes
    /\ crashes' = crashes + 1
    /\ phase' = "idle" /\ pending' = <<>>
    /\ subs' = <<>> /\ shared' = None /\ active' = None /\ runs' = None
    /\ stream' = [c \in Conns |-> IF stream[c].st = "unused" THEN NoStream
                                  ELSE [NoStream EXCEPT !.st = "over"]]
    /\ wire' = [c \in Conns |-> <<>>]
    /\ client' = [client EXCEPT !.conn = None]
    /\ UNCHANGED <<log, torn, newline, emitted, got>>

StreamStep(c) ==
    Subscribe(c) \/ ReadHistory(c) \/ Replay(c) \/ Follow(c) \/ Unsubscribe(c)
ClientStep(c) == Connect(c) \/ Receive(c) \/ Disconnect(c)
Next ==
    \/ RunBegins \/ RunEnds \/ EmitWrites \/ EmitWritten \/ Notify \/ Crash
    \/ \E c \in Conns : StreamStep(c) \/ ClientStep(c)

Spec == Init /\ [][Next]_vars

\* An emit() that was begun goes on, a generator and the network deliver. No
\* run has to start, and no connection has to last.
FairSpec ==
    /\ Spec
    /\ WF_vars(EmitWritten \/ Notify)
    /\ \A c \in Conns : WF_vars(StreamStep(c)) /\ WF_vars(Receive(c))

-----------------------------------------------------------------------------
(* Properties *)

EventsOf(frames) == [i \in DOMAIN frames |-> frames[i].ev]
\* All a connection has delivered or has still to deliver, in its order.
Course(c) ==
    got[c] \o EventsOf(wire[c]) \o EventsOf(stream[c].replay) \o stream[c].queue
Open(c) == client.conn = c /\ stream[c].st = "open"

\* From the moment an open stream has read the history, every event that can be
\* read from the file at or after its start, and every event emitted after its
\* subscription, is on its way to the client or about to be put there: nothing
\* falls between the replay and the live events (sse.py:58-75), also when runs
\* end and begin under the stream (events.py:45-84).
NothingSlips ==
    \A c \in Conns : Open(c) =>
        \A e \in 1 .. emitted :
            \/ e \in ToSet(Course(c))
            \/ e = emitted /\ (Writing \/ c \in ToSet(pending))
            \/ /\ e <= stream[c].subAt
               /\ \/ e \notin ToSet(log)
                  \/ \E i \in 1 .. stream[c].since : i <= Len(log) /\ log[i] = e

\* A connection gives an event twice, or after a later one, only if the event
\* was emitted between its subscription and its read of the file: the order of
\* subscribing and replaying (sse.py:58-66) costs repeats at that seam alone.
RepeatsOnlyAtTheSeam ==
    \A c \in Conns : Open(c) =>
        \A i, j \in DOMAIN Course(c) :
            i < j /\ Course(c)[i] >= Course(c)[j] =>
                Course(c)[j] \in stream[c].subAt + 1 .. stream[c].readAt

\* A client that reconnects with Last-Event-ID is not replayed an event it was
\* given on an earlier connection: the id of a frame is never below the place of
\* its event in the file (sse.py:73, routers/events.py:19-31), torn lines or not.
NoReplayOfSeen ==
    client.param = 0 =>
        \A c, d \in Conns : d < c =>
            ToSet(EventsOf(stream[c].replay)) \cap ToSet(got[d]) = {}

\* On a connection that lasts every event emitted after its subscription reaches
\* the client (sse.py:47-75, events.py:142-150).
EveryEventArrives ==
    \A c \in Conns : \A e \in Events :
        (Open(c) /\ emitted = e /\ e > stream[c].subAt)
            ~> (e \in ToSet(got[c]) \/ client.conn # c)

\* What sse.py:18-20 says of ids: a client that reconnects with the last one
\* resumes where it left off, so every event before its cursor was given to it.
\* (An id taken at the sending counts events that still wait in the queue.)
ResumeLosesNothing ==
    client.param = 0 =>
        \A i \in 1 .. client.last + 1 :
            i <= Len(log) => \E c \in Conns : log[i] \in ToSet(got[c])

=============================================================================
