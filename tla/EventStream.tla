----------------------------- MODULE EventStream -----------------------------
(***************************************************************************)
(* The live dashboard: the pipeline completes images and announces them on *)
(* Redis pub/sub; the API forwards the announcements to the browser over a *)
(* server-sent event stream; on each of them the browser fetches the       *)
(* aggregates again, which the API may answer from its cache.              *)
(*                                                                         *)
(* Code: backend/app/tasks/pipeline.py (the end of a task), events/        *)
(* publisher.py, events/sse.py, stats/router.py, stats/cache.py; frontend  *)
(* hooks/useEventStream.ts, providers/QueryProvider.tsx, the dashboard     *)
(* page.  TanStack Query (fetch, cancelRefetch, focus) is external.        *)
(*                                                                         *)
(* An aggregate is the set of images it counts.  Every use of Redis is     *)
(* best-effort, and the stream carries nothing over a reconnection: what   *)
(* the dashboard then misses is recorded in `excused`.                     *)
(***************************************************************************)
EXTENDS Naturals, FiniteSets

CONSTANTS
  Images,    \* inspection_image rows
  Requests,  \* GET /api/v1/stats/summary requests, abandoned ones included
  MaxDrops   \* bound on the breaks of the stream

VARIABLES
  stage,    \* [Images -> how far the task that completes it has come]
  cache,    \* what Redis keeps under the key, or Nothing
  stream,   \* the event stream of the browser
  channel,  \* announcements on their way to the browser
  view,     \* what the dashboard shows, or Nothing before the first answer
  fetch,    \* the request the dashboard waits for, or NoFetch
  request,  \* [Requests -> what the API is doing for it]
  drops,    \* breaks of the stream so far
  excused   \* history: images the dashboard may miss, since something of theirs was lost

eventVars == <<stage, cache, stream, channel, view, fetch, request, drops, excused>>

Nothing == {"nothing"}
NoFetch == "no_fetch"
Aggregates == (SUBSET Images) \cup {Nothing}

\* What the proofs ask of the constants.
EventStreamAssumption == IsFiniteSet(Images) /\ MaxDrops \in Nat /\ NoFetch \notin Requests

\* "committed" is COMPLETED in the database; then the cache is invalidated, then the event is out.
Stages == {"queued", "committed", "invalidated", "announced"}
Done == {i \in Images : stage[i] # "queued"}

-----------------------------------------------------------------------------
(* The task that completes an image. *)

CompleteImage(i) ==
  /\ stage[i] = "queued"
  /\ stage' = [stage EXCEPT ![i] = "committed"]
  /\ UNCHANGED <<cache, stream, channel, view, fetch, request, drops, excused>>

\* invalidate_all: no effect when Redis cannot be reached.
InvalidateStats(i) ==
  /\ stage[i] = "committed"
  /\ stage' = [stage EXCEPT ![i] = "invalidated"]
  /\ \/ cache' = Nothing /\ UNCHANGED excused
     \/ cache' = cache /\ excused' = excused \cup {i}
  /\ UNCHANGED <<stream, channel, view, fetch, request, drops>>

\* publish_event: pub/sub reaches who is subscribed at this moment, and nobody when Redis fails.
Publish(i) ==
  /\ \/ stream = "subscribed" /\ channel' = channel + 1 /\ UNCHANGED excused
     \/ channel' = channel /\ excused' = excused \cup {i}
  /\ UNCHANGED <<stream, view, fetch, drops>>

PublishEvent(i) ==
  /\ stage[i] = "invalidated"
  /\ stage' = [stage EXCEPT ![i] = "announced"]
  /\ Publish(i)
  /\ UNCHANGED <<cache, request>>

-----------------------------------------------------------------------------
(* The API's answer to a request.  Nobody tells it that the browser has given up on one. *)

Idle == [pc |-> "idle"]

\* get_cached: a hit, or a miss (also when Redis cannot be reached).
CheckCache(r) ==
  /\ request[r].pc = "check"
  /\ \/ cache # Nothing /\ request' = [request EXCEPT ![r] = [pc |-> "reply", answer |-> cache]]
     \/ request' = [request EXCEPT ![r] = [pc |-> "compute"]]
  /\ UNCHANGED <<stage, cache, stream, channel, view, fetch, drops, excused>>

ComputeSummary(r) ==
  /\ request[r].pc = "compute"
  /\ request' = [request EXCEPT ![r] = [pc |-> "store", answer |-> Done]]
  /\ UNCHANGED <<stage, cache, stream, channel, view, fetch, drops, excused>>

\* set_cached: what an answer lacks that the cache was invalidated for is hidden again.
SetCached(r) ==
  /\ request[r].pc = "store"
  /\ \/ /\ cache' = request[r].answer
        /\ excused' = excused \cup {i \in Images \ request[r].answer :
                                      stage[i] \in {"invalidated", "announced"}}
     \/ cache' = cache /\ UNCHANGED excused
  /\ request' = [request EXCEPT ![r].pc = "reply"]
  /\ UNCHANGED <<stage, stream, channel, view, fetch, drops>>

\* The answer arrives, or is lost; one the dashboard no longer waits for is dropped.
Reply(r) ==
  /\ request[r].pc = "reply"
  /\ request' = [request EXCEPT ![r] = Idle]
  /\ IF fetch = r
     THEN /\ fetch' = NoFetch
          /\ \/ view' = request[r].answer /\ UNCHANGED excused
             \/ view' = view /\ excused' = excused \cup Done
     ELSE UNCHANGED <<view, fetch, excused>>
  /\ UNCHANGED <<stage, cache, stream, channel, drops>>

\* CACHE_TTL_SECONDS are over.
Expire ==
  /\ cache # Nothing
  /\ cache' = Nothing
  /\ UNCHANGED <<stage, stream, channel, view, fetch, request, drops, excused>>

-----------------------------------------------------------------------------
(* The browser. *)

Fetch(r) ==
  /\ request[r] = Idle
  /\ fetch' = r
  /\ request' = [request EXCEPT ![r] = [pc |-> "check"]]

\* The page is mounted, or the window gets the focus: a query at rest is fetched.
Refetch(r) ==
  /\ fetch = NoFetch
  /\ Fetch(r)
  /\ UNCHANGED <<stage, cache, stream, channel, view, drops, excused>>

\* connectLoop: the response's headers arrive; nothing is fetched again.
Connect ==
  /\ stream = "waiting"
  /\ stream' = "connected"
  /\ UNCHANGED <<stage, cache, channel, view, fetch, request, drops, excused>>

\* _event_stream begins, after the headers are out: it subscribes.
Subscribe ==
  /\ stream = "connected"
  /\ stream' = "subscribed"
  /\ UNCHANGED <<stage, cache, channel, view, fetch, request, drops, excused>>

\* The stream breaks, with the announcements that are on their way.
Drop ==
  /\ stream \in {"connected", "subscribed"} /\ drops < MaxDrops
  /\ stream' = "waiting"
  /\ drops' = drops + 1
  /\ channel' = 0
  /\ excused' = IF channel > 0 THEN excused \cup {i \in Images : stage[i] = "announced"} ELSE excused
  /\ UNCHANGED <<stage, cache, view, fetch, request>>

\* A mutant of HandleEvent: a fetch under way is kept, as with cancelRefetch: false.
HandleEventKeepsFetch(r) ==
  /\ channel > 0
  /\ channel' = channel - 1
  /\ IF fetch # NoFetch THEN UNCHANGED <<fetch, request>> ELSE Fetch(r)
  /\ UNCHANGED <<stage, cache, stream, view, drops, excused>>

\* handleRawEvent, invalidateQueries: a fetch under way is given up for a new one.  The first
\* fetch of all is not (cancelRefetch asks for data): its answer may be older than the event.
HandleEvent(r) ==
  /\ channel > 0
  /\ channel' = channel - 1
  /\ IF fetch # NoFetch /\ view = Nothing
     THEN excused' = excused \cup Done /\ UNCHANGED <<fetch, request>>
     ELSE Fetch(r) /\ UNCHANGED excused
  /\ UNCHANGED <<stage, cache, stream, view, drops>>

-----------------------------------------------------------------------------
Init ==
  /\ stage = [i \in Images |-> "queued"]
  /\ cache = Nothing
  /\ stream = "waiting"
  /\ channel = 0
  /\ view = Nothing
  /\ fetch = NoFetch
  /\ request = [r \in Requests |-> Idle]
  /\ drops = 0
  /\ excused = {}

Next ==
  \/ \E i \in Images : CompleteImage(i) \/ InvalidateStats(i) \/ PublishEvent(i)
  \/ \E r \in Requests :
       \/ CheckCache(r) \/ ComputeSummary(r) \/ SetCached(r) \/ Reply(r)
       \/ Refetch(r) \/ HandleEvent(r)
  \/ Expire \/ Connect \/ Subscribe \/ Drop

Spec == Init /\ [][Next]_eventVars

-----------------------------------------------------------------------------
TypeOK ==
  /\ stage \in [Images -> Stages]
  /\ cache \in Aggregates /\ view \in Aggregates
  /\ stream \in {"waiting", "connected", "subscribed"}
  /\ channel \in 0..Cardinality(Images)
  /\ fetch \in Requests \cup {NoFetch}
  /\ request \in [Requests -> {Idle} \cup [pc : {"check", "compute"}]
                              \cup [pc : {"store", "reply"}, answer : Aggregates]]
  /\ drops \in 0..MaxDrops
  /\ excused \subseteq Images

\* FR-14, FE-09: when every announcement has been handled and its fetch answered, the dashboard
\* counts every image whose task is over - whatever the cache, abandoned requests and other
\* images did meanwhile - but for those with something of theirs lost.
EveryCompletionIsShown ==
  view # Nothing /\ channel = 0 /\ fetch = NoFetch =>
    {i \in Images : stage[i] = "announced"} \ excused \subseteq view
=============================================================================
