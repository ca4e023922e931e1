----------------------------- MODULE EventStream -----------------------------
(***************************************************************************)
(* The events of one mission on their way to the screen                    *)
(* (services/api-gateway/src: index.ts, event-cursor.ts;                   *)
(* packages/event-bus/src/bounded-event-queue.ts; apps/desktop/src:        *)
(* lib/event-listener.ts, stores/mission-store.ts).                        *)
(*                                                                         *)
(* The gateway numbers and stores every event.  A connection replays what  *)
(* is stored and then forwards what happens, through a bounded queue while *)
(* its socket is full.  The desktop shows what it receives, groups the     *)
(* fragments of a text for a frame, and now and then replaces what it      *)
(* shows by a snapshot read over another route.                            *)
(*                                                                         *)
(* An event is its sequence number.  All text belongs to one stream.       *)
(***************************************************************************)
EXTENDS Naturals, Sequences, Functions

CONSTANTS
  Kinds,        \* kinds of events: see log
  MaxEvents,    \* bound: how many events the mission publishes
  QueueSize,    \* maxItems of a connection's queue
  MaxBreaks,    \* bound: how often a connection fails
  MaxSwitches   \* bound: how often the user looks at another mission

ASSUME KindsAssumption == Kinds \subseteq {"text", "plan", "other", "huge"}
ASSUME BoundsAssumption == {MaxEvents, MaxBreaks, MaxSwitches} \subseteq Nat /\ QueueSize \in Nat \ {0}

VARIABLES
  log,        \* mission_events: the kind of each event
  conn,       \* the event stream at the gateway
  wire,       \* what the gateway has written and the desktop has not read
  viewing,    \* whether the mission is the active one
  highest,    \* highestSequenceByMission
  pending,    \* pendingTextDeltas
  timeline,   \* the items shown
  gap,        \* needsReconcile
  timer,      \* whether reconnectTimer is set
  hydration,  \* the latest fetchMissionState
  breaks, switches  \* how often each has happened

screen == <<viewing, highest, pending, timeline, gap, timer, hydration>>
streamVars == <<log, conn, wire, screen, breaks, switches>>

Events == 1 .. Len(log)
Gap == 0   \* the frame stream_gap
IsText(e) == log[e] = "text"

NoConn == [phase |-> "none", last |-> 0, mark |-> 0, queue |-> <<>>, dropped |-> 0, full |-> FALSE]
NoHydration == [phase |-> "none", upto |-> 0]

Items == [ids : Seq(Events) \ {<<>>}, live : BOOLEAN]

StreamTypeOK ==
  /\ log \in Seq(Kinds) /\ Len(log) <= MaxEvents
  /\ conn \in [phase : {"none", "asked", "replaying", "live"}, last : 0 .. Len(log), mark : 0 .. Len(log),
               queue : Seq(Events), dropped : 0 .. Len(log), full : BOOLEAN]
  /\ Len(conn.queue) <= QueueSize
  /\ wire \in Seq(Events \cup {Gap})
  /\ highest \in 0 .. Len(log) /\ pending \in Seq({e \in Events : IsText(e)}) /\ timeline \in Seq(Items)
  /\ viewing \in BOOLEAN /\ gap \in BOOLEAN /\ timer \in BOOLEAN
  /\ hydration \in [phase : {"none", "asked", "read"}, upto : 0 .. Len(log)]
  /\ breaks \in 0 .. MaxBreaks /\ switches \in 0 .. MaxSwitches

StreamInit ==
  /\ log = <<>> /\ conn = NoConn /\ wire = <<>>
  /\ viewing = FALSE /\ highest = 0 /\ pending = <<>> /\ timeline = <<>>
  /\ gap = FALSE /\ timer = FALSE /\ hydration = NoHydration /\ breaks = 0 /\ switches = 0

-----------------------------------------------------------------------------
(* The gateway.                                                            *)

(* BoundedEventQueue.enqueue; a huge event alone exceeds maxBytes.         *)
Enqueued(c, e, kind) ==
  IF kind = "huge" THEN [c EXCEPT !.dropped = @ + 1]
  ELSE IF Len(c.queue) < QueueSize THEN [c EXCEPT !.queue = Append(@, e)]
  ELSE [c EXCEPT !.queue = Append(Tail(@), e), !.dropped = @ + 1]

(* flush: the connection c after k events of its queue were written, its   *)
(* socket full or not.                                                     *)
Flushed(c, k, full) == [c EXCEPT !.queue = SubSeq(@, k + 1, Len(@)), !.dropped = 0, !.full = full,
                                 !.last = IF k = 0 THEN @ ELSE c.queue[k]]

(* Mutated form: the gap is not told.                                      *)
FlushQuietly(c) ==
  IF c.full \/ c.phase # "live" THEN conn' = c /\ UNCHANGED wire
  ELSE conn' = Flushed(c, Len(c.queue), FALSE) /\ wire' = wire \o c.queue

Flush(c) ==
  IF c.full \/ c.phase # "live" THEN conn' = c /\ UNCHANGED wire
  ELSE \E k \in 0 .. Len(c.queue), full \in BOOLEAN :
         /\ k < Len(c.queue) => full
         /\ k = 0 /\ c.dropped = 0 => c.queue = <<>> /\ ~full
         /\ conn' = Flushed(c, k, full)
         /\ wire' = wire \o (IF c.dropped > 0 THEN <<Gap>> ELSE <<>>) \o SubSeq(c.queue, 1, k)

(* The event is stored, numbered and given to the connection.              *)
Publish(kind) ==
  /\ Len(log) < MaxEvents /\ log' = Append(log, kind)
  /\ IF conn.phase \in {"replaying", "live"} THEN Flush(Enqueued(conn, Len(log'), kind))
     ELSE UNCHANGED <<conn, wire>>
  /\ UNCHANGED <<screen, breaks, switches>>

(* replayPages, event by event: what is stored beyond the high water mark  *)
(* is in the queue.                                                        *)
Replay ==
  /\ conn.phase = "replaying" /\ ~conn.full
  /\ IF conn.last < conn.mark
     THEN /\ \E full \in BOOLEAN : conn' = [conn EXCEPT !.last = @ + 1, !.full = full]
          /\ wire' = Append(wire, conn.last + 1)
     ELSE Flush([conn EXCEPT !.phase = "live"])
  /\ UNCHANGED <<log, screen, breaks, switches>>

Drain ==
  /\ conn.full /\ Flush([conn EXCEPT !.full = FALSE])
  /\ UNCHANGED <<log, screen, breaks, switches>>

-----------------------------------------------------------------------------
(* The timeline of the desktop.                                            *)

Item(ids, live) == [ids |-> ids, live |-> live]
LastId(item) == item.ids[Len(item.ids)]
Shown == UNION {Range(timeline[i].ids) : i \in DOMAIN timeline}

(* addTimelineItem: a text that continues the last item is merged into it; *)
(* an item whose id is shown already is dropped.                           *)
Added(items, ids) ==
  LET last == items[Len(items)]
      continues == /\ items # <<>> /\ last.live /\ log[last.ids[1]] = "text" /\ log[ids[1]] = "text"
                   /\ ids[Len(ids)] = LastId(last) + 1
  IN IF continues THEN [items EXCEPT ![Len(items)].ids = @ \o ids]
     ELSE IF \E i \in DOMAIN items : items[i].ids[1] = ids[1] THEN items
     ELSE Append(items, Item(ids, TRUE))

(* flushPendingTextDeltas.                                                 *)
FlushedText(d) == IF d.pending = <<>> THEN d
                  ELSE [d EXCEPT !.pending = <<>>, !.timeline = Added(@, d.pending)]

Behind(d) == [d EXCEPT !.gap = TRUE, !.timer = TRUE, !.lost = TRUE]

(* handleSseFrame and handleIncomingEvent: an event that was seen is       *)
(* skipped, one that is not the next leaves the connection.                *)
Handled(d, f) ==
  IF f = Gap \/ (d.highest > 0 /\ f > d.highest + 1) THEN Behind(d)
  ELSE IF f <= d.highest THEN d
  ELSE IF IsText(f) THEN [d EXCEPT !.pending = Append(@, f), !.highest = f]
  ELSE [FlushedText(d) EXCEPT !.timeline = Added(@, <<f>>), !.highest = f,
                              !.hydration = IF log[f] = "plan" THEN [phase |-> "asked", upto |-> 0] ELSE @]

(* connectSse: the last event that was received or is shown is the cursor. *)
Connect ==
  LET shown == IF timeline = <<>> THEN 0 ELSE LastId(timeline[Len(timeline)])
      after == IF shown > highest THEN shown ELSE highest
  IN /\ highest' = after /\ conn' = [NoConn EXCEPT !.phase = "asked", !.last = after] /\ wire' = <<>>

(* The response: what happened meanwhile is fetched after a gap.           *)
Accept ==
  /\ conn.phase = "asked"
  /\ conn' = [conn EXCEPT !.phase = "replaying", !.mark = Len(log)]
  /\ gap' = FALSE /\ hydration' = IF gap THEN [phase |-> "asked", upto |-> 0] ELSE hydration
  /\ UNCHANGED <<log, wire, viewing, highest, pending, timeline, timer, breaks, switches>>

Desktop == [highest |-> highest, pending |-> pending, timeline |-> timeline, gap |-> gap, timer |-> timer,
            hydration |-> hydration, lost |-> FALSE]

(* One chunk is read: its frames are handled to the end, even if one of    *)
(* them aborts the connection.                                             *)
ReadChunk ==
  LET after[k \in 0 .. Len(wire)] == IF k = 0 THEN Desktop ELSE Handled(after[k - 1], wire[k]) IN
  /\ \E k \in 1 .. Len(wire) :
       LET d == after[k]
       IN /\ highest' = d.highest /\ pending' = d.pending /\ timeline' = d.timeline
          /\ gap' = d.gap /\ timer' = d.timer /\ hydration' = d.hydration
          /\ IF d.lost THEN conn' = NoConn /\ wire' = <<>>
             ELSE wire' = SubSeq(wire, k + 1, Len(wire)) /\ UNCHANGED conn
  /\ UNCHANGED <<log, viewing, breaks, switches>>

(* The frame of 16 ms is over; a text of another mission is dropped.       *)
FlushTimer ==
  /\ pending # <<>> /\ pending' = <<>>
  /\ timeline' = IF viewing THEN Added(timeline, pending) ELSE timeline
  /\ UNCHANGED <<log, conn, wire, viewing, highest, gap, timer, hydration, breaks, switches>>

(* The connection fails, or the gateway restarts.                          *)
Break ==
  /\ breaks < MaxBreaks /\ breaks' = breaks + 1 /\ conn.phase # "none"
  /\ conn' = NoConn /\ wire' = <<>> /\ gap' = TRUE /\ timer' = TRUE
  /\ UNCHANGED <<log, viewing, highest, pending, timeline, hydration, switches>>

(* Two seconds later; timing assumption: the frame of a text is over.      *)
Reconnect ==
  /\ timer /\ pending = <<>> /\ timer' = FALSE /\ Connect
  /\ UNCHANGED <<log, viewing, pending, timeline, gap, hydration, breaks, switches>>

-----------------------------------------------------------------------------
(* setActiveMission and fetchMissionState.                                 *)

(* The user takes longer than the frame of a text, too.                    *)
Open ==
  /\ ~viewing /\ pending = <<>> /\ viewing' = TRUE /\ timeline' = <<>> /\ timer' = FALSE
  /\ highest' = highest /\ conn' = [NoConn EXCEPT !.phase = "asked", !.last = highest] /\ wire' = <<>>
  /\ hydration' = [phase |-> "asked", upto |-> 0]
  /\ UNCHANGED <<log, pending, gap, breaks, switches>>

(* Another mission is opened: its connection takes the gap with it.        *)
Leave ==
  /\ viewing /\ switches < MaxSwitches /\ switches' = switches + 1
  /\ viewing' = FALSE /\ timeline' = <<>> /\ timer' = FALSE /\ conn' = NoConn /\ wire' = <<>> /\ gap' = FALSE
  /\ UNCHANGED <<log, highest, pending, hydration, breaks>>

ReadHistory ==
  /\ hydration.phase = "asked" /\ hydration' = [phase |-> "read", upto |-> Len(log)]
  /\ UNCHANGED <<log, conn, wire, viewing, highest, pending, timeline, gap, timer, breaks, switches>>

(* The snapshot is merged with what is shown: items it does not know       *)
(* follow it, and a text it knows in part stands for its fragments.        *)
Unpersisted(item, upto) == item.live /\ IsText(item.ids[1]) /\ LastId(item) > upto

Persisted(upto) == [e \in 1 .. upto |-> Item(<<e>>, FALSE)]
LiveOnly(upto) == {i \in DOMAIN timeline : timeline[i].ids[1] > upto \/ Unpersisted(timeline[i], upto)}

(* The items at the places in S, in their order.                           *)
ItemsAt(items, S) ==
  LET upTo[n \in 0 .. Len(items)] ==
        IF n = 0 THEN <<>> ELSE IF n \in S THEN Append(upTo[n - 1], items[n]) ELSE upTo[n - 1]
  IN upTo[Len(items)]

(* Mutated form: a text the snapshot knows in part is shown beside it.     *)
MergedTwice(upto) == Persisted(upto) \o ItemsAt(timeline, LiveOnly(upto))

Merged(upto) ==
  LET covered == {e \in 1 .. upto : \E i \in LiveOnly(upto) : LET item == timeline[i] IN
        /\ Unpersisted(item, upto)
        /\ e \in Range(item.ids) \/ (IsText(e) /\ item.ids[1] <= e /\ e <= LastId(item))}
  IN ItemsAt(Persisted(upto), (1 .. upto) \ covered) \o ItemsAt(timeline, LiveOnly(upto))

Hydrate ==
  /\ hydration.phase = "read" /\ hydration' = NoHydration
  /\ timeline' = IF viewing THEN Merged(hydration.upto) ELSE timeline
  /\ UNCHANGED <<log, conn, wire, viewing, highest, pending, gap, timer, breaks, switches>>

-----------------------------------------------------------------------------
DesktopStep == ReadChunk \/ FlushTimer \/ Reconnect \/ ReadHistory \/ Hydrate

StreamNext == \/ \E kind \in Kinds : Publish(kind)
        \/ Replay \/ Drain \/ Accept \/ DesktopStep \/ Break \/ Open \/ Leave

StreamSpec == StreamInit /\ [][StreamNext]_streamVars

(* A socket that is read empties, a request is answered, a timer fires.    *)
StreamFairness == /\ WF_streamVars(Replay) /\ WF_streamVars(Drain) /\ WF_streamVars(Accept)
                  /\ WF_streamVars(ReadChunk) /\ WF_streamVars(FlushTimer) /\ WF_streamVars(Reconnect)
                  /\ WF_streamVars(ReadHistory) /\ WF_streamVars(Hydrate)

-----------------------------------------------------------------------------
(* Properties.                                                             *)

(* No fragment is shown twice and none before an earlier one, however      *)
(* replay, snapshot and the frame of a text overlap.                       *)
ShownOnceInOrder ==
  \A i \in DOMAIN timeline :
    /\ \A k \in 1 .. Len(timeline[i].ids) - 1 : timeline[i].ids[k] < timeline[i].ids[k + 1]
    /\ \A j \in DOMAIN timeline : i < j => LastId(timeline[i]) < timeline[j].ids[1]

(* An event the desktop is past but does not show, for it was dropped,     *)
(* lost or cleared away, is one it is going to fetch.  Text is excepted:   *)
(* see ReceivedIsShown.                                                    *)
MissingIsFetched ==
  viewing /\ hydration = NoHydration /\ ~gap => {e \in 1 .. highest : ~IsText(e)} \subseteq Shown

(* The timeline is in order without repetitions, and what it lacks is on   *)
(* its way.                                                                *)
StreamSafety == StreamTypeOK /\ ShownOnceInOrder /\ MissingIsFetched

(* mission-store.test.ts:396, "partial-overlap hydration retains the       *)
(* complete live stream exactly once": an event the desktop has received   *)
(* is shown, or about to be.                                               *)
ReceivedIsShown ==
  viewing /\ hydration = NoHydration /\ ~gap => 1 .. highest \subseteq Shown \cup Range(pending)

(* As long as its mission is open, an event that is no text is shown in    *)
(* the end, through full sockets, dropped events and lost connections.     *)
EventuallyShown == []<>(viewing => {e \in Events : ~IsText(e)} \subseteq Shown)
=============================================================================
