----------------------------- MODULE EventStream -----------------------------
(***************************************************************************)
(* The events of one run on their way to the clients that follow it: the   *)
(* relay of each worker process (events.py), the table run_events, the     *)
(* broker, and the stream of each client (stream.py) with its bounded      *)
(* queue, its watermark, its replay and its resync.                        *)
(*                                                                         *)
(* Event n follows the n-th write of the run's rows: a gate that opens or  *)
(* is decided, a node, a status. Any process may write: the one that       *)
(* executes the run, and the one that serves a decision or a cancel. Each  *)
(* hands its events to its own relay, so the ids of run_events follow      *)
(* neither the writes nor the commits.                                     *)
(***************************************************************************)
EXTENDS Naturals, Sequences, SequencesExt

CONSTANTS
    Procs,      \* the worker processes
    Streams,    \* clients, each with one connection at a time
    NEvents,    \* bound: events of the run
    End,        \* the event that is `done`; an executor that is stopped late emits others
    QMax,       \* _STREAM_QUEUE_MAX
    RelayMax,   \* _RELAY_QUEUE_MAX
    ReplayMax,  \* REPLAY_MAX
    None        \* no ?since= parameter, no process

ASSUME StreamAssumption ==
    /\ {NEvents, QMax, RelayMax, ReplayMax} \subseteq Nat \ {0}
    /\ End \in 1..NEvents
    /\ None \notin Nat \cup Procs

VARIABLES
    row,     \* writes of the run so far
    owing,   \* per process: the events it is about to publish
    relay,   \* per process: _relay_queue
    cur,     \* per process: the event in _relay_one, and its id once it has one
    log,     \* the events in the order in which they got an id, or were lost
    wire,    \* per pair of processes: frames on their way through the broker
    alarm,   \* the processes a resync is on its way to
    conn,    \* the connections
    known,   \* client: the events it was told of, by a frame or by a snapshot
    last,    \* client: the id of the last frame that had one, its ?since=
    missed   \* history: how a client may have been passed over since its last snapshot

writeVars  == <<row, owing>>
relayVars  == <<relay, cur, log>>
brokerVars == <<wire, alarm>>
clientVars == <<known, last, missed>>
vars == <<writeVars, relayVars, brokerVars, conn, clientVars>>

-----------------------------------------------------------------------------
Events   == 1..NEvents
\* "open": the INSERT is not committed yet; "in": a row of run_events; "out": the COMMIT
\* raised and the row is not there; "lost": there never was an id. Ids are only compared, so
\* an event that is lost may have the place of one.
States   == {"open", "in", "out", "lost"}
Item     == [kind: {"frame", "overflow", "resync"}, id: Nat]
Frame(i) == [kind |-> "frame", id |-> i]
Overflow == [kind |-> "overflow", id |-> 0]
Resync   == [kind |-> "resync", id |-> 0]
Reasons  == {"overflow", "overtaken", "broker", "unlogged"}
Conn     == [at: Procs, pc: {"opening", "row", "head", "live"}, q: Seq(Item),
             flag: BOOLEAN,    \* _Subscription.resync
             again: BOOLEAN,   \* the read is a resync, not the opening
             since: Nat \cup {None},
             seen: Nat,        \* the run as the read found it
             head: Nat,
             water: Nat]       \* watermark
Opening(p, since) == [at |-> p, pc |-> "opening", q |-> <<>>, flag |-> FALSE, again |-> FALSE,
                      since |-> since, seen |-> 0, head |-> 0, water |-> 0]
Closed   == [Opening(None, None) EXCEPT !.pc = "off"]
NoEvent  == [event |-> 0, id |-> 0]

Init ==
    /\ row = 0
    /\ owing = [p \in Procs |-> {}]
    /\ relay = [p \in Procs |-> <<>>]
    /\ cur = [p \in Procs |-> NoEvent]
    /\ log = <<>>
    /\ wire = [p \in Procs |-> [q \in Procs |-> <<>>]]
    /\ alarm = {}
    /\ conn = [s \in Streams |-> Closed]
    /\ known = [s \in Streams |-> {}]
    /\ last = [s \in Streams |-> 0]
    /\ missed = [s \in Streams |-> {}]

Open(s) == conn[s].pc # "off"

\* The rows of run_events, and the ids of the events that no replay will ever carry.
Rows     == {i \in DOMAIN log : log[i].state = "in"}
Unlogged == {i \in DOMAIN log : log[i].state \in {"out", "lost"}}

-----------------------------------------------------------------------------
(* Local delivery to the streams of a process.                             *)

\* Fault: the poison takes a place of its own.
PutBeside(q, id) == IF Len(q) < QMax THEN Append(q, Frame(id)) ELSE Append(q, Overflow)

\* A full queue drops its oldest item for the order to close.
Put(q, id) == IF Len(q) < QMax THEN Append(q, Frame(id)) ELSE Append(Tail(q), Overflow)

\* _publish_event. A full queue may drop a frame, or the order to close itself: then the
\* stream goes on over the frame that order stood for.
PublishEvent(p, id) ==
    LET S == {s \in Streams : Open(s) /\ conn[s].at = p}
    IN  /\ conn' = [s \in Streams |-> IF s \in S THEN [conn[s] EXCEPT !.q = Put(@, id)] ELSE conn[s]]
        /\ missed' = [s \in Streams |->
              IF s \in S /\ Len(conn[s].q) = QMax
              THEN missed[s] \cup {"overflow"} ELSE missed[s]]

\* _resync_local.
ResyncLocal(p) ==
    conn' = [s \in Streams |->
        IF Open(s) /\ conn[s].at = p
        THEN [conn[s] EXCEPT !.flag = TRUE,
                             !.q = IF Len(@) < QMax THEN Append(@, Resync) ELSE @]
        ELSE conn[s]]

\* Fault: a lost event is logged, and that is all.
RequestNothing(p) == UNCHANGED <<alarm, conn>>

\* _request_resync: the streams of this process, and by a task of its own those of the others.
RequestResync(p) ==
    /\ ResyncLocal(p)
    /\ alarm' = alarm \cup (Procs \ {p})

-----------------------------------------------------------------------------
(* The writers and their relays.                                           *)

\* An executor, a decision or a cancel writes, and has its event to publish. The tasks of a
\* process may publish in another order than they wrote.
Write(p) ==
    /\ row < NEvents
    /\ row' = row + 1
    /\ owing' = [owing EXCEPT ![p] = @ \cup {row + 1}]
    /\ UNCHANGED <<relayVars, brokerVars, conn, clientVars>>

\* publish_run_event: a saturated relay loses the event and resyncs the open streams.
Publish(p, n) ==
    /\ n \in owing[p]
    /\ owing' = [owing EXCEPT ![p] = @ \ {n}]
    /\ \/ /\ Len(relay[p]) < RelayMax
          /\ relay' = [relay EXCEPT ![p] = Append(@, n)]
          /\ UNCHANGED <<log, alarm, conn>>
       \/ /\ Len(relay[p]) = RelayMax
          /\ log' = Append(log, [event |-> n, state |-> "lost"])
          /\ RequestResync(p)
          /\ UNCHANGED relay
    /\ UNCHANGED <<row, cur, wire, clientVars>>

RelayTake(p) ==
    /\ cur[p] = NoEvent
    /\ relay[p] # <<>>
    /\ cur' = [cur EXCEPT ![p] = [event |-> Head(relay[p]), id |-> 0]]
    /\ relay' = [relay EXCEPT ![p] = Tail(@)]
    /\ UNCHANGED <<writeVars, log, brokerVars, conn, clientVars>>

\* The INSERT of _relay_one returns the id; its transaction is still open.
RelayInsert(p) ==
    /\ cur[p].event # 0
    /\ cur[p].id = 0
    /\ log' = Append(log, [event |-> cur[p].event, state |-> "open"])
    /\ cur' = [cur EXCEPT ![p].id = Len(log) + 1]
    /\ UNCHANGED <<writeVars, relay, brokerVars, conn, clientVars>>

\* It raises: there is no id and no row.
RelayFails(p) ==
    /\ cur[p].event # 0
    /\ cur[p].id = 0
    /\ log' = Append(log, [event |-> cur[p].event, state |-> "lost"])
    /\ cur' = [cur EXCEPT ![p] = NoEvent]
    /\ RequestResync(p)
    /\ UNCHANGED <<writeVars, relay, wire, clientVars>>

\* The COMMIT, which may raise with or without the row. That too is caught, and the id
\* stays.
RelayCommit(p) ==
    /\ cur[p].id # 0
    /\ log[cur[p].id].state = "open"
    /\ \E state \in {"in", "out"} : log' = [log EXCEPT ![cur[p].id].state = state]
    /\ UNCHANGED <<writeVars, relay, cur, brokerVars, conn, clientVars>>

\* The fan-out: this process, then the broker.
RelayFans(p) ==
    /\ cur[p].id # 0
    /\ log[cur[p].id].state # "open"
    /\ PublishEvent(p, cur[p].id)
    /\ wire' = [wire EXCEPT ![p] = [q \in Procs |-> IF q = p THEN @[q] ELSE Append(@[q], cur[p].id)]]
    /\ cur' = [cur EXCEPT ![p] = NoEvent]
    /\ UNCHANGED <<writeVars, relay, log, alarm, known, last>>

-----------------------------------------------------------------------------
(* The broker (on_broker_message), from each process in order but for resyncs. What it    *)
(* carries may be lost.                                                                   *)

BrokerFrame(p, q) ==
    /\ wire[p][q] # <<>>
    /\ wire' = [wire EXCEPT ![p][q] = Tail(@)]
    /\ PublishEvent(q, Head(wire[p][q]))
    /\ UNCHANGED <<writeVars, relayVars, alarm, known, last>>

BrokerResync(q) ==
    /\ q \in alarm
    /\ alarm' = alarm \ {q}
    /\ ResyncLocal(q)
    /\ UNCHANGED <<writeVars, relayVars, wire, clientVars>>

BrokerLoses(q) ==
    /\ \/ /\ \E p \in Procs : wire[p][q] # <<>> /\ wire' = [wire EXCEPT ![p][q] = Tail(@)]
          /\ UNCHANGED alarm
       \/ /\ q \in alarm
          /\ alarm' = alarm \ {q}
          /\ UNCHANGED wire
    /\ missed' = [s \in Streams |->
          IF Open(s) /\ conn[s].at = q THEN missed[s] \cup {"broker"} ELSE missed[s]]
    /\ UNCHANGED <<writeVars, relayVars, conn, known, last>>

-----------------------------------------------------------------------------
(* run_event_stream.                                                       *)

\* A client that has not been told of the end connects, with the id of its last frame or
\* without. The subscription comes before the first read.
Connect(s, p, since) ==
    /\ ~Open(s)
    /\ End \notin known[s]
    /\ since \in {last[s], None}
    /\ conn' = [conn EXCEPT ![s] = Opening(p, since)]
    /\ UNCHANGED <<writeVars, relayVars, brokerVars, clientVars>>

\* _read_opening is one transaction, at read committed: every SELECT sees its own moment.
ReadRow(s) ==
    /\ conn[s].pc = "opening"
    /\ conn' = [conn EXCEPT ![s].pc = "row", ![s].seen = row]
    /\ UNCHANGED <<writeVars, relayVars, brokerVars, clientVars>>

\* max(id) of what is committed.
ReadHead(s) ==
    /\ conn[s].pc = "row"
    /\ \E i \in Rows \cup {0} :
          /\ \A j \in Rows : j <= i
          /\ conn' = [conn EXCEPT ![s].pc = "head", ![s].head = i]
    /\ UNCHANGED <<writeVars, relayVars, brokerVars, clientVars>>

\* The transaction fails, at whichever SELECT: an opening ends the stream, a resync stays
\* pending.
ReadFails(s) ==
    /\ conn[s].pc = "opening"
    /\ conn' = [conn EXCEPT ![s] =
          IF conn[s].again THEN [@ EXCEPT !.pc = "live", !.flag = TRUE, !.again = FALSE] ELSE Closed]
    /\ UNCHANGED <<writeVars, relayVars, brokerVars, clientVars>>

\* The rows after the resume point up to row i: the first `done`, which ends a replay, or
\* the last row.
Replayed(s, i) == {j \in Rows : conn[s].since < j /\ j <= i}

ReplayEnds(s, i) ==
    LET ends == {j \in Rows : conn[s].since < j /\ log[j].event = End}
    IN  /\ i >= conn[s].since
        /\ \A j \in ends : i <= j
        /\ i \in ends \/ \A j \in Rows : j <= i

Replays(s) ==
    /\ conn[s].since # None
    /\ conn[s].since <= conn[s].head
    /\ Cardinality({i \in Rows : i > conn[s].since}) <= ReplayMax

Live(c, water) == [Opening(c.at, None) EXCEPT !.pc = "live", !.q = c.q, !.flag = c.flag, !.water = water]

\* The client is told of these events: after `done` the stream is over, else it is live.
Tell(s, events, stream) ==
    /\ known' = [known EXCEPT ![s] = @ \cup events]
    /\ conn' = [conn EXCEPT ![s] = IF End \in events THEN Closed ELSE stream]

EventsOf(ids) == {log[i].event : i \in ids}

\* The missed events in the order of their ids; the end, if the row showed it. With
\* nothing to replay the watermark stays 0. An INSERT that is not committed yet, or an
\* event without a row, is passed over.
Replay(s) ==
    LET c == conn[s] IN
    /\ c.pc = "head"
    /\ Replays(s)
    /\ \E i \in Rows \cup {c.since} :
          /\ ReplayEnds(s, i)
          /\ Tell(s, EventsOf(Replayed(s, i)) \cup {n \in {End} : n <= c.seen},
                  Live(c, IF i = c.since THEN 0 ELSE i))
          /\ last' = [last EXCEPT ![s] = i]
          /\ missed' = [missed EXCEPT ![s] = @
                \cup {r \in {"overtaken"} : \E j \in 1..i : log[j].state = "open"}
                \cup {r \in {"unlogged"} : ~(EventsOf(Unlogged) \subseteq known[s])}]
    /\ UNCHANGED <<writeVars, relayVars, brokerVars>>

\* The snapshot: what the row held when it was read, at the id of the head.
Snapshot(s) ==
    LET c == conn[s] IN
    /\ c.pc = "head"
    /\ ~Replays(s)
    /\ Tell(s, 1..c.seen, Live(c, c.head))
    /\ last' = [last EXCEPT ![s] = c.head]
    /\ missed' = [missed EXCEPT ![s] =
          IF \E i \in 1..c.head : log[i].event > c.seen THEN {"overtaken"}
          ELSE IF c.seen = row THEN {} ELSE @]
    /\ UNCHANGED <<writeVars, relayVars, brokerVars>>

-----------------------------------------------------------------------------
(* _live_frames.                                                           *)

\* The flag is cleared before the read.
StartResync(s) ==
    /\ conn[s].pc = "live"
    /\ conn[s].flag
    /\ conn' = [conn EXCEPT ![s].pc = "opening", ![s].flag = FALSE, ![s].again = TRUE,
                            ![s].since = None]
    /\ UNCHANGED <<writeVars, relayVars, brokerVars, clientVars>>

\* Fault: no watermark.
NewAlways(s) == Head(conn[s].q).kind = "frame"

New(s) == Head(conn[s].q).kind = "frame" /\ Head(conn[s].q).id > conn[s].water

\* A frame is dropped while a resync is pending, and if it is not new.
Discard(s) ==
    LET c == conn[s] IN
    /\ c.pc = "live"
    /\ c.q # <<>>
    /\ c.flag \/ (Head(c.q) # Overflow /\ ~New(s))
    /\ conn' = [conn EXCEPT ![s].q = Tail(@)]
    /\ UNCHANGED <<writeVars, relayVars, brokerVars, clientVars>>

\* The ids that are still on their way to a stream.
Coming(s) ==
    LET p == conn[s].at IN
    {cur[q].id : q \in Procs} \cup {f.id : f \in ToSet(conn[s].q)}
        \cup (UNION {ToSet(wire[q][p]) : q \in Procs})

\* A frame overtakes what has a lower id and comes later: that will be dropped. A resync that
\* is still on its way comes too late as well.
Passes(s, id) ==
    {r \in {"overtaken"} : \E i \in Coming(s) : 0 < i /\ i < id}
        \cup {r \in {"broker"} : conn[s].at \in alarm}

\* Fault: frames are delivered while a resync is pending.
DeliverAtOnce(s) ==
    LET c == conn[s]
        id == Head(c.q).id
    IN
    /\ c.pc = "live"
    /\ c.q # <<>>
    /\ New(s)
    /\ Tell(s, {log[id].event}, [c EXCEPT !.q = Tail(@), !.water = id])
    /\ last' = [last EXCEPT ![s] = id]
    /\ missed' = [missed EXCEPT ![s] = @ \cup Passes(s, id)]
    /\ UNCHANGED <<writeVars, relayVars, brokerVars>>

Deliver(s) ==
    LET c == conn[s]
        id == Head(c.q).id
    IN
    /\ c.pc = "live"
    /\ c.q # <<>>
    /\ ~c.flag /\ New(s)
    /\ Tell(s, {log[id].event}, [c EXCEPT !.q = Tail(@), !.water = id])
    /\ last' = [last EXCEPT ![s] = id]
    /\ missed' = [missed EXCEPT ![s] = @ \cup Passes(s, id)]
    /\ UNCHANGED <<writeVars, relayVars, brokerVars>>

Hangup(s) ==
    /\ Open(s)
    /\ conn' = [conn EXCEPT ![s] = Closed]
    /\ UNCHANGED <<writeVars, relayVars, brokerVars, clientVars>>

\* The order to close.
Poisoned(s) ==
    /\ conn[s].pc = "live"
    /\ conn[s].q # <<>> /\ Head(conn[s].q) = Overflow /\ ~conn[s].flag
    /\ Hangup(s)

-----------------------------------------------------------------------------
Publishing(p) == \E n \in Events : Publish(p, n)
Relaying(p) == RelayTake(p) \/ RelayInsert(p) \/ RelayCommit(p) \/ RelayFans(p)
Broker(q)   == BrokerResync(q) \/ \E p \in Procs : BrokerFrame(p, q)
Reading(s)  == ReadRow(s) \/ ReadHead(s) \/ Replay(s) \/ Snapshot(s)
LiveStep(s) == StartResync(s) \/ Discard(s) \/ Deliver(s) \/ Poisoned(s)

Rest ==
    /\ row = NEvents /\ \A p \in Procs : owing[p] = {} /\ relay[p] = <<>> /\ cur[p] = NoEvent
    /\ \A s \in Streams : End \in known[s]
    /\ UNCHANGED vars

Next ==
    \/ \E p \in Procs : Write(p) \/ Publishing(p) \/ Relaying(p) \/ RelayFails(p)
                           \/ Broker(p) \/ BrokerLoses(p)
    \/ \E s \in Streams :
          \/ \E p \in Procs : \E since \in {last[s], None} : Connect(s, p, since)
          \/ Reading(s) \/ ReadFails(s) \/ LiveStep(s) \/ Hangup(s)
    \/ Rest

Spec == Init /\ [][Next]_vars

\* The loops run; a read that is tried again and again succeeds at last. No client must
\* connect or hang up, and nothing must fail.
Fairness ==
    /\ WF_vars(\E p \in Procs : Write(p))
    /\ \A p \in Procs : WF_vars(Publishing(p)) /\ WF_vars(Relaying(p))
    /\ \A p, q \in Procs : WF_vars(BrokerFrame(p, q)) /\ WF_vars(BrokerResync(q))
    /\ \A s \in Streams : WF_vars(LiveStep(s)) /\ SF_vars(ReadRow(s))
                             /\ WF_vars(ReadHead(s) \/ Replay(s) \/ Snapshot(s))

FairSpec == Spec /\ Fairness

-----------------------------------------------------------------------------
(* Properties.                                                             *)

\* Queues, cursors and connections have the shape the code gives them.
TypeOK ==
    /\ row \in 0..NEvents
    /\ owing \in [Procs -> SUBSET Events]
    /\ relay \in [Procs -> Seq(Events)] /\ \A p \in Procs : Len(relay[p]) <= RelayMax
    /\ cur \in [Procs -> [event: Nat, id: Nat]]
    /\ log \in Seq([event: Events, state: States])
    /\ wire \in [Procs -> [Procs -> Seq(Nat)]]
    /\ alarm \subseteq Procs
    /\ conn \in [Streams -> Conn \cup {Closed}]
    /\ \A s \in Streams : Len(conn[s].q) <= QMax
    /\ known \in [Streams -> SUBSET Events]
    /\ last \in [Streams -> Nat]
    /\ missed \in [Streams -> SUBSET Reasons]

\* The events up to id i: those with an id, a row or not, and those that were lost before.
UpTo(i) == EventsOf(1..i)

\* "everything after this id is then precisely what the snapshot does not already contain -
\* no gap" (stream.py:65): a client knows every event up to its resume point, those that
\* got no id included; but for the four ways of missed.
ResumePointCovers ==
    \A s \in Streams : missed[s] = {} => UpTo(last[s]) \subseteq known[s]

\* "silently dropping events could absorb an awaiting_approval, which must never be
\* possible" (events.py:93): the same, when a queue may overflow.
OverflowLosesNothing ==
    \A s \in Streams : missed[s] \subseteq {"overflow"} => UpTo(last[s]) \subseteq known[s]

\* Once a connection has a watermark it never sends an id again, nor an older one.
IdsIncrease ==
    [][\A s \in Streams :
        conn[s].pc = "live" /\ conn[s].water > 0 /\ last'[s] # last[s] => last'[s] > last[s]]_vars

\* A stream left open ends with `done`, whatever saturates, fails, is resynced or resumed;
\* but for the four ways of missed.
StreamEnds ==
    \A s \in Streams :
        Open(s) ~> (~Open(s) \/ missed[s] # {})
=============================================================================
