------------------------- MODULE EventStreamProofs -------------------------
(***************************************************************************)
(* Theorems of EventStream: the shape of its state, that the ids of a      *)
(* stream increase, and that a client knows every event up to its resume   *)
(* point.                                                                  *)
(***************************************************************************)
EXTENDS EventStream, TLAPS

-----------------------------------------------------------------------------
(* The invariant.                                                          *)

\* The pipeline: an event was written before it is published, and an id is one of the log.
\* An INSERT that is not committed is still in its relay.
WritersInv ==
    /\ row \in 0..NEvents
    /\ owing \in [Procs -> SUBSET Events]
    /\ \A p \in Procs : \A n \in owing[p] : n <= row

RelayInv ==
    /\ relay \in [Procs -> Seq(Events)]
    /\ \A p \in Procs : Len(relay[p]) <= RelayMax
    /\ \A p \in Procs : \A k \in 1..Len(relay[p]) : relay[p][k] <= row

CurInv ==
    /\ cur \in [Procs -> [event: Nat, id: Nat]]
    /\ \A p \in Procs : cur[p].event <= row /\ cur[p].id <= Len(log)

LogInv ==
    /\ log \in Seq([event: Events, state: States])
    /\ \A i \in 1..Len(log) :
          /\ log[i].event <= row
          /\ log[i].state = "open" => \E p \in Procs : cur[p].id = i

WireInv ==
    /\ wire \in [Procs -> [Procs -> Seq(Nat)]]
    /\ \A p, q \in Procs : ToSet(wire[p][q]) \subseteq 1..Len(log)
    /\ alarm \subseteq Procs

PipeInv == WritersInv /\ RelayInv /\ CurInv /\ LogInv /\ WireInv

\* The frame of id i is on its way to stream s.
Comes(s, i) ==
    \/ \E p \in Procs : cur[p].id = i
    \/ \E p \in Procs : conn[s].at \in Procs /\ i \in ToSet(wire[p][conn[s].at])
    \/ Frame(i) \in ToSet(conn[s].q)

\* A connection, its queue and its cursors.
ConnInv(s) ==
    /\ conn[s] \in Conn \cup {Closed}
    /\ Len(conn[s].q) <= QMax
    /\ \A f \in ToSet(conn[s].q) : f.kind = "frame" => f.id \in 1..Len(log)

CursorInv(s) ==
    /\ last[s] \in 0..Len(log)
    /\ conn[s].pc \in {"opening", "row", "head"} => conn[s].since \in {None, last[s]}
    /\ conn[s].seen <= row
    /\ conn[s].head <= Len(log)
    /\ conn[s].water \in {0, last[s]}

\* The read under way will tell of event n.
WillTell(s, n) == conn[s].pc \in {"row", "head"} /\ n <= conn[s].seen

\* No resync is on its way to the connection, and it is past the start of its read.
Relies(s) == conn[s].pc \in {"row", "head", "live"} /\ ~conn[s].flag /\ conn[s].at \notin alarm

\* What the client of such a connection does not know, it will be told.
FlowInv(s) ==
    Relies(s) => \A i \in 1..Len(log) :
        log[i].event \in known[s] \/ Comes(s, i) \/ WillTell(s, log[i].event)

StreamInv(s) ==
    /\ ConnInv(s)
    /\ CursorInv(s)
    /\ missed[s] = {} => UpTo(last[s]) \subseteq known[s] /\ FlowInv(s)

ClientInv ==
    /\ conn \in [Streams -> Conn \cup {Closed}]
    /\ known \in [Streams -> SUBSET Events]
    /\ last \in [Streams -> Nat]
    /\ missed \in [Streams -> SUBSET Reasons]
    /\ \A s \in Streams : StreamInv(s)

IInv == PipeInv /\ ClientInv

-----------------------------------------------------------------------------
(* Sequences and their elements.                                           *)

LEMMA Elements == ASSUME NEW S, NEW q \in Seq(S)
                  PROVE  /\ \A x : x \in ToSet(q) <=> \E k \in 1..Len(q) : x = q[k]
                         /\ ToSet(q) \subseteq S
  BY DEF ToSet

LEMMA Appended ==
    ASSUME NEW S, NEW q \in Seq(S), NEW e \in S
    PROVE  /\ Append(q, e) \in Seq(S)
           /\ Len(Append(q, e)) = Len(q) + 1
           /\ ToSet(Append(q, e)) = ToSet(q) \cup {e}
<1>1. Append(q, e) \in Seq(S) /\ Len(Append(q, e)) = Len(q) + 1
  OBVIOUS
<1>2. \A k \in 1..Len(q) : Append(q, e)[k] = q[k]
  OBVIOUS
<1>3. Append(q, e)[Len(q) + 1] = e
  OBVIOUS
<1>4. Len(q) \in Nat
  OBVIOUS
<1>5. 1..Len(Append(q, e)) = 1..Len(q) \cup {Len(q) + 1}
  BY <1>1, <1>4
<1> DEFINE r == Append(q, e)
<1>6. \A x : x \in ToSet(r) <=> \E k \in 1..Len(r) : x = r[k]
  BY <1>1, Elements
<1>7. ASSUME NEW x PROVE x \in ToSet(r) <=> x \in ToSet(q) \cup {e}
  <2>1. ASSUME NEW k \in 1..Len(q), x = q[k] PROVE k \in 1..Len(r) /\ r[k] = x
    BY <1>2, <1>5, <2>1
  <2>2. Len(q) + 1 \in 1..Len(r)
    BY <1>5
  <2>3. x \in ToSet(q) <=> \E k \in 1..Len(q) : x = q[k]
    BY Elements
  <2> HIDE DEF r
  <2> QED
    BY <1>2, <1>3, <1>5, <1>6, <2>1, <2>2, <2>3 DEF r
<1> QED
  BY <1>1, <1>7

LEMMA TailHas ==
    ASSUME NEW S, NEW q \in Seq(S), q # <<>>
    PROVE  /\ Head(q) \in ToSet(q)
           /\ Tail(q) \in Seq(S)
           /\ Len(Tail(q)) = Len(q) - 1
           /\ ToSet(Tail(q)) \subseteq ToSet(q)
           /\ \A x \in ToSet(q) : x = Head(q) \/ x \in ToSet(Tail(q))
<1>1. Tail(q) \in Seq(S) /\ Len(Tail(q)) = Len(q) - 1 /\ Len(q) \in Nat \ {0}
  OBVIOUS
<1>2. \A k \in 1..Len(Tail(q)) : k + 1 \in 1..Len(q) /\ Tail(q)[k] = q[k + 1]
  BY <1>1
<1>3. Head(q) = q[1] /\ 1 \in 1..Len(q)
  BY <1>1
<1>4. Head(q) \in ToSet(q)
  BY <1>3, Elements
<1>5. ASSUME NEW x \in ToSet(Tail(q)) PROVE x \in ToSet(q)
  <2>1. PICK k \in 1..Len(Tail(q)) : x = Tail(q)[k]
    BY <1>1, Elements
  <2> QED
    BY <1>2, <2>1, Elements
<1>6. ASSUME NEW x \in ToSet(q) PROVE x = Head(q) \/ x \in ToSet(Tail(q))
  <2>1. PICK k \in 1..Len(q) : x = q[k]
    BY Elements
  <2>2. CASE k = 1
    BY <1>3, <2>1, <2>2
  <2>3. CASE k # 1
    <3>1. k - 1 \in 1..Len(Tail(q)) /\ (k - 1) + 1 = k
      BY <1>1, <2>3
    <3>2. Tail(q)[k - 1] = x
      BY <1>2, <2>1, <3>1
    <3>3. \A y : y \in ToSet(Tail(q)) <=> \E j \in 1..Len(Tail(q)) : y = Tail(q)[j]
      BY <1>1, Elements
    <3> QED
      BY <3>1, <3>2, <3>3
  <2> QED
    BY <2>2, <2>3
<1> QED
  BY <1>1, <1>4, <1>5, <1>6

LEMMA Items == /\ Overflow \in Item /\ Resync \in Item
               /\ \A i \in Nat : Frame(i) \in Item /\ Frame(i).kind = "frame" /\ Frame(i).id = i
               /\ Overflow.kind # "frame" /\ Resync.kind # "frame"
               /\ \A f \in Item : f.kind = "frame" => f = Frame(f.id)
  BY DEF Item, Frame, Overflow, Resync

\* A frame goes to the end of a queue, or makes it overflow.
LEMMA PutIs ==
    ASSUME NEW q \in Seq(Item), Len(q) <= QMax, NEW id \in Nat
    PROVE  /\ Put(q, id) \in Seq(Item)
           /\ Len(Put(q, id)) <= QMax
           /\ ToSet(Put(q, id)) \subseteq ToSet(q) \cup {Frame(id), Overflow}
           /\ Len(q) # QMax => ToSet(Put(q, id)) = ToSet(q) \cup {Frame(id)}
<1> USE StreamAssumption, Items
<1>0. QMax \in Nat \ {0} /\ Len(q) \in Nat
  OBVIOUS
<1>1. CASE Len(q) < QMax
  <2>1. Put(q, id) = Append(q, Frame(id))
    BY <1>1 DEF Put
  <2> QED
    BY <1>0, <1>1, <2>1, Appended
<1>2. CASE Len(q) = QMax
  <2>1. Put(q, id) = Append(Tail(q), Overflow) /\ q # <<>>
    BY <1>0, <1>2 DEF Put
  <2>2. Tail(q) \in Seq(Item) /\ Len(Tail(q)) = Len(q) - 1 /\ ToSet(Tail(q)) \subseteq ToSet(q)
    BY <2>1, TailHas
  <2>3. /\ Put(q, id) \in Seq(Item) /\ Len(Put(q, id)) = Len(Tail(q)) + 1
        /\ ToSet(Put(q, id)) = ToSet(Tail(q)) \cup {Overflow}
    <3> DEFINE t == Tail(q)
    <3>1. t \in Seq(Item) /\ Overflow \in Item /\ Put(q, id) = Append(t, Overflow)
      BY <2>1, <2>2
    <3> HIDE DEF t
    <3>2. /\ Append(t, Overflow) \in Seq(Item) /\ Len(Append(t, Overflow)) = Len(t) + 1
          /\ ToSet(Append(t, Overflow)) = ToSet(t) \cup {Overflow}
      BY <3>1, Appended
    <3> QED
      BY <3>1, <3>2 DEF t
  <2>4. Len(Put(q, id)) <= QMax
    BY <1>0, <1>2, <2>2, <2>3
  <2>5. ToSet(Put(q, id)) \subseteq ToSet(q) \cup {Frame(id), Overflow}
    BY <2>2, <2>3
  <2> QED
    BY <1>2, <2>3, <2>4, <2>5
<1> QED
  BY <1>0, <1>1, <1>2

\* A resync goes to the end of a queue that has room.
LEMMA WakeIs ==
    ASSUME NEW q \in Seq(Item), Len(q) <= QMax,
           NEW w, w = IF Len(q) < QMax THEN Append(q, Resync) ELSE q
    PROVE  /\ w \in Seq(Item)
           /\ Len(w) <= QMax
           /\ ToSet(q) \subseteq ToSet(w) /\ ToSet(w) \subseteq ToSet(q) \cup {Resync}
<1>0. QMax \in Nat \ {0} /\ Len(q) \in Nat
  BY StreamAssumption
<1>1. CASE Len(q) < QMax
  <2>1. w = Append(q, Resync) /\ Resync \in Item
    BY <1>1, Items
  <2>2. w \in Seq(Item) /\ Len(w) = Len(q) + 1 /\ ToSet(w) = ToSet(q) \cup {Resync}
    BY <2>1, Appended
  <2> QED
    BY <1>0, <1>1, <2>2
<1>2. CASE ~(Len(q) < QMax)
  BY <1>2
<1> QED
  BY <1>1, <1>2

-----------------------------------------------------------------------------
(* What a step of the pipeline leaves of a stream.                         *)

\* The log only grows, and an id keeps its event.
Grows ==
    /\ row <= row' /\ Len(log) <= Len(log')
    /\ \A i \in 1..Len(log) : log'[i].event = log[i].event

\* A connection whose queue and flag may have changed.
SameBut(c, d) ==
    /\ d.at = c.at /\ d.pc = c.pc /\ d.since = c.since /\ d.again = c.again
    /\ d.seen = c.seen /\ d.head = c.head /\ d.water = c.water

LEMMA Connections ==
    /\ \A c \in Conn : c.pc # "off" /\ c.at \in Procs /\ c.q \in Seq(Item) /\ c.flag \in BOOLEAN
    /\ Closed.pc = "off" /\ Closed.q = <<>> /\ Closed.water = 0 /\ Closed.seen = 0 /\ Closed.head = 0
    /\ Closed \notin Conn
    /\ \A c \in Conn \cup {Closed} : c.pc # "off" => c \in Conn
  BY DEF Conn, Closed, Opening

LEMMA Requeued ==
    ASSUME NEW c \in Conn, NEW q \in Seq(Item), NEW d, d = [c EXCEPT !.q = q]
    PROVE  d \in Conn /\ d.q = q /\ d.flag = c.flag /\ SameBut(c, d)
  BY DEF Conn, SameBut

LEMMA Flagged ==
    ASSUME NEW c \in Conn, NEW q \in Seq(Item), NEW d, d = [c EXCEPT !.flag = TRUE, !.q = q]
    PROVE  d \in Conn /\ d.q = q /\ d.flag = TRUE /\ SameBut(c, d)
  BY DEF Conn, SameBut

LEMMA Lengths == /\ PipeInv => Len(log) \in Nat /\ row \in Nat
                 /\ PipeInv' => Len(log') \in Nat /\ row' \in Nat
<1>1. ASSUME NEW l \in Seq([event: Events, state: States]), NEW r \in 0..NEvents
      PROVE  Len(l) \in Nat /\ r \in Nat
  BY StreamAssumption
<1>2. PipeInv => log \in Seq([event: Events, state: States]) /\ row \in 0..NEvents
  BY DEF PipeInv, LogInv, WritersInv
<1>3. PipeInv' => log' \in Seq([event: Events, state: States]) /\ row' \in 0..NEvents
  BY DEF PipeInv, LogInv, WritersInv
<1> QED
  BY <1>1, <1>2, <1>3

LEMMA Entries == PipeInv => \A i \in 1..Len(log) : log[i].event \in Events /\ log[i].event \in Nat
<1>1. ASSUME NEW S, NEW l \in Seq(S), NEW i \in 1..Len(l) PROVE l[i] \in S
  OBVIOUS
<1>2. \A e \in [event: Events, state: States] : e.event \in Events /\ e.event \in Nat
  BY DEF Events
<1>3. PipeInv => log \in Seq([event: Events, state: States])
  BY DEF PipeInv, LogInv
<1> QED
  BY <1>1, <1>2, <1>3

LEMMA StreamKept ==
    ASSUME PipeInv, PipeInv', Grows, NEW s \in Streams, StreamInv(s), ConnInv(s)',
           known'[s] = known[s], last'[s] = last[s], missed'[s] = {} => missed[s] = {},
           SameBut(conn[s], conn'[s]),
           missed'[s] = {} /\ Relies(s)' => Relies(s),
           \A i \in 1..Len(log') : missed'[s] = {} /\ Relies(s)' =>
                \/ Comes(s, i)'
                \/ i \in 1..Len(log) /\ (Comes(s, i) => log[i].event \in known[s])
    PROVE  StreamInv(s)'
<1>1. Len(log) \in Nat /\ Len(log') \in Nat /\ row \in Nat /\ row' \in Nat
  BY Lengths
<1>2. CursorInv(s)'
  <2>1. CursorInv(s) /\ conn[s].seen <= row /\ conn[s].head <= Len(log) /\ last[s] \in 0..Len(log)
    BY DEF StreamInv, CursorInv
  <2>2. conn[s].seen \in Nat /\ conn[s].head \in Nat
    BY Connections DEF StreamInv, ConnInv, Conn, Closed, Opening
  <2>3. conn'[s].seen <= row' /\ conn'[s].head <= Len(log') /\ last'[s] \in 0..Len(log')
    BY <1>1, <2>1, <2>2 DEF Grows, SameBut
  <2> QED
    BY <2>1, <2>3 DEF CursorInv, SameBut
<1>3. ASSUME missed'[s] = {} PROVE UpTo(last[s])' \subseteq known'[s]
  <2>1. UpTo(last[s]) \subseteq known[s] /\ last[s] \in 0..Len(log)
    BY <1>3 DEF StreamInv, CursorInv
  <2>2. UpTo(last[s])' = {log'[j].event : j \in 1..last'[s]}
    BY DEF UpTo, EventsOf
  <2>3. UpTo(last[s]) = {log[j].event : j \in 1..last[s]}
    BY DEF UpTo, EventsOf
  <2>4. \A j \in 1..last[s] : log'[j].event = log[j].event
    BY <1>1, <2>1 DEF Grows
  <2> QED
    BY <2>1, <2>2, <2>3, <2>4
<1>4. ASSUME missed'[s] = {}, Relies(s)', NEW i \in 1..Len(log')
      PROVE  log'[i].event \in known'[s] \/ Comes(s, i)' \/ WillTell(s, log[i].event)'
  <2>1. CASE Comes(s, i)'
    BY <2>1
  <2>2. CASE ~Comes(s, i)'
    <3>1. i \in 1..Len(log) /\ (Comes(s, i) => log[i].event \in known[s])
      BY <1>4, <2>2
    <3>2. log[i].event \in known[s] \/ WillTell(s, log[i].event)
      BY <1>4, <3>1 DEF StreamInv, FlowInv
    <3>3. log'[i].event = log[i].event
      BY <3>1 DEF Grows
    <3> QED
      BY <3>2, <3>3 DEF WillTell, SameBut
  <2> QED
    BY <2>1, <2>2
<1> QED
  BY <1>2, <1>3, <1>4 DEF StreamInv, FlowInv

\* A step that leaves the connections alone, and what is on its way to them.
LEMMA QuietKept ==
    ASSUME PipeInv, PipeInv', Grows, ClientInv, UNCHANGED <<conn, clientVars>>,
           \A q \in Procs : q \in alarm => q \in alarm',
           \A s \in Streams : \A i \in 1..Len(log') :
                Comes(s, i)' \/ (i \in 1..Len(log) /\ ~Comes(s, i)) \/ Relies(s)' = FALSE
    PROVE  ClientInv'
<1>1. ASSUME NEW s \in Streams PROVE StreamInv(s)'
  <2>1. StreamInv(s)
    BY DEF ClientInv
  <2>2. Len(log) \in Nat /\ Len(log') \in Nat
    BY Lengths
  <2>3. ConnInv(s)'
    <3>1. ConnInv(s) /\ conn' = conn
      BY <2>1 DEF StreamInv
    <3>2. \A f \in ToSet(conn[s].q) : f.kind = "frame" => f.id \in 1..Len(log')
      BY <2>2, <3>1 DEF ConnInv, Grows
    <3> QED
      BY <3>1, <3>2 DEF ConnInv
  <2>4. Relies(s)' => Relies(s)
    <3>1. conn[s] \in Conn \cup {Closed} /\ conn' = conn
      BY DEF ClientInv
    <3> QED
      BY <3>1, Connections DEF Relies
  <2>5. SameBut(conn[s], conn'[s]) /\ known' = known /\ last' = last /\ missed' = missed
    BY DEF clientVars, SameBut
  <2> QED
    BY <2>1, <2>3, <2>4, <2>5, StreamKept
<1> QED
  BY <1>1 DEF ClientInv, clientVars

-----------------------------------------------------------------------------
(* The writers and the relays.                                             *)

LEMMA LogAppended ==
    ASSUME PipeInv, NEW n \in Events, NEW state \in States,
           log' = Append(log, [event |-> n, state |-> state])
    PROVE  /\ log' \in Seq([event: Events, state: States])
           /\ Len(log) \in Nat /\ Len(log') = Len(log) + 1
           /\ \A i \in 1..Len(log) : log'[i] = log[i]
           /\ log'[Len(log) + 1] = [event |-> n, state |-> state]
           /\ \A i \in 1..Len(log') : i \in 1..Len(log) \/ i = Len(log) + 1
           /\ 1..Len(log) \subseteq 1..Len(log')
  BY DEF PipeInv, LogInv

LEMMA WriteKept == ASSUME IInv, NEW p \in Procs, Write(p) PROVE IInv'
<1> USE StreamAssumption
<1>1. PipeInv'
  <2>0. row \in Nat /\ row + 1 \in 0..NEvents /\ row + 1 \in Events /\ row' = row + 1
    BY DEF IInv, PipeInv, WritersInv, Write, Events
  <2>1. WritersInv'
    <3>1. owing' \in [Procs -> SUBSET Events]
      BY <2>0 DEF IInv, PipeInv, WritersInv, Write
    <3>2. ASSUME NEW q \in Procs, NEW n \in owing'[q] PROVE n <= row'
      <4>1. n \in owing[q] \/ n = row + 1
        BY DEF Write, IInv, PipeInv, WritersInv
      <4>2. n \in owing[q] => n \in Nat /\ n <= row
        BY DEF IInv, PipeInv, WritersInv, Events
      <4> QED
        BY <2>0, <4>1, <4>2
    <3> QED
      BY <2>0, <3>1, <3>2 DEF WritersInv
  <2>2. RelayInv'
    <3>1. RelayInv /\ relay' = relay
      BY DEF IInv, PipeInv, Write, relayVars
    <3>2. ASSUME NEW q \in Procs, NEW k \in 1..Len(relay[q]) PROVE relay[q][k] <= row + 1
      <4>1. relay[q] \in Seq(Events) /\ relay[q][k] <= row
        BY <3>1 DEF RelayInv
      <4>2. relay[q][k] \in Nat
        BY <4>1 DEF Events
      <4> QED
        BY <2>0, <4>1, <4>2
    <3> QED
      BY <2>0, <3>1, <3>2 DEF RelayInv
  <2>3. CurInv'
    BY <2>0 DEF IInv, PipeInv, CurInv, Write, relayVars
  <2>4. LogInv'
    <3>1. LogInv /\ log' = log /\ cur' = cur
      BY DEF IInv, PipeInv, Write, relayVars
    <3>2. ASSUME NEW i \in 1..Len(log) PROVE log[i].event <= row + 1
      <4>1. log[i].event <= row
        BY <3>1 DEF LogInv
      <4>2. log[i].event \in Nat
        BY Entries DEF IInv
      <4> QED
        BY <2>0, <4>1, <4>2
    <3> QED
      BY <2>0, <3>1, <3>2 DEF LogInv
  <2>5. WireInv'
    BY DEF IInv, PipeInv, WireInv, Write, relayVars, brokerVars
  <2> QED
    BY <2>1, <2>2, <2>3, <2>4, <2>5 DEF PipeInv
<1>2. Grows
  BY DEF Grows, Write, relayVars, IInv, PipeInv, WritersInv, LogInv
<1>3. \A s \in Streams : \A i \in 1..Len(log') :
          Comes(s, i)' \/ (i \in 1..Len(log) /\ ~Comes(s, i)) \/ Relies(s)' = FALSE
  BY DEF Write, relayVars, brokerVars, Comes
<1>4. UNCHANGED <<conn, clientVars, alarm>>
  BY DEF Write, brokerVars
<1> QED
  BY <1>1, <1>2, <1>3, <1>4, QuietKept DEF IInv

\* The relay loses an event: no open connection relies on anything until it has read again.
LEMMA AskKept ==
    ASSUME PipeInv, PipeInv', Grows, ClientInv, NEW p \in Procs, RequestResync(p), UNCHANGED clientVars
    PROVE  ClientInv'
<1> USE StreamAssumption
<1>0. Len(log) \in Nat /\ Len(log') \in Nat
  BY Lengths
<1>1. ASSUME NEW s \in Streams
      PROVE  StreamInv(s)' /\ conn'[s] \in Conn \cup {Closed}
  <2> DEFINE c == conn[s]
             w == IF Len(c.q) < QMax THEN Append(c.q, Resync) ELSE c.q
  <2>1. StreamInv(s) /\ ConnInv(s) /\ c \in Conn \cup {Closed} /\ Len(c.q) <= QMax
    BY DEF ClientInv, StreamInv, ConnInv
  <2>2. conn'[s] = IF Open(s) /\ c.at = p THEN [c EXCEPT !.flag = TRUE, !.q = w] ELSE c
    BY DEF RequestResync, ResyncLocal
  <2>3. CASE Open(s) /\ c.at = p
    <3>1. c \in Conn /\ c.q \in Seq(Item)
      BY <2>1, <2>3, Connections DEF Open
    <3>2. w \in Seq(Item) /\ Len(w) <= QMax /\ ToSet(w) \subseteq ToSet(c.q) \cup {Resync}
      BY <2>1, <3>1, WakeIs
    <3> HIDE DEF w
    <3>3. conn'[s] \in Conn /\ conn'[s].q = w /\ conn'[s].flag = TRUE /\ SameBut(c, conn'[s])
      <4>1. conn'[s] = [c EXCEPT !.flag = TRUE, !.q = w]
        BY <2>2, <2>3
      <4> QED
        BY <3>1, <3>2, <4>1, Flagged
    <3>4. \A f \in ToSet(w) : f.kind = "frame" => f.id \in 1..Len(log')
      <4>1. \A f \in ToSet(c.q) : f.kind = "frame" => f.id \in 1..Len(log')
        BY <1>0, <2>1 DEF ConnInv, Grows
      <4> QED
        BY <3>2, <4>1, Items
    <3>5. ConnInv(s)'
      BY <3>2, <3>3, <3>4 DEF ConnInv
    <3>6. ~Relies(s)'
      BY <3>3 DEF Relies
    <3>7. known' = known /\ last' = last /\ missed' = missed
      BY DEF clientVars
    <3> QED
      BY <2>1, <3>3, <3>5, <3>6, <3>7, StreamKept
  <2>4. CASE ~(Open(s) /\ c.at = p)
    <3>1. conn'[s] = c
      BY <2>2, <2>4
    <3>2. ConnInv(s)'
      <4>1. \A f \in ToSet(c.q) : f.kind = "frame" => f.id \in 1..Len(log')
        BY <1>0, <2>1 DEF ConnInv, Grows
      <4> QED
        BY <2>1, <3>1, <4>1 DEF ConnInv
    <3>3. ~Relies(s)'
      <4>1. c.pc = "off" \/ c.at \in alarm'
        BY <2>1, <2>4, Connections DEF Open, RequestResync
      <4> QED
        BY <3>1, <4>1 DEF Relies
    <3>4. known' = known /\ last' = last /\ missed' = missed /\ SameBut(c, conn'[s])
      BY <3>1 DEF clientVars, SameBut
    <3> QED
      BY <2>1, <3>1, <3>2, <3>3, <3>4, StreamKept
  <2> QED
    BY <2>3, <2>4
<1>2. conn' \in [Streams -> Conn \cup {Closed}]
  <2>1. conn' = [s \in Streams |-> conn'[s]]
    BY DEF RequestResync, ResyncLocal
  <2> QED
    BY <1>1, <2>1
<1> QED
  BY <1>1, <1>2 DEF ClientInv, clientVars

\* An event that was published and got no id.
LEMMA LostKept ==
    ASSUME IInv, NEW p \in Procs, NEW n \in Events, n <= row,
           log' = Append(log, [event |-> n, state |-> "lost"]),
           RequestResync(p), WritersInv', RelayInv',
           cur' = cur \/ (cur[p].id = 0 /\ cur' = [cur EXCEPT ![p] = NoEvent]),
           UNCHANGED <<row, wire, clientVars>>
    PROVE  IInv'
<1>1. /\ log' \in Seq([event: Events, state: States])
      /\ Len(log) \in Nat /\ Len(log') = Len(log) + 1
      /\ \A i \in 1..Len(log) : log'[i] = log[i]
      /\ log'[Len(log) + 1] = [event |-> n, state |-> "lost"]
      /\ \A i \in 1..Len(log') : i \in 1..Len(log) \/ i = Len(log) + 1
      /\ 1..Len(log) \subseteq 1..Len(log')
  BY LogAppended DEF IInv, States
<1>2. CurInv'
  <2>1. CurInv /\ row' = row /\ row \in Nat
    BY Lengths DEF IInv, PipeInv
  <2>2. cur' \in [Procs -> [event: Nat, id: Nat]]
    BY <2>1 DEF CurInv, NoEvent
  <2>3. ASSUME NEW q \in Procs PROVE cur'[q].event <= row /\ cur'[q].id <= Len(log')
    <3>1. cur'[q] = cur[q] \/ cur'[q] = NoEvent
      BY <2>1 DEF CurInv
    <3>2. cur[q].id \in Nat /\ cur[q].id <= Len(log) /\ cur[q].event <= row
      BY <2>1 DEF CurInv
    <3> QED
      BY <1>1, <2>1, <3>1, <3>2 DEF NoEvent
  <2> QED
    BY <2>1, <2>2, <2>3 DEF CurInv
<1>3. LogInv'
  <2>1. LogInv /\ CurInv /\ row' = row
    BY DEF IInv, PipeInv
  <2>2. ASSUME NEW i \in 1..Len(log')
        PROVE  log'[i].event <= row /\ (log'[i].state = "open" => \E q \in Procs : cur'[q].id = i)
    <3>1. CASE i = Len(log) + 1
      BY <1>1, <3>1
    <3>2. CASE i \in 1..Len(log)
      <4>1. log[i].state = "open" => \E q \in Procs : cur[q].id = i
        BY <2>1, <3>2 DEF LogInv
      <4>2. ASSUME NEW q \in Procs, cur[q].id = i PROVE cur'[q].id = i
        BY <2>1, <3>2, <4>2 DEF CurInv
      <4> QED
        BY <1>1, <2>1, <3>2, <4>1, <4>2 DEF LogInv
    <3> QED
      BY <1>1, <3>1, <3>2
  <2> QED
    BY <1>1, <2>1, <2>2 DEF LogInv
<1>4. WireInv'
  <2>1. WireInv /\ alarm' \subseteq Procs /\ wire' = wire
    BY DEF IInv, PipeInv, WireInv, RequestResync
  <2> QED
    BY <1>1, <2>1 DEF WireInv
<1>5. PipeInv'
  BY <1>2, <1>3, <1>4 DEF PipeInv
<1>6. Grows
  BY <1>1, Lengths DEF Grows, IInv
<1> QED
  BY <1>5, <1>6, AskKept DEF IInv

LEMMA PublishKept == ASSUME IInv, NEW p \in Procs, NEW n \in Events, Publish(p, n) PROVE IInv'
<1> USE StreamAssumption
<1>1. n <= row /\ row' = row /\ cur' = cur /\ wire' = wire /\ UNCHANGED clientVars
  BY DEF Publish, IInv, PipeInv, WritersInv
<1>2. WritersInv'
  BY DEF Publish, IInv, PipeInv, WritersInv
<1>3. CASE /\ Len(relay[p]) < RelayMax
           /\ relay' = [relay EXCEPT ![p] = Append(@, n)]
           /\ UNCHANGED <<log, alarm, conn>>
  <2>1. RelayInv'
    <3>1. relay[p] \in Seq(Events) /\ RelayInv
      BY DEF IInv, PipeInv, RelayInv
    <3>2. Append(relay[p], n) \in Seq(Events) /\ Len(Append(relay[p], n)) <= RelayMax
      BY <1>3, <3>1
    <3>3. ASSUME NEW k \in 1..Len(Append(relay[p], n)) PROVE Append(relay[p], n)[k] <= row
      <4>1. k \in 1..Len(relay[p]) \/ k = Len(relay[p]) + 1
        BY <3>1
      <4>2. k \in 1..Len(relay[p]) => Append(relay[p], n)[k] = relay[p][k] /\ relay[p][k] <= row
        BY <3>1 DEF RelayInv
      <4>3. Append(relay[p], n)[Len(relay[p]) + 1] = n
        BY <3>1
      <4> QED
        BY <1>1, <4>1, <4>2, <4>3
    <3>4. relay' \in [Procs -> Seq(Events)]
      BY <1>3, <3>1, <3>2 DEF RelayInv
    <3>5. ASSUME NEW q \in Procs
          PROVE  Len(relay'[q]) <= RelayMax /\ \A k \in 1..Len(relay'[q]) : relay'[q][k] <= row'
      <4>1. CASE q = p
        <5>1. relay'[q] = Append(relay[p], n)
          BY <1>3, <3>1, <4>1 DEF RelayInv
        <5> QED
          BY <1>1, <3>2, <3>3, <5>1
      <4>2. CASE q # p
        <5>1. relay'[q] = relay[q]
          BY <1>3, <3>1, <4>2 DEF RelayInv
        <5> QED
          BY <1>1, <3>1, <5>1 DEF RelayInv
      <4> QED
        BY <4>1, <4>2
    <3> QED
      BY <3>4, <3>5 DEF RelayInv
  <2>2. PipeInv'
    BY <1>1, <1>2, <1>3, <2>1 DEF IInv, PipeInv, CurInv, LogInv, WireInv
  <2>3. Grows
    BY <1>1, <1>3, Lengths DEF Grows, IInv
  <2>4. \A s \in Streams : \A i \in 1..Len(log') :
            Comes(s, i)' \/ (i \in 1..Len(log) /\ ~Comes(s, i)) \/ Relies(s)' = FALSE
    BY <1>1, <1>3 DEF Comes
  <2> QED
    BY <1>1, <1>3, <2>2, <2>3, <2>4, QuietKept DEF IInv
<1>4. CASE /\ log' = Append(log, [event |-> n, state |-> "lost"])
           /\ RequestResync(p)
           /\ UNCHANGED relay
  <2>1. RelayInv'
    BY <1>1, <1>4 DEF IInv, PipeInv, RelayInv
  <2> QED
    BY <1>1, <1>2, <1>4, <2>1, LostKept
<1> QED
  BY <1>3, <1>4 DEF Publish

LEMMA RelayTakeKept == ASSUME IInv, NEW p \in Procs, RelayTake(p) PROVE IInv'
<1> USE StreamAssumption
<1>1. /\ row' = row /\ owing' = owing /\ log' = log /\ UNCHANGED <<conn, clientVars>>
      /\ wire' = wire /\ alarm' = alarm
  BY DEF RelayTake, writeVars, brokerVars
<1>2. /\ relay[p] \in Seq(Events) /\ relay[p] # <<>> /\ RelayInv /\ CurInv
      /\ cur[p] = NoEvent
      /\ relay' = [relay EXCEPT ![p] = Tail(@)]
      /\ cur' = [cur EXCEPT ![p] = [event |-> Head(relay[p]), id |-> 0]]
  BY DEF IInv, PipeInv, RelayInv, RelayTake
<1>3. /\ Head(relay[p]) \in Events /\ Head(relay[p]) = relay[p][1] /\ 1 \in 1..Len(relay[p])
      /\ Tail(relay[p]) \in Seq(Events) /\ Len(Tail(relay[p])) = Len(relay[p]) - 1
      /\ Len(relay[p]) \in Nat
      /\ \A k \in 1..Len(Tail(relay[p])) : k + 1 \in 1..Len(relay[p]) /\ Tail(relay[p])[k] = relay[p][k + 1]
  BY <1>2
<1>4. RelayInv'
  <2>1. relay' \in [Procs -> Seq(Events)]
    BY <1>2, <1>3 DEF RelayInv
  <2>2. ASSUME NEW q \in Procs
        PROVE  Len(relay'[q]) <= RelayMax /\ \A k \in 1..Len(relay'[q]) : relay'[q][k] <= row'
    <3>1. Len(relay[q]) <= RelayMax /\ \A k \in 1..Len(relay[q]) : relay[q][k] <= row
      BY <1>2 DEF RelayInv
    <3>2. CASE q = p
      <4>1. relay'[q] = Tail(relay[p])
        BY <1>2, <3>2 DEF RelayInv
      <4>2. Len(Tail(relay[p])) <= RelayMax
        BY <1>3, <3>1, <3>2
      <4>3. \A k \in 1..Len(Tail(relay[p])) : Tail(relay[p])[k] <= row
        BY <1>3, <3>1, <3>2
      <4> QED
        BY <1>1, <4>1, <4>2, <4>3
    <3>3. CASE q # p
      <4>1. relay'[q] = relay[q]
        BY <1>2, <3>3 DEF RelayInv
      <4> QED
        BY <1>1, <3>1, <4>1
    <3> QED
      BY <3>2, <3>3
  <2> QED
    BY <2>1, <2>2 DEF RelayInv
<1>5. CurInv'
  <2>1. Head(relay[p]) <= row /\ Head(relay[p]) \in Nat
    BY <1>2, <1>3 DEF RelayInv, Events
  <2> QED
    BY <1>1, <1>2, <2>1, Lengths DEF CurInv, IInv
<1>6. \A i \in 1..Len(log) : \A q \in Procs : cur[q].id = i => cur'[q].id = i
  BY <1>2, Lengths DEF CurInv, NoEvent, IInv
<1>7. PipeInv'
  <2>1. LogInv'
    <3>1. LogInv
      BY DEF IInv, PipeInv
    <3>2. \A i \in 1..Len(log) : log[i].state = "open" => \E q \in Procs : cur'[q].id = i
      BY <1>6, <3>1 DEF LogInv
    <3> QED
      BY <1>1, <3>1, <3>2 DEF LogInv
  <2> QED
    BY <1>1, <1>4, <1>5, <2>1 DEF IInv, PipeInv, WritersInv, WireInv
<1>8. Grows
  BY <1>1, Lengths DEF Grows, IInv
<1>9. \A s \in Streams : \A i \in 1..Len(log') :
          Comes(s, i)' \/ (i \in 1..Len(log) /\ ~Comes(s, i)) \/ Relies(s)' = FALSE
  BY <1>1, <1>6 DEF Comes
<1> QED
  BY <1>1, <1>7, <1>8, <1>9, QuietKept DEF IInv

LEMMA RelayInsertKept == ASSUME IInv, NEW p \in Procs, RelayInsert(p) PROVE IInv'
<1> USE StreamAssumption
<1> DEFINE n == cur[p].event
<1>1. /\ row' = row /\ owing' = owing /\ relay' = relay /\ UNCHANGED <<conn, clientVars>>
      /\ wire' = wire /\ alarm' = alarm
  BY DEF RelayInsert, writeVars, brokerVars
<1>2. n \in Nat /\ n # 0 /\ n <= row /\ row <= NEvents /\ row \in Nat /\ n \in Events /\ CurInv
  BY DEF IInv, PipeInv, CurInv, WritersInv, RelayInsert, Events
<1>3. log' = Append(log, [event |-> n, state |-> "open"])
  BY DEF RelayInsert
<1> HIDE DEF n
<1>4. /\ log' \in Seq([event: Events, state: States])
      /\ Len(log) \in Nat /\ Len(log') = Len(log) + 1
      /\ \A i \in 1..Len(log) : log'[i] = log[i]
      /\ log'[Len(log) + 1] = [event |-> n, state |-> "open"]
      /\ \A i \in 1..Len(log') : i \in 1..Len(log) \/ i = Len(log) + 1
      /\ 1..Len(log) \subseteq 1..Len(log')
  BY <1>2, <1>3, LogAppended DEF IInv, States
<1>5. cur' = [cur EXCEPT ![p].id = Len(log) + 1] /\ cur[p].id = 0
  BY DEF RelayInsert
<1>6. cur'[p].id = Len(log) + 1 /\ \A i \in 1..Len(log) : \A q \in Procs : cur[q].id = i => cur'[q].id = i
  BY <1>2, <1>4, <1>5 DEF CurInv
<1>7. CurInv'
  <2>1. cur' \in [Procs -> [event: Nat, id: Nat]]
    BY <1>2, <1>4, <1>5 DEF CurInv
  <2>2. \A q \in Procs : cur'[q].event = cur[q].event /\ (cur'[q].id = cur[q].id \/ cur'[q].id = Len(log) + 1)
    BY <1>2, <1>5 DEF CurInv
  <2>3. \A q \in Procs : cur[q].id <= Len(log) /\ cur[q].id \in Nat /\ cur[q].event <= row
    BY <1>2 DEF CurInv
  <2>4. \A q \in Procs : cur'[q].id <= Len(log')
    BY <1>4, <2>2, <2>3
  <2> QED
    BY <1>1, <2>1, <2>2, <2>3, <2>4 DEF CurInv
<1>8. LogInv'
  <2>1. LogInv
    BY DEF IInv, PipeInv
  <2>2. ASSUME NEW i \in 1..Len(log')
        PROVE  log'[i].event <= row /\ (log'[i].state = "open" => \E q \in Procs : cur'[q].id = i)
    <3>1. CASE i = Len(log) + 1
      BY <1>2, <1>4, <1>6, <3>1
    <3>2. CASE i \in 1..Len(log)
      BY <1>4, <1>6, <2>1, <3>2 DEF LogInv
    <3> QED
      BY <1>4, <3>1, <3>2
  <2> QED
    BY <1>1, <1>4, <2>2 DEF LogInv
<1>9. WireInv'
  BY <1>1, <1>4 DEF IInv, PipeInv, WireInv
<1>10. PipeInv'
  BY <1>1, <1>7, <1>8, <1>9 DEF IInv, PipeInv, WritersInv, RelayInv
<1>11. Grows
  BY <1>1, <1>4, Lengths DEF Grows, IInv
<1>12. \A s \in Streams : \A i \in 1..Len(log') :
          Comes(s, i)' \/ (i \in 1..Len(log) /\ ~Comes(s, i)) \/ Relies(s)' = FALSE
  BY <1>1, <1>4, <1>6 DEF Comes
<1> QED
  BY <1>1, <1>10, <1>11, <1>12, QuietKept DEF IInv

LEMMA RelayFailsKept == ASSUME IInv, NEW p \in Procs, RelayFails(p) PROVE IInv'
<1> DEFINE n == cur[p].event
<1>1. n \in Events /\ n <= row
  BY StreamAssumption DEF IInv, PipeInv, CurInv, WritersInv, RelayFails, Events
<1>2. /\ log' = Append(log, [event |-> n, state |-> "lost"])
      /\ cur[p].id = 0 /\ cur' = [cur EXCEPT ![p] = NoEvent] /\ RequestResync(p)
      /\ UNCHANGED <<row, wire, clientVars>> /\ UNCHANGED <<owing, relay>>
  BY DEF RelayFails, writeVars
<1> HIDE DEF n
<1>3. WritersInv' /\ RelayInv'
  BY <1>2 DEF IInv, PipeInv, WritersInv, RelayInv
<1> QED
  BY <1>1, <1>2, <1>3, LostKept

LEMMA RelayCommitKept == ASSUME IInv, NEW p \in Procs, RelayCommit(p) PROVE IInv'
<1>1. /\ row' = row /\ owing' = owing /\ relay' = relay /\ cur' = cur /\ UNCHANGED <<conn, clientVars>>
      /\ wire' = wire /\ alarm' = alarm
  BY DEF RelayCommit, writeVars, brokerVars
<1>2. PICK state \in {"in", "out"} : log' = [log EXCEPT ![cur[p].id].state = state]
  BY DEF RelayCommit
<1>3. /\ log \in Seq([event: Events, state: States])
      /\ cur[p].id \in 1..Len(log) /\ Len(log) \in Nat /\ LogInv
  BY Lengths DEF IInv, PipeInv, CurInv, LogInv, RelayCommit
<1>4. /\ log' \in Seq([event: Events, state: States]) /\ Len(log') = Len(log)
      /\ \A i \in 1..Len(log) : log'[i].event = log[i].event /\ log'[i].state \in {log[i].state, "in", "out"}
  <2> DEFINE j == cur[p].id
             S == [event: Events, state: States]
  <2>1. j \in 1..Len(log) /\ log' = [log EXCEPT ![j] = [log[j] EXCEPT !.state = state]]
    BY <1>2, <1>3
  <2>2. log \in Seq(S) /\ log[j] \in S
    <3>1. ASSUME NEW T, NEW l \in Seq(T), NEW i \in 1..Len(l) PROVE l[i] \in T
      OBVIOUS
    <3> QED
      BY <1>3, <3>1
  <2>3. /\ [log[j] EXCEPT !.state = state] \in S
        /\ [log[j] EXCEPT !.state = state].event = log[j].event
        /\ [log[j] EXCEPT !.state = state].state = state
    BY <2>2 DEF States
  <2> HIDE DEF j, S
  <2>4. \A e \in S : [log EXCEPT ![j] = e] \in Seq(S) /\ Len([log EXCEPT ![j] = e]) = Len(log)
                     /\ \A i \in 1..Len(log) : [log EXCEPT ![j] = e][i] = IF i = j THEN e ELSE log[i]
    BY <2>1, <2>2
  <2> QED
    BY <2>1, <2>3, <2>4 DEF S
<1>5. LogInv'
  <2>1. ASSUME NEW i \in 1..Len(log)
        PROVE  log'[i].event <= row /\ (log'[i].state = "open" => \E q \in Procs : cur[q].id = i)
    <3>1. log[i].event <= row /\ (log[i].state = "open" => \E q \in Procs : cur[q].id = i)
      BY <1>3 DEF LogInv
    <3> QED
      BY <1>4, <3>1
  <2> QED
    BY <1>1, <1>4, <2>1 DEF LogInv
<1>6. PipeInv'
  BY <1>1, <1>4, <1>5 DEF IInv, PipeInv, WritersInv, RelayInv, CurInv, WireInv
<1>7. Grows
  BY <1>1, <1>4, Lengths DEF Grows, IInv
<1>8. \A s \in Streams : \A i \in 1..Len(log') :
          Comes(s, i)' \/ (i \in 1..Len(log) /\ ~Comes(s, i)) \/ Relies(s)' = FALSE
  BY <1>1, <1>4 DEF Comes
<1> QED
  BY <1>1, <1>6, <1>7, <1>8, QuietKept DEF IInv

-----------------------------------------------------------------------------
(* Local delivery.                                                         *)

\* What a frame that is delivered in a process does to a stream.
LEMMA Published ==
    ASSUME PipeInv, ClientInv, NEW p \in Procs, NEW id \in 1..Len(log), PublishEvent(p, id), NEW s \in Streams
    PROVE  /\ conn'[s] \in Conn \cup {Closed} /\ Len(conn'[s].q) <= QMax
           /\ SameBut(conn[s], conn'[s]) /\ conn'[s].flag = conn[s].flag
           /\ \A f \in ToSet(conn'[s].q) : f.kind = "frame" => f.id \in 1..Len(log)
           /\ missed'[s] \in SUBSET Reasons
           /\ missed'[s] = {} =>
                  /\ missed[s] = {}
                  /\ ToSet(conn[s].q) \subseteq ToSet(conn'[s].q)
                  /\ Open(s) /\ conn[s].at = p => Frame(id) \in ToSet(conn'[s].q)
<1> DEFINE c == conn[s]
<1>1. /\ c \in Conn \cup {Closed} /\ Len(c.q) <= QMax /\ missed[s] \in SUBSET Reasons
      /\ \A f \in ToSet(c.q) : f.kind = "frame" => f.id \in 1..Len(log)
  BY DEF ClientInv, StreamInv, ConnInv
<1>2. /\ conn'[s] = IF Open(s) /\ c.at = p THEN [c EXCEPT !.q = Put(@, id)] ELSE c
      /\ missed'[s] = IF Open(s) /\ c.at = p /\ Len(c.q) = QMax
                      THEN missed[s] \cup {"overflow"} ELSE missed[s]
  BY DEF PublishEvent
<1>3. CASE Open(s) /\ c.at = p
  <2>1. c \in Conn /\ c.q \in Seq(Item) /\ id \in Nat
    BY <1>1, <1>3, Connections DEF Open
  <2> DEFINE q == Put(c.q, id)
  <2>2. /\ q \in Seq(Item) /\ Len(q) <= QMax
        /\ ToSet(q) \subseteq ToSet(c.q) \cup {Frame(id), Overflow}
        /\ Len(c.q) # QMax => ToSet(q) = ToSet(c.q) \cup {Frame(id)}
    BY <1>1, <2>1, PutIs
  <2>3. conn'[s] = [c EXCEPT !.q = q]
    BY <1>2, <1>3
  <2> HIDE DEF q
  <2>4. conn'[s] \in Conn /\ conn'[s].q = q /\ conn'[s].flag = c.flag /\ SameBut(c, conn'[s])
    BY <2>1, <2>2, <2>3, Requeued
  <2>5. \A f \in ToSet(q) : f.kind = "frame" => f.id \in 1..Len(log)
    BY <1>1, <2>1, <2>2, Items
  <2>6. missed'[s] \in SUBSET Reasons /\ (missed'[s] = {} => missed[s] = {} /\ Len(c.q) # QMax)
    BY <1>1, <1>2, <1>3 DEF Reasons
  <2> QED
    BY <2>2, <2>4, <2>5, <2>6
<1>4. CASE ~(Open(s) /\ c.at = p)
  BY <1>1, <1>2, <1>4 DEF SameBut
<1> QED
  BY <1>3, <1>4

LEMMA PublishedMaps ==
    ASSUME PipeInv, ClientInv, NEW p \in Procs, NEW id \in 1..Len(log), PublishEvent(p, id)
    PROVE  conn' \in [Streams -> Conn \cup {Closed}] /\ missed' \in [Streams -> SUBSET Reasons]
<1>1. \A s \in Streams : conn'[s] \in Conn \cup {Closed} /\ missed'[s] \in SUBSET Reasons
  BY Published
<1>2. conn' = [s \in Streams |-> conn'[s]] /\ missed' = [s \in Streams |-> missed'[s]]
  BY DEF PublishEvent
<1> QED
  BY <1>1, <1>2

LEMMA RelayFansKept == ASSUME IInv, NEW p \in Procs, RelayFans(p) PROVE IInv'
<1> DEFINE id == cur[p].id
<1>1. /\ row' = row /\ owing' = owing /\ relay' = relay /\ log' = log /\ alarm' = alarm
      /\ known' = known /\ last' = last
      /\ id # 0 /\ log[id].state # "open" /\ PublishEvent(p, id)
      /\ wire' = [wire EXCEPT ![p] = [q \in Procs |-> IF q = p THEN @[q] ELSE Append(@[q], id)]]
      /\ cur' = [cur EXCEPT ![p] = NoEvent]
  BY DEF RelayFans, writeVars
<1>2. id \in 1..Len(log) /\ id \in Nat /\ Len(log) \in Nat /\ row \in Nat
  BY <1>1, Lengths DEF IInv, PipeInv, CurInv
<1> HIDE DEF id
<1>3. CurInv' /\ \A q \in Procs : q # p => cur'[q] = cur[q]
  BY <1>1, <1>2 DEF IInv, PipeInv, CurInv, NoEvent
<1>4. LogInv'
  <2>1. LogInv /\ CurInv
    BY DEF IInv, PipeInv
  <2>2. ASSUME NEW i \in 1..Len(log), log[i].state = "open" PROVE \E q \in Procs : cur'[q].id = i
    <3>1. PICK q \in Procs : cur[q].id = i
      BY <2>1, <2>2 DEF LogInv
    <3>2. q # p
      BY <1>1, <2>2, <3>1 DEF id
    <3> QED
      BY <1>3, <3>1, <3>2
  <2> QED
    BY <1>1, <2>1, <2>2 DEF LogInv
<1>5. \A q, r \in Procs :
          /\ wire'[q][r] \in Seq(Nat)
          /\ ToSet(wire'[q][r]) = IF q = p /\ r # p THEN ToSet(wire[q][r]) \cup {id} ELSE ToSet(wire[q][r])
  <2>1. WireInv
    BY DEF IInv, PipeInv
  <2>2. ASSUME NEW q \in Procs, NEW r \in Procs
        PROVE  wire'[q][r] = IF q = p /\ r # p THEN Append(wire[q][r], id) ELSE wire[q][r]
    BY <1>1, <2>1 DEF WireInv
  <2>3. ASSUME NEW q \in Procs, NEW r \in Procs
        PROVE  /\ Append(wire[q][r], id) \in Seq(Nat) /\ wire[q][r] \in Seq(Nat)
               /\ ToSet(Append(wire[q][r], id)) = ToSet(wire[q][r]) \cup {id}
    <3>1. wire[q][r] \in Seq(Nat)
      BY <2>1 DEF WireInv
    <3> QED
      BY <1>2, <3>1, Appended
  <2> QED
    BY <2>2, <2>3
<1>6. WireInv'
  <2>1. WireInv
    BY DEF IInv, PipeInv
  <2>2. wire' \in [Procs -> [Procs -> Seq(Nat)]]
    <3>1. \A q \in Procs : wire'[q] = [r \in Procs |-> wire'[q][r]]
      BY <1>1, <2>1 DEF WireInv
    <3>2. \A q \in Procs : wire'[q] \in [Procs -> Seq(Nat)]
      BY <1>5, <3>1
    <3>3. wire' = [q \in Procs |-> wire'[q]]
      BY <1>1, <2>1 DEF WireInv
    <3> QED
      BY <3>2, <3>3
  <2>3. ASSUME NEW q \in Procs, NEW r \in Procs PROVE ToSet(wire'[q][r]) \subseteq 1..Len(log)
    <3>1. ToSet(wire[q][r]) \subseteq 1..Len(log)
      BY <2>1 DEF WireInv
    <3>2. ToSet(wire'[q][r]) \subseteq ToSet(wire[q][r]) \cup {id}
      BY <1>5
    <3> QED
      BY <1>2, <3>1, <3>2
  <2> QED
    BY <1>1, <2>1, <2>2, <2>3 DEF WireInv
<1>7. PipeInv'
  BY <1>1, <1>3, <1>4, <1>6 DEF IInv, PipeInv, WritersInv, RelayInv
<1>8. Grows
  BY <1>1, <1>2 DEF Grows
<1>9. ASSUME NEW s \in Streams PROVE StreamInv(s)'
  <2>1. /\ conn'[s] \in Conn \cup {Closed} /\ Len(conn'[s].q) <= QMax
        /\ SameBut(conn[s], conn'[s]) /\ conn'[s].flag = conn[s].flag
        /\ \A f \in ToSet(conn'[s].q) : f.kind = "frame" => f.id \in 1..Len(log)
        /\ missed'[s] = {} =>
               /\ missed[s] = {}
               /\ ToSet(conn[s].q) \subseteq ToSet(conn'[s].q)
               /\ Open(s) /\ conn[s].at = p => Frame(id) \in ToSet(conn'[s].q)
    BY <1>1, <1>2, Published DEF IInv
  <2>2. ConnInv(s)'
    BY <1>1, <2>1 DEF ConnInv
  <2>3. Relies(s)' => Relies(s) /\ conn[s].at \in Procs /\ Open(s)
    <3>1. Relies(s)' => Relies(s)
      BY <1>1, <2>1 DEF Relies, SameBut
    <3>2. Relies(s) => Open(s) /\ conn[s] \in Conn \cup {Closed}
      BY DEF IInv, ClientInv, Relies, Open
    <3> QED
      BY <3>1, <3>2, Connections DEF Open
  <2>4. ASSUME NEW i \in 1..Len(log), missed'[s] = {}, Relies(s)', Comes(s, i) PROVE Comes(s, i)'
    <3>1. conn'[s].at = conn[s].at
      BY <2>1 DEF SameBut
    <3>2. CASE i = id
      <4>1. CASE conn[s].at = p
        BY <2>1, <2>3, <2>4, <3>2, <4>1 DEF Comes
      <4>2. CASE conn[s].at # p
        <5>1. i \in ToSet(wire'[p][conn[s].at])
          BY <1>5, <2>3, <2>4, <3>2, <4>2
        <5> QED
          BY <2>3, <2>4, <3>1, <5>1 DEF Comes
      <4> QED
        BY <4>1, <4>2
    <3>3. CASE i # id
      <4>1. CASE \E q \in Procs : cur[q].id = i
        <5>1. PICK q \in Procs : cur[q].id = i
          BY <4>1
        <5>2. q # p
          BY <3>3, <5>1 DEF id
        <5> QED
          BY <1>3, <5>1, <5>2 DEF Comes
      <4>2. CASE \E q \in Procs : conn[s].at \in Procs /\ i \in ToSet(wire[q][conn[s].at])
        BY <1>5, <3>1, <4>2 DEF Comes
      <4>3. CASE Frame(i) \in ToSet(conn[s].q)
        BY <2>1, <2>4, <4>3 DEF Comes
      <4> QED
        BY <2>4, <4>1, <4>2, <4>3 DEF Comes
    <3> QED
      BY <3>2, <3>3
  <2>5. \A i \in 1..Len(log') : missed'[s] = {} /\ Relies(s)' =>
            \/ Comes(s, i)'
            \/ i \in 1..Len(log) /\ (Comes(s, i) => log[i].event \in known[s])
    BY <1>1, <2>4
  <2>6. PipeInv /\ StreamInv(s)
    BY DEF IInv, ClientInv
  <2>7. known'[s] = known[s] /\ last'[s] = last[s] /\ (missed'[s] = {} => missed[s] = {})
    BY <1>1, <2>1
  <2> QED
    BY <1>7, <1>8, <2>1, <2>2, <2>3, <2>5, <2>6, <2>7, StreamKept
<1>10. conn' \in [Streams -> Conn \cup {Closed}] /\ missed' \in [Streams -> SUBSET Reasons]
  BY <1>1, <1>2, PublishedMaps DEF IInv
<1> QED
  BY <1>1, <1>7, <1>9, <1>10 DEF IInv, ClientInv

-----------------------------------------------------------------------------
(* The broker.                                                             *)

\* The broker takes the first frame off the way from p to q.
LEMMA TakenOff ==
    ASSUME PipeInv, NEW p \in Procs, NEW q \in Procs, wire[p][q] # <<>>,
           wire' = [wire EXCEPT ![p][q] = Tail(@)], alarm' \subseteq alarm,
           UNCHANGED <<writeVars, relayVars>>
    PROVE  /\ PipeInv' /\ Grows /\ log' = log /\ cur' = cur
           /\ Head(wire[p][q]) \in 1..Len(log) /\ Len(log) \in Nat
           /\ \A r, t \in Procs : \A i \in ToSet(wire[r][t]) :
                 i \in ToSet(wire'[r][t]) \/ (t = q /\ i = Head(wire[p][q]))
<1>1. WireInv /\ wire[p][q] \in Seq(Nat) /\ Len(log) \in Nat /\ row \in Nat
  BY Lengths DEF PipeInv, WireInv
<1>2. /\ Head(wire[p][q]) \in ToSet(wire[p][q])
      /\ Tail(wire[p][q]) \in Seq(Nat)
      /\ ToSet(Tail(wire[p][q])) \subseteq ToSet(wire[p][q])
      /\ \A x \in ToSet(wire[p][q]) : x = Head(wire[p][q]) \/ x \in ToSet(Tail(wire[p][q]))
  BY <1>1, TailHas
<1>3. wire' \in [Procs -> [Procs -> Seq(Nat)]]
  BY <1>1, <1>2 DEF WireInv
<1>4. \A r, t \in Procs : wire'[r][t] = IF r = p /\ t = q THEN Tail(wire[p][q]) ELSE wire[r][t]
  BY <1>1 DEF WireInv
<1>5. \A r, t \in Procs : ToSet(wire'[r][t]) \subseteq 1..Len(log)
  BY <1>1, <1>2, <1>4 DEF WireInv
<1>6. row' = row /\ owing' = owing /\ relay' = relay /\ cur' = cur /\ log' = log
  BY DEF writeVars, relayVars
<1>7. PipeInv'
  BY <1>1, <1>3, <1>5, <1>6 DEF PipeInv, WireInv, WritersInv, RelayInv, CurInv, LogInv
<1>8. Grows
  BY <1>1, <1>6 DEF Grows
<1>9. \A r, t \in Procs : \A i \in ToSet(wire[r][t]) :
          i \in ToSet(wire'[r][t]) \/ (t = q /\ i = Head(wire[p][q]))
  BY <1>2, <1>4
<1> QED
  BY <1>1, <1>2, <1>6, <1>7, <1>8, <1>9 DEF WireInv

LEMMA BrokerFrameKept ==
    ASSUME IInv, NEW p \in Procs, NEW q \in Procs, BrokerFrame(p, q)
    PROVE  IInv'
<1> DEFINE id == Head(wire[p][q])
<1>1. /\ wire[p][q] # <<>> /\ wire' = [wire EXCEPT ![p][q] = Tail(@)]
      /\ PublishEvent(q, id) /\ UNCHANGED <<writeVars, relayVars>>
      /\ alarm' = alarm /\ known' = known /\ last' = last
  BY DEF BrokerFrame
<1>2. /\ PipeInv' /\ Grows /\ log' = log /\ cur' = cur
      /\ id \in 1..Len(log) /\ Len(log) \in Nat
      /\ \A r, t \in Procs : \A i \in ToSet(wire[r][t]) :
            i \in ToSet(wire'[r][t]) \/ (t = q /\ i = id)
  BY <1>1, TakenOff DEF IInv
<1> HIDE DEF id
<1>3. ASSUME NEW s \in Streams PROVE StreamInv(s)'
  <2>1. /\ conn'[s] \in Conn \cup {Closed} /\ Len(conn'[s].q) <= QMax
        /\ SameBut(conn[s], conn'[s]) /\ conn'[s].flag = conn[s].flag
        /\ \A f \in ToSet(conn'[s].q) : f.kind = "frame" => f.id \in 1..Len(log)
        /\ missed'[s] = {} =>
               /\ missed[s] = {}
               /\ ToSet(conn[s].q) \subseteq ToSet(conn'[s].q)
               /\ Open(s) /\ conn[s].at = q => Frame(id) \in ToSet(conn'[s].q)
    BY <1>1, <1>2, Published DEF IInv
  <2>2. ConnInv(s)'
    BY <1>2, <2>1 DEF ConnInv
  <2>3. Relies(s)' => Relies(s) /\ Open(s)
    BY <1>1, <2>1 DEF Relies, SameBut, Open
  <2>4. ASSUME NEW i \in 1..Len(log), missed'[s] = {}, Relies(s)', Comes(s, i) PROVE Comes(s, i)'
    <3>1. conn'[s].at = conn[s].at
      BY <2>1 DEF SameBut
    <3>2. CASE \E r \in Procs : cur[r].id = i
      BY <1>2, <3>2 DEF Comes
    <3>3. CASE \E r \in Procs : conn[s].at \in Procs /\ i \in ToSet(wire[r][conn[s].at])
      <4>1. PICK r \in Procs : conn[s].at \in Procs /\ i \in ToSet(wire[r][conn[s].at])
        BY <3>3
      <4>2. i \in ToSet(wire'[r][conn[s].at]) \/ (conn[s].at = q /\ i = id)
        BY <1>2, <4>1
      <4> QED
        BY <2>1, <2>3, <2>4, <3>1, <4>1, <4>2 DEF Comes
    <3>4. CASE Frame(i) \in ToSet(conn[s].q)
      BY <2>1, <2>4, <3>4 DEF Comes
    <3> QED
      BY <2>4, <3>2, <3>3, <3>4 DEF Comes
  <2>5. \A i \in 1..Len(log') : missed'[s] = {} /\ Relies(s)' =>
            \/ Comes(s, i)'
            \/ i \in 1..Len(log) /\ (Comes(s, i) => log[i].event \in known[s])
    BY <1>2, <2>4
  <2>6. PipeInv /\ StreamInv(s)
    BY DEF IInv, ClientInv
  <2>7. known'[s] = known[s] /\ last'[s] = last[s] /\ (missed'[s] = {} => missed[s] = {})
    BY <1>1, <2>1
  <2> QED
    BY <1>2, <2>1, <2>2, <2>3, <2>5, <2>6, <2>7, StreamKept
<1>4. conn' \in [Streams -> Conn \cup {Closed}] /\ missed' \in [Streams -> SUBSET Reasons]
  BY <1>1, <1>2, PublishedMaps DEF IInv
<1> QED
  BY <1>1, <1>2, <1>3, <1>4 DEF IInv, ClientInv

\* A frame that is lost passes over the open streams of the process, and a resync too.
LEMMA PassedOver ==
    ASSUME PipeInv, PipeInv', Grows, ClientInv, NEW q \in Procs,
           log' = log, cur' = cur, conn' = conn, known' = known, last' = last, alarm' \subseteq alarm,
           \A t \in Procs : t \in alarm => t \in alarm' \/ t = q,
           missed' = [s \in Streams |->
               IF Open(s) /\ conn[s].at = q THEN missed[s] \cup {"broker"} ELSE missed[s]],
           \A r, t \in Procs : \A i \in ToSet(wire[r][t]) : i \in ToSet(wire'[r][t]) \/ t = q
    PROVE  ClientInv'
<1>1. ASSUME NEW s \in Streams PROVE StreamInv(s)' /\ missed'[s] \in SUBSET Reasons
  <2>1. StreamInv(s) /\ ConnInv(s) /\ missed[s] \in SUBSET Reasons
    BY DEF ClientInv, StreamInv
  <2>2. ConnInv(s)'
    BY <2>1 DEF ConnInv
  <2>3. missed'[s] = IF Open(s) /\ conn[s].at = q THEN missed[s] \cup {"broker"} ELSE missed[s]
    OBVIOUS
  <2>4. missed'[s] \in SUBSET Reasons /\ (missed'[s] = {} => missed[s] = {} /\ ~(Open(s) /\ conn[s].at = q))
    BY <2>1, <2>3 DEF Reasons
  <2>5. Relies(s) => Open(s) /\ conn[s].at \in Procs
    BY <2>1, Connections DEF Relies, Open, ConnInv
  <2>6. missed'[s] = {} /\ Relies(s)' => Relies(s)
    <3>1. Relies(s)' => Open(s) /\ conn[s].at \in Procs
      BY <2>1, Connections DEF Relies, Open, ConnInv
    <3> QED
      BY <2>4, <3>1 DEF Relies
  <2>7. ASSUME NEW i \in 1..Len(log), missed'[s] = {}, Relies(s)', Comes(s, i) PROVE Comes(s, i)'
    BY <2>4, <2>5, <2>6, <2>7 DEF Comes
  <2>8. \A i \in 1..Len(log') : missed'[s] = {} /\ Relies(s)' =>
            \/ Comes(s, i)'
            \/ i \in 1..Len(log) /\ (Comes(s, i) => log[i].event \in known[s])
    BY <2>7
  <2>9. SameBut(conn[s], conn'[s]) /\ known'[s] = known[s] /\ last'[s] = last[s]
    BY DEF SameBut
  <2>10. missed'[s] = {} => missed[s] = {}
    BY <2>4
  <2> QED
    BY <2>1, <2>2, <2>4, <2>6, <2>8, <2>9, <2>10, StreamKept
<1>2. missed' \in [Streams -> SUBSET Reasons]
  BY <1>1
<1> QED
  BY <1>1, <1>2 DEF ClientInv

LEMMA BrokerLosesKept == ASSUME IInv, NEW q \in Procs, BrokerLoses(q) PROVE IInv'
<1>1. /\ UNCHANGED <<writeVars, relayVars>> /\ conn' = conn /\ known' = known /\ last' = last
      /\ missed' = [s \in Streams |->
             IF Open(s) /\ conn[s].at = q THEN missed[s] \cup {"broker"} ELSE missed[s]]
      /\ log' = log /\ cur' = cur /\ row' = row /\ owing' = owing /\ relay' = relay
  BY DEF BrokerLoses, writeVars, relayVars
<1>2. CASE (\E p \in Procs : wire[p][q] # <<>> /\ wire' = [wire EXCEPT ![p][q] = Tail(@)]) /\ UNCHANGED alarm
  <2>1. PICK p \in Procs : wire[p][q] # <<>> /\ wire' = [wire EXCEPT ![p][q] = Tail(@)]
    BY <1>2
  <2>2. /\ PipeInv' /\ Grows
        /\ \A r, t \in Procs : \A i \in ToSet(wire[r][t]) :
              i \in ToSet(wire'[r][t]) \/ (t = q /\ i = Head(wire[p][q]))
    BY <1>1, <1>2, <2>1, TakenOff DEF IInv
  <2>3. \A r, t \in Procs : \A i \in ToSet(wire[r][t]) : i \in ToSet(wire'[r][t]) \/ t = q
    BY <2>2
  <2> QED
    BY <1>1, <1>2, <2>2, <2>3, PassedOver DEF IInv
<1>3. CASE q \in alarm /\ alarm' = alarm \ {q} /\ UNCHANGED wire
  <2>1. PipeInv'
    BY <1>1, <1>3 DEF IInv, PipeInv, WritersInv, RelayInv, CurInv, LogInv, WireInv
  <2>2. Grows
    BY <1>1, Lengths DEF Grows, IInv
  <2> QED
    BY <1>1, <1>3, <2>1, <2>2, PassedOver DEF IInv
<1> QED
  BY <1>2, <1>3 DEF BrokerLoses

LEMMA BrokerResyncKept == ASSUME IInv, NEW q \in Procs, BrokerResync(q) PROVE IInv'
<1> USE StreamAssumption
<1>1. /\ log' = log /\ cur' = cur /\ row' = row /\ owing' = owing /\ relay' = relay /\ wire' = wire
      /\ alarm' = alarm \ {q} /\ ResyncLocal(q) /\ known' = known /\ last' = last /\ missed' = missed
  BY DEF BrokerResync, writeVars, relayVars, clientVars
<1>2. PipeInv'
  BY <1>1 DEF IInv, PipeInv, WritersInv, RelayInv, CurInv, LogInv, WireInv
<1>3. Grows
  BY <1>1, Lengths DEF Grows, IInv
<1>4. ASSUME NEW s \in Streams PROVE StreamInv(s)' /\ conn'[s] \in Conn \cup {Closed}
  <2> DEFINE c == conn[s]
             w == IF Len(c.q) < QMax THEN Append(c.q, Resync) ELSE c.q
  <2>1. StreamInv(s) /\ ConnInv(s) /\ c \in Conn \cup {Closed} /\ Len(c.q) <= QMax
    BY DEF IInv, ClientInv, StreamInv, ConnInv
  <2>2. conn'[s] = IF Open(s) /\ c.at = q THEN [c EXCEPT !.flag = TRUE, !.q = w] ELSE c
    BY <1>1 DEF ResyncLocal
  <2>3. CASE Open(s) /\ c.at = q
    <3>1. c \in Conn /\ c.q \in Seq(Item)
      BY <2>1, <2>3, Connections DEF Open
    <3>2. w \in Seq(Item) /\ Len(w) <= QMax /\ ToSet(w) \subseteq ToSet(c.q) \cup {Resync}
      BY <2>1, <3>1, WakeIs
    <3> HIDE DEF w
    <3>3. conn'[s] \in Conn /\ conn'[s].q = w /\ conn'[s].flag = TRUE /\ SameBut(c, conn'[s])
      <4>1. conn'[s] = [c EXCEPT !.flag = TRUE, !.q = w]
        BY <2>2, <2>3
      <4> QED
        BY <3>1, <3>2, <4>1, Flagged
    <3>4. \A f \in ToSet(w) : f.kind = "frame" => f.id \in 1..Len(log')
      BY <1>1, <2>1, <3>2, Items DEF ConnInv
    <3>5. ConnInv(s)'
      BY <3>2, <3>3, <3>4 DEF ConnInv
    <3>6. ~Relies(s)'
      BY <3>3 DEF Relies
    <3>7. PipeInv /\ known'[s] = known[s] /\ last'[s] = last[s] /\ missed'[s] = missed[s]
      BY <1>1 DEF IInv
    <3> QED
      BY <1>2, <1>3, <2>1, <3>3, <3>5, <3>6, <3>7, StreamKept
  <2>4. CASE ~(Open(s) /\ c.at = q)
    <3>1. conn'[s] = c
      BY <2>2, <2>4
    <3>2. ConnInv(s)'
      BY <1>1, <2>1, <3>1 DEF ConnInv
    <3>3. Relies(s)' => Relies(s)
      <4>1. Relies(s)' => Open(s)
        BY <3>1 DEF Relies, Open
      <4> QED
        BY <1>1, <2>4, <3>1, <4>1 DEF Relies
    <3>4. PipeInv /\ known'[s] = known[s] /\ last'[s] = last[s] /\ missed'[s] = missed[s]
          /\ SameBut(c, conn'[s])
      BY <1>1, <3>1 DEF IInv, SameBut
    <3>5. \A i \in 1..Len(log') : Comes(s, i)' \/ (i \in 1..Len(log) /\ ~Comes(s, i))
      BY <1>1, <3>1 DEF Comes
    <3> QED
      BY <1>2, <1>3, <2>1, <3>1, <3>2, <3>3, <3>4, <3>5, StreamKept
  <2> QED
    BY <2>3, <2>4
<1>5. conn' \in [Streams -> Conn \cup {Closed}]
  <2>1. conn' = [s \in Streams |-> conn'[s]]
    BY <1>1 DEF ResyncLocal
  <2> QED
    BY <1>4, <2>1
<1> QED
  BY <1>1, <1>2, <1>4, <1>5 DEF IInv, ClientInv

-----------------------------------------------------------------------------
(* The streams.                                                            *)

\* A step of one stream leaves the pipeline, and the other streams.
LEMMA OnlyKept ==
    ASSUME IInv, NEW s \in Streams, UNCHANGED <<writeVars, relayVars, brokerVars>>,
           NEW c \in Conn \cup {Closed}, conn' = [conn EXCEPT ![s] = c],
           NEW k \in SUBSET Events, known' = [known EXCEPT ![s] = k],
           NEW l \in Nat, last' = [last EXCEPT ![s] = l],
           NEW m \in SUBSET Reasons, missed' = [missed EXCEPT ![s] = m],
           StreamInv(s)'
    PROVE  IInv'
<1>1. /\ log' = log /\ cur' = cur /\ row' = row /\ owing' = owing /\ relay' = relay
      /\ wire' = wire /\ alarm' = alarm
  BY DEF writeVars, relayVars, brokerVars
<1>2. PipeInv'
  BY <1>1 DEF IInv, PipeInv, WritersInv, RelayInv, CurInv, LogInv, WireInv
<1>3. /\ conn' \in [Streams -> Conn \cup {Closed}] /\ known' \in [Streams -> SUBSET Events]
      /\ last' \in [Streams -> Nat] /\ missed' \in [Streams -> SUBSET Reasons]
  BY DEF IInv, ClientInv
<1>4. ASSUME NEW t \in Streams, t # s PROVE StreamInv(t)'
  <2>1. conn'[t] = conn[t] /\ known'[t] = known[t] /\ last'[t] = last[t] /\ missed'[t] = missed[t]
    BY <1>4 DEF IInv, ClientInv
  <2>2. StreamInv(t)
    BY DEF IInv, ClientInv
  <2> QED
    BY <1>1, <2>1, <2>2 DEF StreamInv, ConnInv, CursorInv, FlowInv, Relies, WillTell, Comes,
                            UpTo, EventsOf
<1> QED
  BY <1>2, <1>3, <1>4 DEF IInv, ClientInv

\* What the invariant says of one stream.
LEMMA StreamHas ==
    ASSUME IInv, NEW s \in Streams
    PROVE  /\ conn[s] \in Conn \cup {Closed} /\ known[s] \in SUBSET Events /\ last[s] \in Nat
           /\ missed[s] \in SUBSET Reasons /\ StreamInv(s) /\ ConnInv(s) /\ CursorInv(s)
           /\ Len(log) \in Nat /\ row \in Nat
           /\ conn \in [Streams -> Conn \cup {Closed}] /\ known = [known EXCEPT ![s] = known[s]]
           /\ last = [last EXCEPT ![s] = last[s]] /\ missed = [missed EXCEPT ![s] = missed[s]]
  BY Lengths DEF IInv, ClientInv, StreamInv

\* A connection that fits stream s, and one the client may rely on.
Fits(s, c) ==
    /\ Len(c.q) <= QMax
    /\ \A f \in ToSet(c.q) : f.kind = "frame" => f.id \in 1..Len(log)
    /\ c.pc \in {"opening", "row", "head"} => c.since \in {None, last[s]}
    /\ c.seen <= row /\ c.head <= Len(log) /\ c.water \in {0, last[s]}

Flows(s, c) ==
    c.pc \in {"row", "head", "live"} /\ ~c.flag /\ c.at \notin alarm =>
        \A i \in 1..Len(log) :
            \/ log[i].event \in known[s]
            \/ \E p \in Procs : cur[p].id = i
            \/ \E p \in Procs : c.at \in Procs /\ i \in ToSet(wire[p][c.at])
            \/ Frame(i) \in ToSet(c.q)
            \/ c.pc \in {"row", "head"} /\ log[i].event <= c.seen

\* A step that only changes the connection of a stream.
LEMMA ConnOnly ==
    ASSUME IInv, NEW s \in Streams, UNCHANGED <<writeVars, relayVars, brokerVars, clientVars>>,
           NEW c \in Conn \cup {Closed}, conn' = [conn EXCEPT ![s] = c],
           Fits(s, c), missed[s] = {} => Flows(s, c)
    PROVE  IInv'
<1>1. /\ log' = log /\ cur' = cur /\ row' = row /\ wire' = wire /\ alarm' = alarm
      /\ known' = known /\ last' = last /\ missed' = missed
  BY DEF writeVars, relayVars, brokerVars, clientVars
<1>2. /\ known[s] \in SUBSET Events /\ last[s] \in Nat /\ missed[s] \in SUBSET Reasons
      /\ known = [known EXCEPT ![s] = known[s]] /\ StreamInv(s) /\ CursorInv(s)
      /\ last = [last EXCEPT ![s] = last[s]] /\ missed = [missed EXCEPT ![s] = missed[s]]
      /\ conn'[s] = c
  BY StreamHas
<1>3. ConnInv(s)'
  BY <1>1, <1>2 DEF ConnInv, Fits
<1>4. CursorInv(s)'
  BY <1>1, <1>2 DEF CursorInv, Fits
<1>5. missed[s] = {} => FlowInv(s)'
  BY <1>1, <1>2 DEF FlowInv, Flows, Relies, WillTell, Comes
<1>6. missed[s] = {} => UpTo(last[s])' \subseteq known'[s]
  BY <1>1, <1>2 DEF StreamInv, UpTo, EventsOf
<1>7. StreamInv(s)'
  BY <1>1, <1>3, <1>4, <1>5, <1>6 DEF StreamInv
<1> QED
  BY <1>1, <1>2, <1>7, OnlyKept

LEMMA ConnectKept ==
    ASSUME IInv, NEW s \in Streams, NEW p \in Procs, NEW since \in {last[s], None}, Connect(s, p, since)
    PROVE  IInv'
<1> USE StreamAssumption
<1> DEFINE c == Opening(p, since)
<1>1. conn' = [conn EXCEPT ![s] = c] /\ UNCHANGED <<writeVars, relayVars, brokerVars, clientVars>>
  BY DEF Connect
<1>2. last[s] \in Nat /\ Len(log) \in Nat /\ row \in Nat
  BY StreamHas
<1>3. /\ c \in Conn /\ c.q = <<>> /\ c.pc = "opening" /\ c.since = since /\ c.seen = 0 /\ c.head = 0
      /\ c.water = 0
  BY <1>2 DEF Opening, Conn
<1>4. Len(c.q) <= QMax /\ ToSet(c.q) = {}
  BY <1>3 DEF ToSet
<1> HIDE DEF c
<1>5. Fits(s, c) /\ Flows(s, c)
  BY <1>2, <1>3, <1>4 DEF Fits, Flows
<1> QED
  BY <1>1, <1>3, <1>5, ConnOnly

LEMMA HangupKept == ASSUME IInv, NEW s \in Streams, Hangup(s) PROVE IInv'
<1>1. conn' = [conn EXCEPT ![s] = Closed] /\ UNCHANGED <<writeVars, relayVars, brokerVars, clientVars>>
  BY DEF Hangup
<1>2. last[s] \in Nat /\ Len(log) \in Nat /\ row \in Nat
  BY StreamHas
<1>3. Len(Closed.q) <= QMax /\ ToSet(Closed.q) = {}
  BY Connections, StreamAssumption DEF ToSet
<1>4. Fits(s, Closed) /\ Flows(s, Closed)
  BY <1>2, <1>3, Connections DEF Fits, Flows
<1> QED
  BY <1>1, <1>4, ConnOnly

LEMMA ReadRowKept == ASSUME IInv, NEW s \in Streams, ReadRow(s) PROVE IInv'
<1> DEFINE c == [conn[s] EXCEPT !.pc = "row", !.seen = row]
<1>1. /\ conn' = [conn EXCEPT ![s] = c] /\ conn[s].pc = "opening"
      /\ UNCHANGED <<writeVars, relayVars, brokerVars, clientVars>>
  BY StreamHas DEF ReadRow
<1>2. /\ conn[s] \in Conn /\ ConnInv(s) /\ CursorInv(s) /\ row \in Nat /\ Len(log) \in Nat
  BY <1>1, StreamHas, Connections
<1>3. /\ c \in Conn /\ c.q = conn[s].q /\ c.pc = "row" /\ c.since = conn[s].since /\ c.seen = row
      /\ c.head = conn[s].head /\ c.water = conn[s].water /\ c.at = conn[s].at
  BY <1>2 DEF Conn
<1>4. \A i \in 1..Len(log) : log[i].event <= row
  BY DEF IInv, PipeInv, LogInv
<1> HIDE DEF c
<1>5. Fits(s, c)
  BY <1>1, <1>2, <1>3 DEF Fits, ConnInv, CursorInv
<1>6. Flows(s, c)
  BY <1>3, <1>4 DEF Flows
<1> QED
  BY <1>1, <1>3, <1>5, <1>6, ConnOnly

LEMMA ReadHeadKept == ASSUME IInv, NEW s \in Streams, ReadHead(s) PROVE IInv'
<1>1. PICK i \in Rows \cup {0} : conn' = [conn EXCEPT ![s] = [conn[s] EXCEPT !.pc = "head", !.head = i]]
  BY StreamHas DEF ReadHead
<1> DEFINE c == [conn[s] EXCEPT !.pc = "head", !.head = i]
<1>2. /\ conn[s].pc = "row" /\ UNCHANGED <<writeVars, relayVars, brokerVars, clientVars>>
      /\ conn' = [conn EXCEPT ![s] = c]
  BY <1>1 DEF ReadHead
<1>3. conn[s] \in Conn /\ StreamInv(s) /\ ConnInv(s) /\ CursorInv(s) /\ row \in Nat /\ Len(log) \in Nat
  BY <1>2, StreamHas, Connections
<1>4. i \in 0..Len(log) /\ i \in Nat
  BY <1>3 DEF Rows, IInv, PipeInv, LogInv
<1>5. /\ c \in Conn /\ c.q = conn[s].q /\ c.pc = "head" /\ c.since = conn[s].since
      /\ c.seen = conn[s].seen /\ c.flag = conn[s].flag
      /\ c.head = i /\ c.water = conn[s].water /\ c.at = conn[s].at
  <2>1. conn[s] \in Conn /\ i \in Nat
    BY <1>3, <1>4
  <2> QED
    BY <2>1 DEF Conn
<1> HIDE DEF c
<1>6. Relies(s) /\ missed[s] = {} => \A j \in 1..Len(log) :
          log[j].event \in known[s] \/ Comes(s, j) \/ log[j].event <= conn[s].seen
  BY <1>3 DEF StreamInv, FlowInv, WillTell
<1>7. c.pc \in {"row", "head", "live"} /\ ~c.flag /\ c.at \notin alarm => Relies(s)
  BY <1>2, <1>5 DEF Relies
<1>8. Fits(s, c)
  BY <1>2, <1>3, <1>4, <1>5 DEF Fits, ConnInv, CursorInv
<1>9. missed[s] = {} => Flows(s, c)
  BY <1>5, <1>6, <1>7 DEF Flows, Comes
<1> QED
  BY <1>2, <1>5, <1>8, <1>9, ConnOnly

LEMMA ReadFailsKept == ASSUME IInv, NEW s \in Streams, ReadFails(s) PROVE IInv'
<1> DEFINE c == [conn[s] EXCEPT !.pc = "live", !.flag = TRUE, !.again = FALSE]
<1>1. conn[s].pc = "opening" /\ UNCHANGED <<writeVars, relayVars, brokerVars, clientVars>>
  BY DEF ReadFails
<1>2. conn[s] \in Conn /\ ConnInv(s) /\ CursorInv(s) /\ row \in Nat /\ Len(log) \in Nat
  BY <1>1, StreamHas, Connections
<1>3. CASE conn[s].again
  <2>1. conn' = [conn EXCEPT ![s] = c]
    BY <1>2, <1>3, StreamHas DEF ReadFails
  <2>2. /\ c \in Conn /\ c.q = conn[s].q /\ c.pc = "live" /\ c.flag = TRUE
        /\ c.seen = conn[s].seen
        /\ c.head = conn[s].head /\ c.water = conn[s].water
    BY <1>2 DEF Conn
  <2> HIDE DEF c
  <2>3. Fits(s, c) /\ Flows(s, c)
    BY <1>1, <1>2, <2>2 DEF Fits, Flows, ConnInv, CursorInv
  <2> QED
    BY <1>1, <2>1, <2>2, <2>3, ConnOnly
<1>4. CASE ~conn[s].again
  <2>1. Hangup(s)
    BY <1>1, <1>4, StreamHas DEF ReadFails, Hangup, Open
  <2> QED
    BY <2>1, HangupKept
<1> QED
  BY <1>3, <1>4

LEMMA StartResyncKept == ASSUME IInv, NEW s \in Streams, StartResync(s) PROVE IInv'
<1> DEFINE c == [conn[s] EXCEPT !.pc = "opening", !.flag = FALSE, !.again = TRUE, !.since = None]
<1>1. /\ conn[s].pc = "live" /\ UNCHANGED <<writeVars, relayVars, brokerVars, clientVars>>
      /\ conn' = [conn EXCEPT ![s] = c]
  BY StreamHas DEF StartResync
<1>2. conn[s] \in Conn /\ ConnInv(s) /\ CursorInv(s) /\ row \in Nat /\ Len(log) \in Nat
  BY <1>1, StreamHas, Connections
<1>3. /\ c \in Conn /\ c.q = conn[s].q /\ c.pc = "opening" /\ c.since = None
      /\ c.seen = conn[s].seen /\ c.head = conn[s].head /\ c.water = conn[s].water
  BY <1>2 DEF Conn
<1> HIDE DEF c
<1>4. Fits(s, c) /\ Flows(s, c)
  BY <1>1, <1>2, <1>3 DEF Fits, Flows, ConnInv, CursorInv
<1> QED
  BY <1>1, <1>3, <1>4, ConnOnly

\* A frame is dropped only when it is not new: then its event is known, it is not after the
\* resume point.
LEMMA DiscardKept == ASSUME IInv, NEW s \in Streams, Discard(s) PROVE IInv'
<1> DEFINE q == Tail(conn[s].q)
           c == [conn[s] EXCEPT !.q = q]
<1>1. /\ conn[s].pc = "live" /\ UNCHANGED <<writeVars, relayVars, brokerVars, clientVars>>
      /\ conn[s].q # <<>> /\ (conn[s].flag \/ (Head(conn[s].q) # Overflow /\ ~New(s)))
      /\ conn' = [conn EXCEPT ![s] = c]
  BY StreamHas DEF Discard
<1>2. /\ conn[s] \in Conn /\ StreamInv(s) /\ ConnInv(s) /\ CursorInv(s) /\ row \in Nat /\ Len(log) \in Nat
      /\ conn[s].q \in Seq(Item)
  BY <1>1, StreamHas, Connections
<1>3. /\ Head(conn[s].q) \in ToSet(conn[s].q)
      /\ q \in Seq(Item) /\ Len(q) = Len(conn[s].q) - 1 /\ ToSet(q) \subseteq ToSet(conn[s].q)
      /\ \A x \in ToSet(conn[s].q) : x = Head(conn[s].q) \/ x \in ToSet(q)
  BY <1>1, <1>2, TailHas
<1> HIDE DEF q
<1>4. c \in Conn /\ c.q = q /\ c.flag = conn[s].flag /\ SameBut(conn[s], c)
  BY <1>2, <1>3, Requeued
<1> HIDE DEF c
<1>5. Len(q) <= QMax
  BY <1>2, <1>3, StreamAssumption DEF ConnInv
<1>6. ASSUME Relies(s), missed[s] = {}, NEW i \in 1..Len(log)
      PROVE  \/ log[i].event \in known[s]
             \/ \E p \in Procs : cur[p].id = i
             \/ \E p \in Procs : conn[s].at \in Procs /\ i \in ToSet(wire[p][conn[s].at])
             \/ Frame(i) \in ToSet(q)
  <2>1. log[i].event \in known[s] \/ Comes(s, i)
    BY <1>1, <1>2, <1>6 DEF StreamInv, FlowInv, WillTell
  <2>2. CASE Frame(i) \in ToSet(conn[s].q) /\ Frame(i) = Head(conn[s].q)
    <3>1. ~(i > conn[s].water)
      BY <1>1, <1>6, <2>2, Items DEF New, Relies
    <3>2. i <= last[s] /\ last[s] \in 0..Len(log)
      BY <1>2, <3>1 DEF CursorInv
    <3>3. log[i].event \in UpTo(last[s])
      BY <1>2, <3>2 DEF UpTo, EventsOf
    <3> QED
      BY <1>2, <1>6, <3>3 DEF StreamInv
  <2> QED
    BY <1>3, <2>1, <2>2 DEF Comes
<1>7. c.pc \in {"row", "head", "live"} /\ ~c.flag /\ c.at \notin alarm => Relies(s)
  BY <1>1, <1>4 DEF Relies, SameBut
<1>8. c.at = conn[s].at /\ c.pc = "live" /\ c.seen = conn[s].seen /\ c.head = conn[s].head
      /\ c.water = conn[s].water
  BY <1>1, <1>4 DEF SameBut
<1>9. \A f \in ToSet(c.q) : f.kind = "frame" => f.id \in 1..Len(log)
  BY <1>2, <1>3, <1>4 DEF ConnInv
<1>10. Fits(s, c)
  BY <1>1, <1>2, <1>4, <1>5, <1>8, <1>9 DEF Fits, CursorInv
<1>11. missed[s] = {} => Flows(s, c)
  BY <1>4, <1>6, <1>7, <1>8 DEF Flows
<1> QED
  BY <1>1, <1>4, <1>10, <1>11, ConnOnly

\* What a step that tells the client of events must establish.
LEMMA TellKept ==
    ASSUME IInv, NEW s \in Streams, UNCHANGED <<writeVars, relayVars, brokerVars>>,
           NEW c \in Conn, NEW events \in SUBSET Events, Tell(s, events, c),
           NEW l \in 0..Len(log), last' = [last EXCEPT ![s] = l],
           NEW m \in SUBSET Reasons, missed' = [missed EXCEPT ![s] = m],
           c.pc = "live", Len(c.q) <= QMax,
           \A f \in ToSet(c.q) : f.kind = "frame" => f.id \in 1..Len(log),
           c.seen <= row, c.head <= Len(log), c.water \in {0, l},
           m = {} => \A i \in 1..l : log[i].event \in known[s] \cup events,
           m = {} /\ End \notin events /\ ~c.flag /\ c.at \notin alarm =>
                \A i \in 1..Len(log) :
                    \/ log[i].event \in known[s] \cup events
                    \/ \E p \in Procs : cur[p].id = i
                    \/ \E p \in Procs : c.at \in Procs /\ i \in ToSet(wire[p][c.at])
                    \/ Frame(i) \in ToSet(c.q)
    PROVE  IInv'
<1> DEFINE k == known[s] \cup events
           d == IF End \in events THEN Closed ELSE c
<1>1. /\ log' = log /\ cur' = cur /\ row' = row /\ wire' = wire /\ alarm' = alarm
  BY DEF writeVars, relayVars, brokerVars
<1>2. /\ k \in SUBSET Events /\ known' = [known EXCEPT ![s] = k] /\ d \in Conn \cup {Closed}
      /\ conn' = [conn EXCEPT ![s] = d] /\ l \in Nat
  BY StreamHas DEF Tell
<1>3. conn'[s] = d /\ known'[s] = k /\ last'[s] = l /\ missed'[s] = m /\ Len(log) \in Nat /\ row \in Nat
  BY <1>2, StreamHas DEF IInv, ClientInv
<1>4. ConnInv(s)' /\ CursorInv(s)'
  <2>1. CASE End \in events
    <3>1. d = Closed /\ ToSet(Closed.q) = {} /\ Len(Closed.q) = 0
      BY <2>1, Connections DEF ToSet
    <3> QED
      BY <1>1, <1>3, <3>1, Connections, StreamAssumption DEF ConnInv, CursorInv
  <2>2. CASE End \notin events
    <3>1. d = c
      BY <2>2
    <3> QED
      BY <1>1, <1>3, <3>1 DEF ConnInv, CursorInv
  <2> QED
    BY <2>1, <2>2
<1>5. m = {} => UpTo(last[s])' \subseteq known'[s]
  BY <1>1, <1>3 DEF UpTo, EventsOf
<1>6. m = {} => FlowInv(s)'
  <2>1. CASE End \in events
    BY <1>3, <2>1, Connections DEF FlowInv, Relies
  <2>2. CASE End \notin events
    <3>1. d = c
      BY <2>2
    <3> QED
      BY <1>1, <1>3, <2>2, <3>1 DEF FlowInv, Relies, Comes
  <2> QED
    BY <2>1, <2>2
<1>7. StreamInv(s)'
  BY <1>3, <1>4, <1>5, <1>6 DEF StreamInv
<1> HIDE DEF k, d
<1> QED
  BY <1>2, <1>7, OnlyKept

LEMMA LiveIs ==
    ASSUME NEW c \in Conn, NEW water \in Nat
    PROVE  /\ Live(c, water) \in Conn /\ Live(c, water).q = c.q /\ Live(c, water).pc = "live"
           /\ Live(c, water).flag = c.flag /\ Live(c, water).at = c.at
           /\ Live(c, water).seen = 0 /\ Live(c, water).head = 0 /\ Live(c, water).water = water
  BY DEF Live, Opening, Conn

LEMMA SnapshotKept == ASSUME IInv, NEW s \in Streams, Snapshot(s) PROVE IInv'
<1> USE StreamAssumption
<1> DEFINE c == conn[s]
           m == IF \E i \in 1..c.head : log[i].event > c.seen THEN {"overtaken"}
                ELSE IF c.seen = row THEN {} ELSE missed[s]
           d == Live(c, c.head)
           events == 1..c.seen
<1>1. /\ c.pc = "head" /\ Tell(s, events, d) /\ UNCHANGED <<writeVars, relayVars, brokerVars>>
      /\ last' = [last EXCEPT ![s] = c.head]
      /\ missed' = [missed EXCEPT ![s] = m]
  BY StreamHas DEF Snapshot
<1>2. /\ c \in Conn /\ StreamInv(s) /\ ConnInv(s) /\ CursorInv(s) /\ row \in Nat /\ Len(log) \in Nat
      /\ missed[s] \in SUBSET Reasons
  BY <1>1, StreamHas, Connections
<1>3. c.seen \in 0..row /\ c.head \in 0..Len(log) /\ c.head \in Nat /\ c.seen \in Nat
  BY <1>2 DEF CursorInv, Conn
<1>4. events \in SUBSET Events /\ m \in SUBSET Reasons
  BY <1>2, <1>3 DEF IInv, PipeInv, WritersInv, Events, Reasons
<1>5. /\ d \in Conn /\ d.q = c.q /\ d.pc = "live" /\ d.flag = c.flag /\ d.at = c.at
      /\ d.seen = 0 /\ d.head = 0 /\ d.water = c.head
  BY <1>2, <1>3, LiveIs
<1>6. \A i \in 1..Len(log) : log[i].event \in Nat /\ log[i].event # 0 /\ log[i].event <= row
  BY Entries DEF IInv, PipeInv, LogInv, Events
<1>7. ASSUME m = {}, NEW i \in 1..c.head PROVE log[i].event \in known[s] \cup events
  <2>1. ~(log[i].event > c.seen) /\ i \in 1..Len(log)
    BY <1>3, <1>7
  <2> QED
    BY <1>3, <1>6, <2>1
<1>8. ASSUME m = {}, ~d.flag, d.at \notin alarm, NEW i \in 1..Len(log)
      PROVE  \/ log[i].event \in known[s] \cup events
             \/ \E p \in Procs : cur[p].id = i
             \/ \E p \in Procs : d.at \in Procs /\ i \in ToSet(wire[p][d.at])
             \/ Frame(i) \in ToSet(d.q)
  <2>1. CASE c.seen = row
    BY <1>3, <1>6, <2>1
  <2>2. CASE c.seen # row
    <3>1. missed[s] = {}
      BY <1>8, <2>2
    <3>2. Relies(s)
      BY <1>1, <1>5, <1>8 DEF Relies
    <3>3. log[i].event \in known[s] \/ Comes(s, i) \/ log[i].event <= c.seen
      BY <1>2, <3>1, <3>2 DEF StreamInv, FlowInv, WillTell
    <3>4. log[i].event <= c.seen => log[i].event \in events
      BY <1>3, <1>6
    <3> QED
      BY <1>5, <3>3, <3>4 DEF Comes
  <2> QED
    BY <2>1, <2>2
<1>9. /\ Len(d.q) <= QMax /\ \A f \in ToSet(d.q) : f.kind = "frame" => f.id \in 1..Len(log)
      /\ d.seen <= row /\ d.head <= Len(log) /\ d.water \in {0, c.head}
  BY <1>2, <1>5 DEF ConnInv
<1> DEFINE l == c.head
<1>10. l \in 0..Len(log) /\ last' = [last EXCEPT ![s] = l] /\ d.water \in {0, l}
  BY <1>1, <1>3, <1>9
<1>11. m = {} => \A i \in 1..l : log[i].event \in known[s] \cup events
  BY <1>7
<1> HIDE DEF d, m, events, l
<1> QED
  BY <1>1, <1>4, <1>5, <1>8, <1>9, <1>10, <1>11, TellKept

\* What was fanned out before the connection is a row, and is replayed, or known; what has
\* an id and is not committed is still to come.
LEMMA ReplayKept == ASSUME IInv, NEW s \in Streams, Replay(s) PROVE IInv'
<1> USE StreamAssumption
<1> DEFINE c == conn[s]
<1>1. PICK l \in Rows \cup {c.since} :
          /\ ReplayEnds(s, l)
          /\ Tell(s, EventsOf(Replayed(s, l)) \cup {n \in {End} : n <= c.seen},
                  Live(c, IF l = c.since THEN 0 ELSE l))
          /\ last' = [last EXCEPT ![s] = l]
          /\ missed' = [missed EXCEPT ![s] = missed[s]
                \cup {r \in {"overtaken"} : \E j \in 1..l : log[j].state = "open"}
                \cup {r \in {"unlogged"} : ~(EventsOf(Unlogged) \subseteq known[s])}]
  BY StreamHas DEF Replay
<1> DEFINE m == missed[s]
                \cup {r \in {"overtaken"} : \E j \in 1..l : log[j].state = "open"}
                \cup {r \in {"unlogged"} : ~(EventsOf(Unlogged) \subseteq known[s])}
           w == IF l = c.since THEN 0 ELSE l
           d == Live(c, w)
           events == EventsOf(Replayed(s, l)) \cup {n \in {End} : n <= c.seen}
<1>2. c.pc = "head" /\ Replays(s) /\ UNCHANGED <<writeVars, relayVars, brokerVars>>
  BY DEF Replay
<1>3. /\ c \in Conn /\ StreamInv(s) /\ ConnInv(s) /\ CursorInv(s) /\ row \in Nat /\ Len(log) \in Nat
      /\ missed[s] \in SUBSET Reasons
  BY <1>2, StreamHas, Connections
<1>4. c.since = last[s] /\ c.since \in 0..Len(log)
  BY <1>2, <1>3 DEF CursorInv, Replays
<1>5. Rows \subseteq 1..Len(log) /\ l \in 0..Len(log) /\ l \in Nat /\ w \in Nat /\ w \in {0, l}
  <2>1. DOMAIN log = 1..Len(log)
    BY DEF IInv, PipeInv, LogInv
  <2>2. Rows \subseteq 1..Len(log)
    BY <2>1 DEF Rows
  <2>3. l \in 0..Len(log)
    BY <1>3, <1>4, <2>2
  <2> QED
    BY <1>3, <2>2, <2>3
<1>6. events \in SUBSET Events /\ m \in SUBSET Reasons
  <2>1. Replayed(s, l) \subseteq 1..Len(log)
    BY <1>5 DEF Replayed
  <2>2. EventsOf(Replayed(s, l)) \in SUBSET Events
    BY <2>1, Entries DEF EventsOf, IInv
  <2> QED
    BY <1>3, <2>2 DEF Reasons, Events
<1>7. /\ d \in Conn /\ d.q = c.q /\ d.pc = "live" /\ d.flag = c.flag /\ d.at = c.at
      /\ d.seen = 0 /\ d.head = 0 /\ d.water = w
  BY <1>3, <1>5, LiveIs
<1>8. ASSUME m = {}, NEW i \in 1..Len(log), log[i].state # "open"
      PROVE  log[i].event \in known[s] \/ i \in Rows
  <2>1. log[i].state \in States
    <3>1. ASSUME NEW T, NEW q \in Seq(T), NEW j \in 1..Len(q) PROVE q[j] \in T
      OBVIOUS
    <3>2. log[i] \in [event: Events, state: States]
      BY <3>1 DEF IInv, PipeInv, LogInv
    <3> QED
      BY <3>2
  <2>2. DOMAIN log = 1..Len(log)
    BY DEF IInv, PipeInv, LogInv
  <2>3. EventsOf(Unlogged) \subseteq known[s]
    BY <1>8
  <2> QED
    BY <1>8, <2>1, <2>2, <2>3 DEF States, Rows, Unlogged, EventsOf
<1>9. ASSUME m = {}, NEW i \in 1..Len(log), i <= c.since PROVE log[i].event \in known[s]
  <2>1. missed[s] = {} /\ i \in 1..last[s]
    BY <1>4, <1>9
  <2> QED
    BY <1>3, <2>1 DEF StreamInv, UpTo, EventsOf
<1>10. ASSUME NEW i \in Rows, c.since < i, i <= l PROVE log[i].event \in events
  BY <1>10 DEF Replayed, EventsOf
<1>11. ASSUME NEW i \in Rows, ~(i <= l) PROVE End \in events
  <2>1. l \in Rows /\ c.since < l /\ log[l].event = End
    BY <1>1, <1>11 DEF ReplayEnds
  <2> QED
    BY <1>5, <1>10, <2>1
<1>12. ASSUME m = {}, NEW i \in 1..l PROVE log[i].event \in known[s] \cup events
  <2>1. log[i].state # "open" /\ i \in 1..Len(log)
    BY <1>5, <1>12
  <2>2. i \in Nat /\ c.since \in Nat
    BY <1>4
  <2> QED
    BY <1>8, <1>9, <1>10, <1>12, <2>1, <2>2
<1>13. ASSUME m = {}, End \notin events, NEW i \in 1..Len(log)
       PROVE  log[i].event \in known[s] \cup events \/ \E p \in Procs : cur[p].id = i
  <2>1. CASE log[i].state = "open"
    BY <2>1 DEF IInv, PipeInv, LogInv
  <2>2. CASE log[i].state # "open"
    <3>1. i \in Nat /\ c.since \in Nat /\ l \in Nat
      BY <1>4, <1>5
    <3> QED
      BY <1>8, <1>9, <1>10, <1>11, <1>13, <2>2, <3>1
  <2> QED
    BY <2>1, <2>2
<1>14. /\ Len(d.q) <= QMax /\ \A f \in ToSet(d.q) : f.kind = "frame" => f.id \in 1..Len(log)
       /\ d.seen <= row /\ d.head <= Len(log) /\ d.water \in {0, l}
  BY <1>3, <1>5, <1>7 DEF ConnInv
<1>15. Tell(s, events, d) /\ last' = [last EXCEPT ![s] = l] /\ missed' = [missed EXCEPT ![s] = m]
  BY <1>1
<1> HIDE DEF d, m, events, w
<1> QED
  BY <1>2, <1>5, <1>6, <1>7, <1>12, <1>13, <1>14, <1>15, TellKept

\* A frame is delivered when nothing with a lower id is on its way: it leaves no gap.
LEMMA DeliverKept == ASSUME IInv, NEW s \in Streams, Deliver(s) PROVE IInv'
<1> USE StreamAssumption
<1> DEFINE c == conn[s]
           q == Tail(c.q)
           id == Head(c.q).id
           d == [c EXCEPT !.q = q, !.water = id]
           m == missed[s] \cup Passes(s, id)
           events == {log[id].event}
<1>1. /\ c.pc = "live" /\ c.q # <<>> /\ ~c.flag /\ New(s)
      /\ Tell(s, events, d) /\ UNCHANGED <<writeVars, relayVars, brokerVars>>
      /\ last' = [last EXCEPT ![s] = id] /\ missed' = [missed EXCEPT ![s] = m]
  BY StreamHas DEF Deliver
<1>2. /\ c \in Conn /\ StreamInv(s) /\ ConnInv(s) /\ CursorInv(s) /\ row \in Nat /\ Len(log) \in Nat
      /\ missed[s] \in SUBSET Reasons /\ c.q \in Seq(Item)
  BY <1>1, StreamHas, Connections
<1>3. /\ Head(c.q) \in ToSet(c.q)
      /\ q \in Seq(Item) /\ Len(q) = Len(c.q) - 1 /\ ToSet(q) \subseteq ToSet(c.q)
      /\ \A x \in ToSet(c.q) : x = Head(c.q) \/ x \in ToSet(q)
  BY <1>1, <1>2, TailHas
<1>4. id \in 1..Len(log) /\ id \in Nat /\ Head(c.q).kind = "frame"
  BY <1>1, <1>2, <1>3 DEF New, ConnInv
<1> HIDE DEF q, id
<1>5. /\ d \in Conn /\ d.q = q /\ d.pc = "live" /\ d.flag = c.flag /\ d.at = c.at
      /\ d.seen = c.seen /\ d.head = c.head /\ d.water = id
  BY <1>1, <1>2, <1>3, <1>4 DEF Conn
<1>6. events \in SUBSET Events /\ m \in SUBSET Reasons
  BY <1>2, <1>4, Entries DEF IInv, Passes, Reasons
<1>7. ASSUME m = {}
      PROVE  /\ missed[s] = {} /\ c.at \notin alarm
             /\ \A i \in Coming(s) : ~(0 < i /\ i < id)
  BY <1>7 DEF Passes
<1>8. ASSUME NEW i \in 1..Len(log), Comes(s, i) PROVE i \in Coming(s)
  <2>1. CASE \E p \in Procs : cur[p].id = i
    BY <2>1 DEF Coming
  <2>2. CASE \E p \in Procs : i \in ToSet(wire[p][c.at])
    BY <2>2 DEF Coming
  <2>3. CASE Frame(i) \in ToSet(c.q)
    <3>1. Frame(i).id = i
      BY Items
    <3>2. i \in {f.id : f \in ToSet(c.q)}
      BY <2>3, <3>1
    <3> HIDE DEF c
    <3>3. conn[s] = c
      BY DEF c
    <3> QED
      BY <3>2, <3>3 DEF Coming
  <2>4. \/ \E p \in Procs : cur[p].id = i
        \/ \E p \in Procs : i \in ToSet(wire[p][c.at])
        \/ Frame(i) \in ToSet(c.q)
    BY <1>8 DEF Comes
  <2> QED
    BY <2>1, <2>2, <2>3, <2>4
<1>9. ASSUME m = {}, NEW i \in 1..Len(log) PROVE log[i].event \in known[s] \/ Comes(s, i)
  <2>1. Relies(s)
    BY <1>1, <1>7, <1>9 DEF Relies
  <2> QED
    BY <1>1, <1>2, <1>7, <1>9, <2>1 DEF StreamInv, FlowInv, WillTell
<1>10. ASSUME m = {}, NEW i \in 1..id PROVE log[i].event \in known[s] \cup events
  <2>1. i \in 1..Len(log) /\ i \in Nat /\ 0 < i /\ (i = id \/ i < id)
    BY <1>2, <1>4
  <2>2. CASE i < id
    <3>1. i \notin Coming(s)
      BY <1>7, <1>10, <2>1, <2>2
    <3> QED
      BY <1>8, <1>9, <1>10, <2>1, <3>1
  <2> QED
    BY <2>1, <2>2
<1>11. ASSUME m = {}, NEW i \in 1..Len(log)
       PROVE  \/ log[i].event \in known[s] \cup events
              \/ \E p \in Procs : cur[p].id = i
              \/ \E p \in Procs : d.at \in Procs /\ i \in ToSet(wire[p][d.at])
              \/ Frame(i) \in ToSet(d.q)
  <2>1. log[i].event \in known[s] \/ Comes(s, i)
    BY <1>9, <1>11
  <2>2. CASE Frame(i) \in ToSet(c.q) /\ Frame(i) = Head(c.q)
    BY <2>2, Items DEF id
  <2> QED
    BY <1>3, <1>5, <2>1, <2>2 DEF Comes
<1>12. /\ Len(d.q) <= QMax /\ \A f \in ToSet(d.q) : f.kind = "frame" => f.id \in 1..Len(log)
       /\ d.seen <= row /\ d.head <= Len(log) /\ d.water \in {0, id}
  <2>1. Len(q) <= QMax
    BY <1>2, <1>3 DEF ConnInv
  <2> QED
    BY <1>2, <1>3, <1>5, <2>1 DEF ConnInv, CursorInv
<1>13. id \in 0..Len(log)
  BY <1>4
<1> HIDE DEF d, m, events
<1> QED
  BY <1>1, <1>5, <1>6, <1>10, <1>11, <1>12, <1>13, TellKept

-----------------------------------------------------------------------------
(* The theorems.                                                           *)

LEMMA InitHolds == Init => IInv
<1> SUFFICES ASSUME Init PROVE IInv
  OBVIOUS
<1> USE StreamAssumption
<1>1. ToSet(<<>>) = {} /\ Len(log) = 0
  BY DEF Init, ToSet
<1>2. PipeInv
  BY <1>1 DEF Init, PipeInv, WritersInv, RelayInv, CurInv, LogInv, WireInv, NoEvent
<1>3. ASSUME NEW s \in Streams PROVE StreamInv(s)
  <2>1. conn[s] = Closed /\ last[s] = 0 /\ row = 0
    BY DEF Init
  <2>2. ConnInv(s) /\ CursorInv(s) /\ ~Relies(s)
    BY <1>1, <2>1, Connections DEF ConnInv, CursorInv, Relies
  <2>3. UpTo(last[s]) = {}
    BY <2>1 DEF UpTo, EventsOf
  <2> QED
    BY <2>2, <2>3 DEF StreamInv, FlowInv
<1>4. ClientInv
  BY <1>3 DEF Init, ClientInv
<1> QED
  BY <1>2, <1>4 DEF IInv

LEMMA NextKeeps == IInv /\ [Next]_vars => IInv'
<1> SUFFICES ASSUME IInv, [Next]_vars PROVE IInv'
  OBVIOUS
<1>1. CASE UNCHANGED vars
  <2>1. UNCHANGED <<writeVars, relayVars, brokerVars, conn, clientVars>>
    BY <1>1 DEF vars
  <2>2. PipeInv'
    BY <2>1 DEF IInv, PipeInv, WritersInv, RelayInv, CurInv, LogInv, WireInv,
                writeVars, relayVars, brokerVars
  <2>3. Grows
    BY <2>1, Lengths DEF Grows, IInv, writeVars, relayVars
  <2>4. \A s \in Streams : \A i \in 1..Len(log') :
            Comes(s, i)' \/ (i \in 1..Len(log) /\ ~Comes(s, i)) \/ Relies(s)' = FALSE
    BY <2>1 DEF Comes, relayVars, brokerVars
  <2> QED
    BY <2>1, <2>2, <2>3, <2>4, QuietKept DEF IInv, brokerVars
<1>2. ASSUME NEW p \in Procs,
             \/ Write(p) \/ Publishing(p) \/ Relaying(p) \/ RelayFails(p)
             \/ Broker(p) \/ BrokerLoses(p)
      PROVE  IInv'
  BY <1>2, WriteKept, PublishKept, RelayTakeKept, RelayInsertKept, RelayFailsKept, RelayCommitKept,
     RelayFansKept, BrokerFrameKept, BrokerResyncKept, BrokerLosesKept
     DEF Publishing, Relaying, Broker
<1>3. ASSUME NEW s \in Streams, NEW p \in Procs, NEW since \in {last[s], None}, Connect(s, p, since)
      PROVE  IInv'
  BY <1>3, ConnectKept
<1>4. ASSUME NEW s \in Streams, Reading(s) \/ ReadFails(s) PROVE IInv'
  BY <1>4, ReadRowKept, ReadHeadKept, ReadFailsKept, ReplayKept, SnapshotKept DEF Reading
<1>5. ASSUME NEW s \in Streams, LiveStep(s) \/ Hangup(s) PROVE IInv'
  BY <1>5, StartResyncKept, DiscardKept, DeliverKept, HangupKept DEF LiveStep, Poisoned
<1>6. CASE Rest
  BY <1>1, <1>6 DEF Rest
<1> QED
  BY <1>1, <1>2, <1>3, <1>4, <1>5, <1>6 DEF Next

LEMMA IInvHolds == Spec => []IInv
<1> QED
  BY InitHolds, NextKeeps, PTL DEF Spec

\* The queues, the cursors and the connections keep their shape, over any number of
\* processes, streams and events and any bounds of the queues.
THEOREM TypeCorrect == Spec => []TypeOK
<1>1. IInv => TypeOK
  <2> SUFFICES ASSUME IInv PROVE TypeOK
    OBVIOUS
  <2>1. \A s \in Streams : Len(conn[s].q) <= QMax
    BY StreamHas DEF ConnInv
  <2> QED
    BY <2>1 DEF TypeOK, IInv, PipeInv, WritersInv, RelayInv, CurInv, LogInv, WireInv, ClientInv
<1> QED
  BY <1>1, IInvHolds, PTL

\* A client knows every event up to its resume point, unless it was passed over: the
\* comment of stream.py:65, over events of several workers whose ids follow no order,
\* saturated relays, failed inserts and commits, resyncs, replays and reconnects.
THEOREM ResumePoints == Spec => []ResumePointCovers
<1>1. IInv => ResumePointCovers
  BY DEF IInv, ClientInv, StreamInv, ResumePointCovers
<1> QED
  BY <1>1, IInvHolds, PTL

\* A live stream with a watermark tells ids in increasing order: _live_frames drops what a
\* replay, a snapshot or an earlier frame already covered.
THEOREM StreamsIncrease == Spec => IdsIncrease
<1>1. ASSUME IInv, [Next]_vars, NEW s \in Streams, conn[s].pc = "live", conn[s].water > 0, last'[s] # last[s]
      PROVE  last'[s] > last[s]
  <2>1. /\ conn[s].water = last[s] /\ last[s] \in Nat /\ last \in [Streams -> Nat]
    <3>1. CursorInv(s) /\ last[s] \in Nat /\ last \in [Streams -> Nat]
      BY <1>1, StreamHas DEF IInv, ClientInv
    <3>2. conn[s].water # 0
      BY <1>1
    <3> QED
      BY <3>1, <3>2 DEF CursorInv
  <2>2. CASE Deliver(s)
    <3> DEFINE id == Head(conn[s].q).id
    <3>1. last' = [last EXCEPT ![s] = id] /\ id > conn[s].water
      BY <2>2 DEF Deliver, New
    <3> HIDE DEF id
    <3> QED
      BY <2>1, <3>1
  <2>3. last'[s] = last[s] \/ Deliver(s)
    <3>1. CASE UNCHANGED last
      BY <3>1
    <3>2. ASSUME NEW t \in Streams, Replay(t) \/ Snapshot(t) PROVE last'[s] = last[s]
      <4>1. conn[t].pc = "head" /\ \E x : last' = [last EXCEPT ![t] = x]
        BY <3>2 DEF Replay, Snapshot
      <4>2. t # s
        BY <1>1, <4>1
      <4> QED
        BY <2>1, <4>1, <4>2
    <3>3. ASSUME NEW t \in Streams, Deliver(t), t # s PROVE last'[s] = last[s]
      <4>1. \E x : last' = [last EXCEPT ![t] = x]
        BY <3>3 DEF Deliver
      <4> QED
        BY <2>1, <3>3, <4>1
    <3>4. \/ UNCHANGED last
          \/ \E t \in Streams : Replay(t) \/ Snapshot(t) \/ Deliver(t)
      BY <1>1 DEF Next, vars, clientVars, Write, Publishing, Publish, Relaying, RelayTake, RelayInsert,
                  RelayCommit, RelayFails, RelayFans, Broker, BrokerFrame, BrokerResync, BrokerLoses,
                  Connect, Reading, ReadRow, ReadHead, ReadFails, LiveStep, StartResync, Discard,
                  Poisoned, Hangup, Rest
    <3> QED
      BY <3>1, <3>2, <3>3, <3>4
  <2> QED
    BY <1>1, <2>2, <2>3
<1>2. IInv /\ [Next]_vars => [\A s \in Streams :
        conn[s].pc = "live" /\ conn[s].water > 0 /\ last'[s] # last[s] => last'[s] > last[s]]_vars
  BY <1>1
<1> QED
  BY <1>2, IInvHolds, PTL DEF Spec, IdsIncrease

=============================================================================
