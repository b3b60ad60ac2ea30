----------------------------- MODULE TcpClient -----------------------------
(***************************************************************************)
(* WiFiClient, WiFiServer and the ClientContext they share, over lwIP, and *)
(* the loop task that uses them.  The sketch calls any operation on any of *)
(* its clients.  It runs until it yields, delays, writes or connects;      *)
(* lwIP and the timer call back only then, and wake it with an event for   *)
(* which there is room once.  A connection, its pcb and its context have   *)
(* the same number.                                                        *)
(***************************************************************************)
EXTENDS Integers, Sequences, FiniteSets, SequencesExt

CONSTANTS
  MaxConnections,   \* model bound: connections ever made
  Clients,          \* the WiFiClient variables of the sketch
  MaxBytes,         \* model bound: bytes received in the connections there are
  Window,           \* the receive window
  SendBuffer,       \* the send buffer of lwIP
  SizeMod,          \* the range of size_t, 2^32
  WriteSizes,       \* sizes of writes
  Sizes             \* sizes of reads, segments and acknowledgments

ASSUME TcpAssumption ==
  /\ MaxConnections \in Nat /\ MaxBytes \in Nat /\ Window \in Nat
  /\ SendBuffer \in Nat \ {0} /\ SizeMod \in Nat \ (0 .. SendBuffer)
  /\ Sizes \subseteq Nat \ {0} /\ WriteSizes \subseteq Nat \ {0}
  /\ IsFiniteSet(Clients)

Connections == 1 .. MaxConnections
Null == 0

VARIABLES
  ctx,         \* the ClientContexts
  pcb,         \* lwIP's side of each connection
  handle,      \* _client of each WiFiClient
  unclaimed,   \* _unclaimed of the server: the head of a list
  task,        \* what the sketch waits for, or that it runs
  queue,       \* events of the loop task
  timer        \* delay_timer is armed

tcpVars == <<ctx, pcb, handle, unclaimed, task, queue, timer>>
-----------------------------------------------------------------------------
NoContext ==
  [life |-> "none", refs |-> 0, pcb |-> FALSE, rx |-> << >>, offset |-> 0,
   size_sent |-> 0, send_waiting |-> FALSE, next |-> Null,
   taken |-> << >>]    \* history: the bytes read or dropped

\* The constructor registers the context with its pcb.
ClientContext(refs) ==
  [NoContext EXCEPT !.life = "alive", !.refs = refs, !.pcb = TRUE]

\* arg is what the callbacks of the pcb are called on: nothing, a WiFiClient or
\* the context.
Nobody == "none"
ToContext == "context"
NoPcb == [state |-> "none", arg |-> Nobody, unacked |-> 0, received |-> 0,
          recved |-> 0]

Sum(lengths) ==
  LET upTo[i \in 0 .. Len(lengths)] == IF i = 0 THEN 0 ELSE upTo[i - 1] + lengths[i]
  IN  upTo[Len(lengths)]
TotLen(rx) == Sum([i \in DOMAIN rx |-> Len(rx[i])])
Unread(c) == SubSeq(FlattenSeq(ctx[c].rx), ctx[c].offset + 1, TotLen(ctx[c].rx))

\* The operations of a context work on s, both sides of all connections.
State == [ctx |-> ctx, pcb |-> pcb]
Becomes(s) == ctx' = s.ctx /\ pcb' = s.pcb

\* tcp_recved opens the window again; a context without a pcb cannot.
Recved(s, c, n) ==
  IF s.ctx[c].pcb THEN [s EXCEPT !.pcb[c].recved = @ + n] ELSE s

Flush(s, c) ==
  LET x == s.ctx[c]
      all == FlattenSeq(x.rx)
  IN  IF x.rx = << >> THEN s
      ELSE [Recved(s, c, TotLen(x.rx)) EXCEPT
              !.ctx[c].rx = << >>, !.ctx[c].offset = 0,
              !.ctx[c].taken = @ \o SubSeq(all, x.offset + 1, Len(all))]

\* Mutant: the callbacks of the pcb stay.
CloseRegistered(s, c) == [s EXCEPT !.ctx[c].pcb = FALSE]

\* close() and abort(): no callback comes any more.
Close(s, c) ==
  IF s.ctx[c].pcb
  THEN [s EXCEPT !.ctx[c].pcb = FALSE,
                 !.pcb[c].state = "closed", !.pcb[c].arg = Nobody]
  ELSE s

Ref(s, c) == IF c = Null THEN s ELSE [s EXCEPT !.ctx[c].refs = @ + 1]

\* The last reference flushes, closes and deletes, and what is known of the
\* connection is forgotten; _discard does nothing.
Unref(s, c) ==
  CASE c = Null -> s
    [] c # Null /\ s.ctx[c].refs > 1 -> [s EXCEPT !.ctx[c].refs = @ - 1]
    [] OTHER ->
         LET closed == Close(Flush(s, c), c).pcb[c]
         IN  [s EXCEPT !.ctx[c] = [NoContext EXCEPT !.life = "deleted"],
                       !.pcb[c] = [NoPcb EXCEPT !.state = closed.state,
                                                !.arg = closed.arg]]

\* Mutant: the offset into a pbuf that is done stays.
ConsumeKeepsOffset(x, size) ==
  LET bytes == SubSeq(x.rx[1], x.offset + 1, x.offset + size)
  IN  IF Len(x.rx[1]) - x.offset - size > 0
      THEN [x EXCEPT !.taken = @ \o bytes, !.offset = @ + size]
      ELSE [x EXCEPT !.taken = @ \o bytes,
                     !.rx = Tail(@), !.recved = @ + Len(x.rx[1])]

\* _consume, with the bytes it leaves behind; a pbuf that is done opens the
\* window again.
Consume(x, size) ==
  LET bytes == SubSeq(x.rx[1], x.offset + 1, x.offset + size)
  IN  IF Len(x.rx[1]) - x.offset - size > 0
      THEN [x EXCEPT !.taken = @ \o bytes, !.offset = @ + size]
      ELSE [x EXCEPT !.taken = @ \o bytes, !.offset = 0,
                     !.rx = Tail(@), !.recved = @ + Len(x.rx[1])]

Lesser(a, b) == IF a < b THEN a ELSE b

\* A turn of the loop of read(): as much of the first pbuf as is left to read.
Copied(r) ==
  LET here == Lesser(r.left, Len(r.x.rx[1]) - r.x.offset)
  IN  IF r.left = 0 THEN r
      ELSE [x |-> Consume(r.x, here), left |-> r.left - here]

\* read(dst, size): a pbuf at a time, as far as there is data.
Read(x, size) ==
  LET turns[k \in 0 .. Len(x.rx)] ==
        IF k = 0 THEN [x |-> x, left |-> Lesser(size, TotLen(x.rx) - x.offset)]
                 ELSE Copied(turns[k - 1])
  IN  turns[Len(x.rx)].x
-----------------------------------------------------------------------------
\* Mutant: room for a second event.
QueueSizeTwo == 2
QueueSize == 1    \* LOOP_QUEUE_SIZE

\* esp_schedule: an event for which there is no room is lost.
esp_schedule == queue' = Lesser(queue + 1, QueueSize)

Running == task.at = "running"
RunTask == [at |-> "running", client |-> Nobody, conn |-> Null, leftover |-> FALSE]
Wait(what) == [RunTask EXCEPT !.at = what]

\* Connections not made yet are made in the order of their numbers.
Fresh == {c \in Connections : /\ pcb[c].state = "none"
                              /\ \A d \in 1 .. c - 1 : pcb[d].state # "none"}

TcpInit ==
  /\ ctx = [c \in Connections |-> NoContext]
  /\ pcb = [c \in Connections |-> NoPcb]
  /\ handle = [h \in Clients |-> Null]
  /\ unclaimed = Null
  /\ task = RunTask /\ queue = 0 /\ timer = FALSE

-----------------------------------------------------------------------------
\* The sketch, between two waits.

\* WiFiServer::available, into a client that is not in use.
available(h) ==
  /\ Running /\ handle[h] = Null /\ unclaimed # Null
  /\ Becomes(Ref(State, unclaimed))
  /\ handle' = [handle EXCEPT ![h] = unclaimed]
  /\ unclaimed' = ctx[unclaimed].next
  /\ UNCHANGED <<task, queue, timer>>

\* Mutant: the reference is handed over but not counted.
AssignedUncounted(s, old, new) == Unref(s, old)
Assigned(s, old, new) == Ref(Unref(s, old), new)

\* operator=, and the copy constructor for a client that is not in use.
assign(h, g) ==
  /\ Running /\ h # g
  /\ Becomes(Assigned(State, handle[h], handle[g]))
  /\ handle' = [handle EXCEPT ![h] = handle[g]]
  /\ UNCHANGED <<unclaimed, task, queue, timer>>

\* stop() and the destructor.
stop(h) ==
  /\ Running /\ handle[h] # Null
  /\ Becomes(Unref(State, handle[h]))
  /\ handle' = [handle EXCEPT ![h] = Null]
  /\ UNCHANGED <<unclaimed, task, queue, timer>>

read(h, size) ==
  LET c == handle[h]
      x == Read([rx |-> ctx[c].rx, offset |-> ctx[c].offset,
                 taken |-> ctx[c].taken, recved |-> 0], size)
  IN  /\ Running /\ c # Null /\ ctx[c].rx # << >>
      /\ ctx' = [ctx EXCEPT ![c].rx = x.rx, ![c].offset = x.offset,
                            ![c].taken = x.taken]
      /\ pcb' = Recved(State, c, x.recved).pcb
      /\ UNCHANGED <<handle, unclaimed, task, queue, timer>>

flush(h) ==
  /\ Running /\ handle[h] # Null
  /\ Becomes(Flush(State, handle[h]))
  /\ UNCHANGED <<handle, unclaimed, task, queue, timer>>

\* Mutant: what was asked for is counted, not what fitted.
CountedAsked(size, will_send) == size
Counted(size, will_send) == will_send

\* write(): what fits the send buffer, then delay(5000); or nothing, at once, when
\* lwIP has no memory for it.  The 32 bits of _size_sent only matter when it falls
\* below zero; see sent.
write(h, size) ==
  LET c == handle[h]
      will_send == Lesser(SendBuffer - pcb[c].unacked, size)
  IN  /\ Running /\ c # Null /\ ctx[c].pcb
      /\ \/ UNCHANGED tcpVars
         \/ /\ ctx' = [ctx EXCEPT ![c].size_sent = Counted(size, will_send),
                                 ![c].send_waiting = TRUE]
            /\ pcb' = [pcb EXCEPT ![c].unacked = @ + will_send]
            /\ task' = [at |-> "write", client |-> h, conn |-> c,
                        leftover |-> pcb[c].unacked > 0]
            /\ timer' = TRUE
            /\ UNCHANGED <<handle, unclaimed, queue>>

yield ==
  /\ Running /\ task' = Wait("yield") /\ esp_schedule
  /\ UNCHANGED <<ctx, pcb, handle, unclaimed, timer>>

delay ==
  /\ Running /\ task' = Wait("delay") /\ timer' = TRUE
  /\ UNCHANGED <<ctx, pcb, handle, unclaimed, queue>>

\* connect(ip): a client that is in use is stopped first.  Without a pcb it
\* returns; what tcp_connect returns is not looked at, and a pcb that it has
\* refused to connect is waited for as well.
startConnect(h) ==
  LET s == Unref(State, handle[h])
  IN  /\ ctx' = s.ctx
      /\ handle' = [handle EXCEPT ![h] = Null]
      /\ UNCHANGED <<unclaimed, timer>>
      /\ \/ pcb' = s.pcb /\ task' = RunTask
         \/ \E c \in Fresh :
              /\ \/ pcb' = [s.pcb EXCEPT ![c].state = "connecting", ![c].arg = h]
                 \/ pcb' = [s.pcb EXCEPT ![c].state = "unconnected"]
              /\ task' = [Wait("connect") EXCEPT !.client = h, !.conn = c]

\* connect(host): hostByName knows the address or has to wait for it.
connect(h) ==
  /\ Running /\ Fresh # {}
  /\ \/ startConnect(h) /\ UNCHANGED queue
     \/ /\ task' = [Wait("dns") EXCEPT !.client = h]
        /\ UNCHANGED <<ctx, pcb, handle, unclaimed, queue, timer>>

\* loop_task: the event is taken and the sketch goes on where it waited.
resume ==
  /\ ~Running /\ queue > 0
  /\ queue' = queue - 1
  /\ \/ task.at = "dns" /\ startConnect(task.client)
     \/ /\ task' = RunTask
        /\ timer' = IF task.at \in {"write", "delay"} THEN FALSE ELSE timer
        /\ ctx' = IF task.at = "write"
                  THEN [ctx EXCEPT ![task.conn].send_waiting = FALSE] ELSE ctx
        /\ UNCHANGED <<pcb, handle, unclaimed>>

sketchStep ==
  \/ \E h \in Clients : available(h) \/ stop(h) \/ flush(h) \/ connect(h)
  \/ \E h, g \in Clients : assign(h, g)
  \/ \E h \in Clients, n \in Sizes : read(h, n)
  \/ \E h \in Clients, n \in WriteSizes : write(h, n)
  \/ yield \/ delay \/ resume
-----------------------------------------------------------------------------
\* lwIP and the timer, while the sketch waits.

Callback(c) == ~Running /\ pcb[c].state = "established" /\ pcb[c].arg = ToContext

\* slist_append_tail follows the list from its head.
LastOf[c \in Connections] == IF ctx[c].next = Null THEN c ELSE LastOf[ctx[c].next]

Appended(contexts, c) ==
  IF unclaimed = Null THEN contexts
  ELSE [contexts EXCEPT ![LastOf[unclaimed]].next = c]

\* _accept: the context waits in the list of the server, without a reference.
accept ==
  /\ ~Running
  /\ \E c \in Fresh :
       /\ ctx' = Appended([ctx EXCEPT ![c] = ClientContext(0)], c)
       /\ unclaimed' = IF unclaimed = Null THEN c ELSE unclaimed
       /\ pcb' = [pcb EXCEPT ![c].state = "established", ![c].arg = ToContext]
  /\ UNCHANGED <<handle, task, queue, timer>>

\* _recv: the segment is chained behind what is unread.
receive(c, n) ==
  /\ Callback(c)
  /\ Sum([d \in Connections |-> pcb[d].received]) + n <= MaxBytes
  /\ pcb[c].received + n - pcb[c].recved <= Window
  /\ ctx' = [ctx EXCEPT ![c].rx =
               Append(@, [i \in 1 .. n |-> pcb[c].received + i])]
  /\ pcb' = [pcb EXCEPT ![c].received = @ + n]
  /\ UNCHANGED <<handle, unclaimed, task, queue, timer>>

\* _recv without a pbuf: the peer has closed, and the connection is aborted; a
\* writer that waits is left to its timer.
closedByPeer(c) ==
  /\ Callback(c)
  /\ Becomes(Close(State, c))
  /\ UNCHANGED <<handle, unclaimed, task, queue, timer>>

WakesWriter(x, left) == left = 0 /\ x.send_waiting

\* _sent: _size_sent is unsigned, and may be less than what is acknowledged.
sent(c, n) ==
  LET left == (ctx[c].size_sent - n) % SizeMod
  IN  /\ Callback(c) /\ n <= pcb[c].unacked
      /\ ctx' = [ctx EXCEPT ![c].size_sent = left]
      /\ pcb' = [pcb EXCEPT ![c].unacked = @ - n]
      /\ IF WakesWriter(ctx[c], left) THEN esp_schedule ELSE UNCHANGED queue
      /\ UNCHANGED <<handle, unclaimed, task, timer>>

\* _error: lwIP has freed the pcb already, see tcp.h; what close() does to the
\* memory of it is not modelled.
error(c) ==
  /\ Callback(c)
  /\ Becomes(Close(State, c))
  /\ IF ctx[c].size_sent # 0 /\ ctx[c].send_waiting
     THEN esp_schedule ELSE UNCHANGED queue
  /\ UNCHANGED <<handle, unclaimed, task, timer>>

\* _connected: the context replaces the client as the argument of the pcb.
connected(c) ==
  /\ ~Running /\ pcb[c].state = "connecting"
  /\ ctx' = [ctx EXCEPT ![c] = ClientContext(1)]
  /\ handle' = [handle EXCEPT ![pcb[c].arg] = c]
  /\ pcb' = [pcb EXCEPT ![c].state = "established", ![c].arg = ToContext]
  /\ esp_schedule
  /\ UNCHANGED <<unclaimed, task, timer>>

\* Mutant: nobody is told.
errSilent == UNCHANGED queue
err == esp_schedule

connectFailed(c) ==
  /\ ~Running /\ pcb[c].state = "connecting"
  /\ pcb' = [pcb EXCEPT ![c].state = "closed", ![c].arg = Nobody]
  /\ err
  /\ UNCHANGED <<ctx, handle, unclaimed, task, timer>>

\* wifi_dns_found_callback, once for each question.
dnsAnswer ==
  /\ task.at = "dns" /\ queue = 0 /\ esp_schedule
  /\ UNCHANGED <<ctx, pcb, handle, unclaimed, task, timer>>

\* delay_end.
timerFires ==
  /\ ~Running /\ timer
  /\ timer' = FALSE /\ esp_schedule
  /\ UNCHANGED <<ctx, pcb, handle, unclaimed, task>>

callback ==
  \/ accept \/ dnsAnswer \/ timerFires
  \/ \E c \in Connections : \/ closedByPeer(c) \/ error(c)
                             \/ connected(c) \/ connectFailed(c)
  \/ \E c \in Connections, n \in Sizes : receive(c, n) \/ sent(c, n)

TcpNext == sketchStep \/ callback

\* The loop task runs when it has an event, timers fire, and lwIP gives up a name
\* or a connection attempt at last.
TcpFairness ==
  /\ WF_tcpVars(resume) /\ WF_tcpVars(timerFires) /\ WF_tcpVars(dnsAnswer)
  /\ WF_tcpVars(\E c \in Connections : connected(c) \/ connectFailed(c))

TcpSpec == TcpInit /\ [][TcpNext]_tcpVars /\ TcpFairness
-----------------------------------------------------------------------------
Holders(handles, c) == {h \in Clients : handles[h] = c}

\* A context has one reference for each client that holds it and lives for as
\* long as there is one.
RefsAreCounted ==
  \A c \in Connections :
    /\ ctx[c].refs = Cardinality(Holders(handle, c))
    /\ ctx[c].refs > 0 => ctx[c].life = "alive"

\* The contexts no client has held yet, and the first of them after another.
Waiting(contexts) ==
  {c \in Connections : contexts[c].life = "alive" /\ contexts[c].refs = 0}
FirstAfter(S, c) ==
  LET later == {d \in S : d > c}
  IN  IF later = {} THEN Null ELSE Min(later)

\* Before its first reference a context is in the list of the server, where every
\* connection is once, in the order of the accepts: none is lost or handed out
\* twice while available() takes from one end and lwIP appends to the other.
WaitInOrder ==
  LET waiting == Waiting(ctx)
  IN  /\ unclaimed = FirstAfter(waiting, Null)
      /\ \A c \in waiting : ctx[c].next = FirstAfter(waiting, c)

\* A context is held by the clients its references are counted for, and by the
\* list of the server before that.
RefsAreHandles == RefsAreCounted /\ WaitInOrder

\* lwIP calls back only on contexts that exist and still use the connection, and
\* keeps no connection open of which the sketch does not know.
PcbsHaveContexts ==
  \A c \in Connections :
    pcb[c].state = "established" <=> ctx[c].life = "alive" /\ ctx[c].pcb

\* The sketch gets the bytes of a connection in order and each of them once, from
\* whichever pbufs they came in; and the window is as wide as it was when all of
\* them have been read.
ReceivedInOrder ==
  \A c \in Connections :
    /\ ctx[c].taken \o Unread(c) = [i \in 1 .. pcb[c].received |-> i]
    /\ ctx[c].pcb => pcb[c].received - pcb[c].recved = TotLen(ctx[c].rx)

\* connect() returns when its connection has been made or has failed, and not
\* because of an event meant for an earlier wait: no connection is being made on
\* behalf of a client that may be gone.
ConnectIsDecided ==
  \A c \in Connections :
    pcb[c].state = "connecting" =>
      task.at = "connect" /\ task.conn = c /\ task.client = pcb[c].arg

\* A write that begins with nothing outstanding counts what is acknowledged, and
\* is woken by the last byte of it rather than by its timer.
AckedWriteReturns ==
  task.at = "write" /\ ~task.leftover /\ ctx[task.conn].pcb =>
    /\ ctx[task.conn].size_sent = pcb[task.conn].unacked
    /\ pcb[task.conn].unacked = 0 => queue > 0

\* The wait of connect() for a pcb that tcp_connect has refused.
Refused == task.at = "connect" /\ pcb[task.conn].state = "unconnected"

\* Whatever else the sketch waits for, it goes on: no event it needs is lost for
\* want of room, and none goes to a wait that has ended.
TaskGoesOn == ~Running ~> Running \/ Refused
=============================================================================
