----------------------------- MODULE TcpProofs -----------------------------
(***************************************************************************)
(* Proofs about the waits of the loop task, about which connections have a *)
(* context, about what a writer waits for, about references and the list   *)
(* of the server, and about the bytes of a connection, for any number of   *)
(* clients and connections and any sizes.  Until the last part the         *)
(* invariants say which fields a record has, and no more of most.          *)
(***************************************************************************)
EXTENDS TcpClient, FiniteSetTheorems, SequenceTheorems, InductionLemmas

IsContext(x) ==
  /\ "life" \in DOMAIN x /\ "pcb" \in DOMAIN x /\ "send_waiting" \in DOMAIN x
  /\ "next" \in DOMAIN x /\ "size_sent" \in DOMAIN x /\ "refs" \in DOMAIN x
  /\ "rx" \in DOMAIN x /\ "offset" \in DOMAIN x /\ "taken" \in DOMAIN x
IsPcb(x) ==
  /\ "state" \in DOMAIN x /\ "arg" \in DOMAIN x /\ "unacked" \in DOMAIN x
  /\ "received" \in DOMAIN x /\ "recved" \in DOMAIN x

Shaped(s) ==
  /\ "ctx" \in DOMAIN s /\ "pcb" \in DOMAIN s
  /\ DOMAIN s.ctx = Connections /\ \A c \in Connections : IsContext(s.ctx[c])
  /\ DOMAIN s.pcb = Connections /\ \A c \in Connections : IsPcb(s.pcb[c])

\* A connection is established for as long as its context uses it, and never has
\* more outstanding than its buffer holds.
Bound(x, y) ==
  /\ x.life \in {"none", "alive", "deleted"} /\ x.pcb \in BOOLEAN
  /\ x.send_waiting \in BOOLEAN
  /\ x.next \in Connections \cup {Null} /\ y.unacked \in 0 .. SendBuffer
  /\ x.pcb => x.life = "alive"
  /\ y.state = "established" <=> x.pcb

\* What an operation of a context may do to the two sides of a connection.
Kept(s, t) ==
  /\ Shaped(t)
  /\ \A c \in Connections :
       /\ Bound(t.ctx[c], t.pcb[c])
       /\ t.ctx[c].send_waiting = TRUE => s.ctx[c].send_waiting = TRUE
       /\ t.pcb[c].state = "established" => s.pcb[c].state = "established"
       /\ t.pcb[c].state = "connecting" =>
            s.pcb[c].state = "connecting" /\ t.pcb[c].arg = s.pcb[c].arg

AllBound(s) == Shaped(s) /\ \A c \in Connections : Bound(s.ctx[c], s.pcb[c])

LEMMA RecvedKeeps ==
  ASSUME NEW s, AllBound(s), NEW c, NEW n
  PROVE  Kept(s, Recved(s, c, n))
<1>1. CASE s.ctx[c].pcb
  <2> DEFINE t == [s EXCEPT !.pcb[c].recved = @ + n]
  <2>1. t.ctx = s.ctx /\ DOMAIN t.pcb = DOMAIN s.pcb /\ DOMAIN t = DOMAIN s
    BY DEF AllBound, Shaped
  <2>2. ASSUME NEW d \in Connections
        PROVE  DOMAIN t.pcb[d] = DOMAIN s.pcb[d]
               /\ t.pcb[d].state = s.pcb[d].state /\ t.pcb[d].arg = s.pcb[d].arg
               /\ t.pcb[d].unacked = s.pcb[d].unacked
    BY DEF AllBound, Shaped, IsPcb
  <2> HIDE DEF t
  <2>3. Kept(s, t)
    BY <2>1, <2>2 DEF AllBound, Kept, Shaped, IsContext, IsPcb, Bound
  <2> QED
    BY <1>1, <2>3 DEF Recved, t
<1>2. CASE ~s.ctx[c].pcb
  BY <1>2 DEF AllBound, Kept, Recved, Shaped, IsContext, IsPcb, Bound
<1> QED
  BY <1>1, <1>2

LEMMA KeptTwice ==
  ASSUME NEW s, NEW r, NEW t, Kept(s, r), Kept(r, t)
  PROVE  Kept(s, t)
  BY DEF Kept

LEMMA KeptIsBound == ASSUME NEW s, NEW t, Kept(s, t) PROVE AllBound(t)
  BY DEF Kept, AllBound

LEMMA SameIsKept == ASSUME NEW s, AllBound(s) PROVE Kept(s, s)
  BY DEF Kept, AllBound

LEMMA FlushKeeps ==
  ASSUME NEW s, AllBound(s), NEW c
  PROVE  Kept(s, Flush(s, c))
<1> DEFINE x == s.ctx[c]
           all == FlattenSeq(x.rx)
           r == Recved(s, c, TotLen(x.rx))
           rest == SubSeq(all, x.offset + 1, Len(all))
           t == [r EXCEPT !.ctx[c].rx = << >>, !.ctx[c].offset = 0,
                          !.ctx[c].taken = @ \o rest]
<1>1. Kept(s, r)
  BY RecvedKeeps
<1>2. AllBound(r)
  BY <1>1, KeptIsBound
<1> HIDE DEF r, rest
<1>3. Kept(r, t)
  <2>1. t.pcb = r.pcb /\ DOMAIN t.ctx = DOMAIN r.ctx /\ DOMAIN t = DOMAIN r
    BY <1>2 DEF AllBound, Shaped
  <2>2. ASSUME NEW d \in Connections
        PROVE  /\ DOMAIN t.ctx[d] = DOMAIN r.ctx[d]
               /\ t.ctx[d].life = r.ctx[d].life /\ t.ctx[d].pcb = r.ctx[d].pcb
               /\ t.ctx[d].send_waiting = r.ctx[d].send_waiting
               /\ t.ctx[d].next = r.ctx[d].next
    BY <1>2 DEF AllBound, Shaped, IsContext
  <2> HIDE DEF t
  <2> QED
    BY <1>2, <2>1, <2>2 DEF AllBound, Kept, Shaped, IsContext, IsPcb, Bound
<1>4. Kept(s, t)
  BY <1>1, <1>3, KeptTwice
<1>5. Flush(s, c) = IF x.rx = << >> THEN s ELSE t
  BY DEF Flush, r, rest
<1> QED
  BY <1>4, <1>5, SameIsKept

LEMMA CloseKeeps ==
  ASSUME NEW s, AllBound(s), NEW c
  PROVE  /\ Kept(s, Close(s, c))
         /\ c \in Connections => /\ Close(s, c).pcb[c].state # "established"
                                 /\ ~Close(s, c).ctx[c].pcb
<1>1. CASE s.ctx[c].pcb
  <2> DEFINE t == [s EXCEPT !.ctx[c].pcb = FALSE,
                            !.pcb[c].state = "closed", !.pcb[c].arg = Nobody]
  <2>1. DOMAIN t = DOMAIN s /\ DOMAIN t.ctx = DOMAIN s.ctx /\ DOMAIN t.pcb = DOMAIN s.pcb
    BY DEF AllBound, Shaped
  <2>2. ASSUME NEW d \in Connections
        PROVE  /\ DOMAIN t.ctx[d] = DOMAIN s.ctx[d] /\ DOMAIN t.pcb[d] = DOMAIN s.pcb[d]
               /\ t.ctx[d].life = s.ctx[d].life
               /\ t.ctx[d].send_waiting = s.ctx[d].send_waiting
               /\ t.ctx[d].pcb = IF d = c THEN FALSE ELSE s.ctx[d].pcb
               /\ t.pcb[d].state = IF d = c THEN "closed" ELSE s.pcb[d].state
               /\ d # c => t.pcb[d].arg = s.pcb[d].arg
    BY DEF AllBound, Shaped, IsContext, IsPcb
  <2>5. ASSUME NEW d \in Connections
        PROVE  /\ t.ctx[d].next = s.ctx[d].next
               /\ t.ctx[d].size_sent = s.ctx[d].size_sent
               /\ t.pcb[d].unacked = s.pcb[d].unacked
    BY DEF AllBound, Shaped, IsContext, IsPcb
  <2> HIDE DEF t
  <2>6. Shaped(t)
    BY <2>1, <2>2 DEF AllBound, Shaped, IsContext, IsPcb
  <2>7. ASSUME NEW d \in Connections PROVE Bound(t.ctx[d], t.pcb[d])
    <3>1. Bound(s.ctx[d], s.pcb[d])
      BY DEF AllBound
    <3>2. CASE d = c
      BY <2>2, <2>5, <3>1, <3>2 DEF Bound
    <3>3. CASE d # c
      BY <2>2, <2>5, <3>1, <3>3 DEF Bound
    <3> QED
      BY <3>2, <3>3
  <2>3. Kept(s, t)
    BY <2>2, <2>6, <2>7 DEF Kept
  <2>4. Close(s, c) = t
    BY <1>1 DEF Close, t
  <2> QED
    BY <2>2, <2>3, <2>4
<1>2. CASE ~s.ctx[c].pcb
  <2>1. Close(s, c) = s
    BY <1>2 DEF Close
  <2> QED
    BY <1>2, <2>1, SameIsKept DEF AllBound, Bound
<1> QED
  BY <1>1, <1>2

LEMMA RefKeeps ==
  ASSUME NEW s, AllBound(s), NEW c
  PROVE  Kept(s, Ref(s, c))
<1> DEFINE t == [s EXCEPT !.ctx[c].refs = @ + 1]
<1>1. t.pcb = s.pcb /\ DOMAIN t = DOMAIN s /\ DOMAIN t.ctx = DOMAIN s.ctx
  BY DEF AllBound, Shaped
<1>2. ASSUME NEW d \in Connections
      PROVE  /\ DOMAIN t.ctx[d] = DOMAIN s.ctx[d]
             /\ t.ctx[d].life = s.ctx[d].life /\ t.ctx[d].pcb = s.ctx[d].pcb
             /\ t.ctx[d].send_waiting = s.ctx[d].send_waiting
             /\ t.ctx[d].next = s.ctx[d].next
  BY DEF AllBound, Shaped, IsContext
<1> HIDE DEF t
<1>3. Kept(s, t)
  BY <1>1, <1>2 DEF AllBound, Kept, Shaped, IsContext, IsPcb, Bound
<1> QED
  BY <1>3, SameIsKept DEF Ref, t

LEMMA UnrefKeeps ==
  ASSUME NEW s, AllBound(s), NEW c
  PROVE  Kept(s, Unref(s, c))
<1> DEFINE t1 == [s EXCEPT !.ctx[c].refs = @ - 1]
           k == Close(Flush(s, c), c)
           x == [NoContext EXCEPT !.life = "deleted"]
           y == [NoPcb EXCEPT !.state = k.pcb[c].state, !.arg = k.pcb[c].arg]
           t2 == [s EXCEPT !.ctx[c] = x, !.pcb[c] = y]
<1>1. Kept(s, t1)
  <2>1. t1.pcb = s.pcb /\ DOMAIN t1 = DOMAIN s /\ DOMAIN t1.ctx = DOMAIN s.ctx
    BY DEF AllBound, Shaped
  <2>2. ASSUME NEW d \in Connections
        PROVE  /\ DOMAIN t1.ctx[d] = DOMAIN s.ctx[d]
               /\ t1.ctx[d].life = s.ctx[d].life /\ t1.ctx[d].pcb = s.ctx[d].pcb
               /\ t1.ctx[d].send_waiting = s.ctx[d].send_waiting
               /\ t1.ctx[d].next = s.ctx[d].next
    BY DEF AllBound, Shaped, IsContext
  <2> HIDE DEF t1
  <2> QED
    BY <2>1, <2>2 DEF AllBound, Kept, Shaped, IsContext, IsPcb, Bound
<1>2. Kept(s, t2)
  <2>1. Kept(s, k)
    BY FlushKeeps, KeptIsBound, CloseKeeps, KeptTwice
  <2>2. c \in Connections => k.pcb[c].state # "established"
    BY FlushKeeps, KeptIsBound, CloseKeeps
  <2>3. c \in Connections /\ k.pcb[c].state = "connecting" =>
          s.pcb[c].state = "connecting" /\ k.pcb[c].arg = s.pcb[c].arg
    BY <2>1 DEF Kept
  <2> HIDE DEF k
  <2>4. IsContext(x) /\ x.life = "deleted" /\ x.pcb = FALSE /\ x.send_waiting = FALSE
      /\ x.next \in Connections \cup {Null}
    BY DEF NoContext, IsContext
  <2>5. IsPcb(y) /\ y.state = k.pcb[c].state /\ y.arg = k.pcb[c].arg
      /\ y.unacked \in 0 .. SendBuffer
    BY TcpAssumption DEF NoPcb, IsPcb
  <2> HIDE DEF x, y
  <2>6. DOMAIN t2 = DOMAIN s /\ DOMAIN t2.ctx = DOMAIN s.ctx /\ DOMAIN t2.pcb = DOMAIN s.pcb
    BY DEF AllBound, Shaped
  <2>7. ASSUME NEW d \in Connections
        PROVE  /\ t2.ctx[d] = IF d = c THEN x ELSE s.ctx[d]
               /\ t2.pcb[d] = IF d = c THEN y ELSE s.pcb[d]
    BY DEF AllBound, Shaped
  <2> HIDE DEF t2
  <2> QED
    BY <2>2, <2>3, <2>4, <2>5, <2>6, <2>7 DEF AllBound, Kept, Shaped, Bound
<1>3. \/ Unref(s, c) = s \/ Unref(s, c) = t1 \/ Unref(s, c) = t2
  BY DEF Unref
<1> QED
  BY <1>1, <1>2, <1>3, SameIsKept
-----------------------------------------------------------------------------
(***************************************************************************)
(* The steps.                                                              *)
(***************************************************************************)
\* An event is under way only for the wait the task is in: the timer for a write
\* or a delay, an acknowledgment for the writer, an answer for connect.
Waits ==
  /\ queue \in {0, 1} /\ timer \in BOOLEAN
  /\ Running => queue = 0
  /\ timer => task.at \in {"write", "delay"}
  /\ \A c \in Connections :
       /\ ctx[c].send_waiting = TRUE => task.at = "write" /\ task.conn = c
       /\ pcb[c].state = "connecting" =>
            /\ queue = 0 /\ task.at = "connect"
            /\ task.conn = c /\ task.client = pcb[c].arg

TcpInv == AllBound(State) /\ Waits

\* A step that leaves the task and the events alone.
LEMMA QuietStep ==
  ASSUME TcpInv, Kept(State, State'), UNCHANGED <<task, queue, timer>>
  PROVE  TcpInv'
  BY KeptIsBound DEF TcpInv, Waits, State, Kept, AllBound, Running

LEMMA BecomesIsKept ==
  ASSUME NEW t, Kept(State, t), Becomes(t)
  PROVE  Kept(State, State')
<1>1. State' = [ctx |-> t.ctx, pcb |-> t.pcb]
  BY DEF State, Becomes
<1> DEFINE u == [ctx |-> t.ctx, pcb |-> t.pcb]
<1>2. DOMAIN u = {"ctx", "pcb"} /\ u.ctx = t.ctx /\ u.pcb = t.pcb
  OBVIOUS
<1> HIDE DEF u
<1>3. Kept(State, u)
  BY <1>2 DEF Kept, Shaped
<1> QED
  BY <1>1, <1>3 DEF u

\* The two sides after a step.
LEMMA Changed ==
  ASSUME NEW c2, NEW p2, ctx' = c2, pcb' = p2,
         DOMAIN c2 = Connections, DOMAIN p2 = Connections,
         \A d \in Connections : IsContext(c2[d]) /\ IsPcb(p2[d]),
         \A d \in Connections : Bound(c2[d], p2[d])
  PROVE  AllBound(State')
<1> DEFINE s == [ctx |-> c2, pcb |-> p2]
<1>1. State' = s
  BY DEF State
<1>2. DOMAIN s = {"ctx", "pcb"} /\ s.ctx = c2 /\ s.pcb = p2
  OBVIOUS
<1> HIDE DEF s
<1> QED
  BY <1>1, <1>2 DEF AllBound, Shaped

\* A callback of lwIP or of the timer, which may bring the event of the wait.
LEMMA Event ==
  ASSUME TcpInv, AllBound(State'), task' = task, timer' = timer \/ timer' = FALSE,
         queue' = queue \/ (queue' = 1 /\ ~Running),
         \A d \in Connections :
           ctx'[d].send_waiting = TRUE => ctx[d].send_waiting = TRUE,
         \A d \in Connections :
           pcb'[d].state = "connecting" =>
             /\ pcb[d].state = "connecting" /\ pcb'[d].arg = pcb[d].arg
             /\ queue' = queue
  PROVE  TcpInv'
<1>1. queue' \in {0, 1} /\ timer' \in BOOLEAN /\ (Running' => queue' = 0)
  BY DEF TcpInv, Waits, Running
<1>2. timer' => task'.at \in {"write", "delay"}
  BY DEF TcpInv, Waits
<1>3. ASSUME NEW d \in Connections
      PROVE  /\ ctx'[d].send_waiting = TRUE => task'.at = "write" /\ task'.conn = d
             /\ pcb'[d].state = "connecting" =>
                  /\ queue' = 0 /\ task'.at = "connect"
                  /\ task'.conn = d /\ task'.client = pcb'[d].arg
  BY DEF TcpInv, Waits
<1> QED
  BY <1>1, <1>2, <1>3 DEF TcpInv, Waits, State

LEMMA Schedules == TcpInv /\ esp_schedule => queue' = 1
  BY DEF TcpInv, Waits, esp_schedule, Lesser, QueueSize

LEMMA Sketch ==
  ASSUME TcpInv, NEW h \in Clients, NEW g \in Clients, NEW n,
         available(h) \/ stop(h) \/ flush(h) \/ assign(h, g) \/ read(h, n)
  PROVE  TcpInv'
<1>1. AllBound(State)
  BY DEF TcpInv
<1>2. UNCHANGED <<task, queue, timer>>
  BY DEF available, stop, flush, assign, read
<1>3. CASE available(h)
  <2>1. Kept(State, Ref(State, unclaimed))
    BY <1>1, RefKeeps
  <2> QED
    BY <1>2, <1>3, <2>1, BecomesIsKept, QuietStep DEF available
<1>4. CASE stop(h)
  <2>1. Kept(State, Unref(State, handle[h]))
    BY <1>1, UnrefKeeps
  <2> QED
    BY <1>2, <1>4, <2>1, BecomesIsKept, QuietStep DEF stop
<1>5. CASE flush(h)
  <2>1. Kept(State, Flush(State, handle[h]))
    BY <1>1, FlushKeeps
  <2> QED
    BY <1>2, <1>5, <2>1, BecomesIsKept, QuietStep DEF flush
<1>6. CASE assign(h, g)
  <2>1. Kept(State, Unref(State, handle[h]))
    BY <1>1, UnrefKeeps
  <2>2. Kept(Unref(State, handle[h]), Ref(Unref(State, handle[h]), handle[g]))
    BY <2>1, KeptIsBound, RefKeeps
  <2>3. Kept(State, Assigned(State, handle[h], handle[g]))
    BY <2>1, <2>2, KeptTwice DEF Assigned
  <2> QED
    BY <1>2, <1>6, <2>3, BecomesIsKept, QuietStep DEF assign
<1>7. CASE read(h, n)
  <2> DEFINE c == handle[h]
             x == Read([rx |-> ctx[c].rx, offset |-> ctx[c].offset,
                        taken |-> ctx[c].taken, recved |-> 0], n)
             r == Recved(State, c, x.recved)
             c2 == [ctx EXCEPT ![c].rx = x.rx, ![c].offset = x.offset,
                               ![c].taken = x.taken]
             t == [ctx |-> c2, pcb |-> r.pcb]
  <2>1. ctx' = c2 /\ pcb' = r.pcb
    BY <1>7 DEF read
  <2>2. Kept(State, r)
    BY <1>1, RecvedKeeps
  <2> HIDE DEF r, x, c
  <2>3. DOMAIN c2 = Connections
    BY <1>1 DEF AllBound, Shaped, State
  <2>4. ASSUME NEW d \in Connections
        PROVE  /\ DOMAIN c2[d] = DOMAIN ctx[d]
               /\ c2[d].life = ctx[d].life /\ c2[d].pcb = ctx[d].pcb
               /\ c2[d].send_waiting = ctx[d].send_waiting
               /\ c2[d].next = ctx[d].next
    BY <1>1 DEF AllBound, Shaped, IsContext, State
  <2>5. ASSUME NEW d \in Connections
        PROVE  r.pcb[d].state = "established" <=> ctx[d].pcb
    <3>1. Recved(State, c, x.recved).ctx = State.ctx
      BY <1>1 DEF Recved, AllBound, Shaped, State
    <3> QED
      BY <2>2, <3>1 DEF r, Kept, Bound, State
  <2> HIDE DEF c2
  <2>6. DOMAIN t = {"ctx", "pcb"} /\ t.ctx = c2 /\ t.pcb = r.pcb
    OBVIOUS
  <2> HIDE DEF t
  <2>7. Kept(State, t)
    BY <1>1, <2>2, <2>3, <2>4, <2>5, <2>6 DEF AllBound, Kept, Shaped, IsContext, Bound, State
  <2> QED
    BY <1>2, <2>1, <2>6, <2>7, BecomesIsKept, QuietStep DEF Becomes
<1> QED
  BY <1>3, <1>4, <1>5, <1>6, <1>7

LEMMA Write ==
  ASSUME TcpInv, NEW h \in Clients, NEW n \in WriteSizes, write(h, n),
         ~UNCHANGED tcpVars
  PROVE  TcpInv'
<1> DEFINE c == handle[h]
           will == Lesser(SendBuffer - pcb[c].unacked, n)
           counted == Counted(n, will)
           c2 == [ctx EXCEPT ![c].size_sent = counted, ![c].send_waiting = TRUE]
           p2 == [pcb EXCEPT ![c].unacked = pcb[c].unacked + will]
<1>1. ctx' = c2 /\ pcb' = p2 /\ queue' = queue /\ timer' = TRUE /\ ctx[c].pcb
  BY Zenon DEF write
<1>2. task' = [at |-> "write", client |-> h, conn |-> c, leftover |-> pcb[c].unacked > 0]
  BY Zenon DEF write
<1>3. task'.at = "write" /\ task'.conn = c /\ ~Running'
  BY <1>2 DEF Running
<1>4. Running /\ queue \in {0, 1} /\ AllBound(State)
  BY DEF write, TcpInv, Waits
<1>5. ASSUME NEW d \in Connections
      PROVE  ctx[d].send_waiting = FALSE /\ pcb[d].state # "connecting"
  BY <1>4 DEF TcpInv, Waits, Running, AllBound, Bound, State
<1> DEFINE both == pcb[c].unacked + will
<1>10. c \in Connections => both \in 0 .. SendBuffer
  <2>1. c \in Connections => pcb[c].unacked \in 0 .. SendBuffer
    BY <1>4 DEF AllBound, Bound, State
  <2>2. SendBuffer \in Nat /\ n \in Nat
    BY TcpAssumption
  <2> DEFINE u == pcb[c].unacked
  <2> HIDE DEF u, c
  <2>3. u \in 0 .. SendBuffer => u + Lesser(SendBuffer - u, n) \in 0 .. SendBuffer
    BY <2>2 DEF Lesser
  <2> QED
    BY <2>1, <2>3 DEF u
<1> HIDE DEF c, counted, will
<1>6. DOMAIN c2 = Connections /\ DOMAIN p2 = Connections
  BY <1>4 DEF AllBound, Shaped, State
<1>7. ASSUME NEW d \in Connections
      PROVE  /\ DOMAIN c2[d] = DOMAIN ctx[d] /\ DOMAIN p2[d] = DOMAIN pcb[d]
             /\ c2[d].life = ctx[d].life /\ c2[d].pcb = ctx[d].pcb
             /\ c2[d].send_waiting \in BOOLEAN
             /\ c2[d].send_waiting = TRUE => d = c
             /\ p2[d].state = pcb[d].state /\ p2[d].arg = pcb[d].arg
             /\ c2[d].next = ctx[d].next
             /\ p2[d].unacked = IF d = c THEN both ELSE pcb[d].unacked
  <2> HIDE DEF both
  <2>1. p2 = [pcb EXCEPT ![c].unacked = both]
    BY DEF both
  <2> HIDE DEF p2
  <2> QED
    BY <1>4, <1>5, <2>1 DEF AllBound, Shaped, IsContext, IsPcb, State
<1> HIDE DEF both
<1> HIDE DEF c2, p2
<1>8. AllBound(State')
  <2>1. ASSUME NEW d \in Connections PROVE Bound(c2[d], p2[d])
    <3>1. Bound(ctx[d], pcb[d])
      BY <1>4 DEF AllBound, State
    <3>2. CASE d = c
      BY <1>7, <1>10, <3>1, <3>2 DEF Bound
    <3>3. CASE d # c
      BY <1>7, <1>10, <3>1, <3>3 DEF Bound
    <3> QED
      BY <3>2, <3>3
  <2>2. \A d \in Connections : IsContext(c2[d]) /\ IsPcb(p2[d])
    BY <1>4, <1>7 DEF AllBound, Shaped, IsContext, IsPcb, State
  <2> QED
    BY <1>1, <1>6, <2>1, <2>2, Changed
<1>11. \A d \in Connections : c2[d].send_waiting = TRUE => d = c
  BY <1>7
<1>12. \A d \in Connections : p2[d].state # "connecting"
  BY <1>5, <1>7
<1>9. Waits'
  BY <1>1, <1>3, <1>4, <1>11, <1>12 DEF Waits
<1> QED
  BY <1>8, <1>9 DEF TcpInv, State

\* What holds of every wait in which nothing is being connected or written.
LEMMA Free ==
  ASSUME TcpInv, Running \/ task.at = "dns"
  PROVE  /\ \A d \in Connections :
               ctx[d].send_waiting = FALSE /\ pcb[d].state # "connecting"
         /\ timer = FALSE
  BY DEF TcpInv, Waits, Running, AllBound, Bound, State

\* What connect(ip) makes of the pcb c for the client h, if it gets one: a pcb that
\* is to be connected, or one that is never heard of.
Asked(s, h, c, p) ==
  /\ DOMAIN p = Connections
  /\ \A d \in Connections : d # c => p[d] = s.pcb[d]
  /\ p[c].state \in {"connecting", "unconnected"}
  /\ p[c].state = "connecting" => p[c].arg = h
  /\ DOMAIN p[c] = DOMAIN s.pcb[c]
  /\ p[c].unacked = s.pcb[c].unacked /\ p[c].received = s.pcb[c].received
  /\ p[c].recved = s.pcb[c].recved

LEMMA Starts ==
  ASSUME AllBound(State), NEW h, startConnect(h)
  PROVE  LET s == Unref(State, handle[h])
         IN  /\ ctx' = s.ctx /\ handle' = [handle EXCEPT ![h] = Null]
             /\ unclaimed' = unclaimed /\ timer' = timer
             /\ \/ pcb' = s.pcb /\ task' = RunTask
                \/ \E c \in Fresh : /\ Asked(s, h, c, pcb')
                                    /\ task' = [Wait("connect") EXCEPT !.client = h, !.conn = c]
<1> DEFINE s == Unref(State, handle[h])
<1>1. Kept(State, s)
  BY UnrefKeeps
<1>2. /\ ctx' = s.ctx /\ handle' = [handle EXCEPT ![h] = Null]
      /\ unclaimed' = unclaimed /\ timer' = timer
      /\ \/ pcb' = s.pcb /\ task' = RunTask
         \/ \E c \in Fresh :
              /\ \/ pcb' = [s.pcb EXCEPT ![c].state = "connecting", ![c].arg = h]
                 \/ pcb' = [s.pcb EXCEPT ![c].state = "unconnected"]
              /\ task' = [Wait("connect") EXCEPT !.client = h, !.conn = c]
  BY DEF startConnect
<1> HIDE DEF s
<1>3. ASSUME NEW c \in Fresh,
             \/ pcb' = [s.pcb EXCEPT ![c].state = "connecting", ![c].arg = h]
             \/ pcb' = [s.pcb EXCEPT ![c].state = "unconnected"]
      PROVE  Asked(s, h, c, pcb')
  <2>1. c \in Connections /\ DOMAIN s.pcb = Connections /\ IsPcb(s.pcb[c])
    BY <1>1 DEF Fresh, Kept, Shaped
  <2>2. CASE pcb' = [s.pcb EXCEPT ![c].state = "connecting", ![c].arg = h]
    BY <2>1, <2>2 DEF Asked, IsPcb
  <2>3. CASE pcb' = [s.pcb EXCEPT ![c].state = "unconnected"]
    BY <2>1, <2>3 DEF Asked, IsPcb
  <2> QED
    BY <1>3, <2>2, <2>3
<1> QED
  BY <1>2, <1>3 DEF s

LEMMA StartsAt ==
  ASSUME NEW h, startConnect(h)
  PROVE  task'.at \in {"connect", "running"}
<1>1. RunTask.at = "running"
  BY DEF RunTask
<1>2. ASSUME NEW c PROVE [Wait("connect") EXCEPT !.client = h, !.conn = c].at = "connect"
  BY DEF Wait, RunTask
<1>3. \/ task' = RunTask
      \/ \E c : task' = [Wait("connect") EXCEPT !.client = h, !.conn = c]
  BY Zenon DEF startConnect
<1> QED
  BY <1>1, <1>2, <1>3

LEMMA StartConnect ==
  ASSUME TcpInv, NEW h, Running \/ task.at = "dns", startConnect(h), queue' = 0
  PROVE  TcpInv'
<1> DEFINE s == Unref(State, handle[h])
<1>1. AllBound(State)
  BY DEF TcpInv
<1>2. Kept(State, s)
  BY <1>1, UnrefKeeps
<1>3. /\ ctx' = s.ctx /\ timer' = timer
      /\ \/ pcb' = s.pcb /\ task' = RunTask
         \/ \E c \in Fresh : /\ Asked(s, h, c, pcb')
                             /\ task' = [Wait("connect") EXCEPT !.client = h, !.conn = c]
  BY <1>1, Starts
<1> HIDE DEF s
<1>4. /\ timer = FALSE
      /\ \A d \in Connections : s.ctx[d].send_waiting # TRUE /\ s.pcb[d].state # "connecting"
  BY <1>2, Free DEF Kept, State
<1>5. CASE pcb' = s.pcb /\ task' = RunTask
  <2>1. task'.at = "running"
    BY <1>5 DEF RunTask
  <2>2. AllBound(State')
    BY <1>2, <1>3, <1>5 DEF Kept, AllBound, Shaped, State
  <2>3. Waits'
    BY <1>3, <1>4, <1>5, <2>1 DEF Waits, Running
  <2> QED
    BY <2>2, <2>3 DEF TcpInv, State
<1>6. CASE \E c \in Fresh : /\ Asked(s, h, c, pcb')
                            /\ task' = [Wait("connect") EXCEPT !.client = h, !.conn = c]
  <2>1. PICK c \in Fresh : /\ Asked(s, h, c, pcb')
                           /\ task' = [Wait("connect") EXCEPT !.client = h, !.conn = c]
    BY <1>6
  <2>2. c \in Connections /\ pcb[c].state = "none"
    BY DEF Fresh
  <2>3. s.pcb[c].state # "established"
    BY <1>2, <2>2 DEF Kept, State
  <2>4. task'.at = "connect" /\ task'.conn = c /\ task'.client = h
    BY <2>1 DEF Wait, RunTask
  <2>5. DOMAIN pcb' = Connections
    BY <2>1 DEF Asked
  <2>6. ASSUME NEW d \in Connections
        PROVE  /\ DOMAIN pcb'[d] = DOMAIN s.pcb[d] /\ pcb'[d].unacked = s.pcb[d].unacked
               /\ d # c => pcb'[d] = s.pcb[d]
               /\ d = c => pcb'[d].state \in {"connecting", "unconnected"}
               /\ d = c /\ pcb'[d].state = "connecting" => pcb'[d].arg = h
    BY <2>1 DEF Asked
  <2>7. AllBound(State')
    <3>1. State'.ctx = s.ctx /\ State'.pcb = pcb'
      BY <1>3 DEF State
    <3>2. Shaped(State')
      <4>1. DOMAIN State' = {"ctx", "pcb"}
        BY DEF State
      <4>2. DOMAIN s.ctx = Connections /\ DOMAIN s.pcb = Connections
            /\ \A d \in Connections : IsContext(s.ctx[d]) /\ IsPcb(s.pcb[d])
        BY <1>2 DEF Kept, Shaped
      <4>3. \A d \in Connections : IsPcb(pcb'[d])
        BY <2>6, <4>2 DEF IsPcb
      <4> QED
        BY <2>5, <3>1, <4>1, <4>2, <4>3 DEF Shaped
    <3>3. ASSUME NEW d \in Connections PROVE Bound(State'.ctx[d], State'.pcb[d])
      BY <1>2, <2>3, <2>6, <3>1 DEF Kept, AllBound, Bound
    <3> QED
      BY <3>2, <3>3 DEF AllBound
  <2>8. Waits'
    BY <1>3, <1>4, <2>4, <2>6 DEF Waits, Running
  <2> QED
    BY <2>7, <2>8 DEF TcpInv, State
<1> QED
  BY <1>3, <1>5, <1>6

LEMMA OtherWaits ==
  ASSUME TcpInv, yield \/ delay \/ \E h \in Clients : connect(h)
  PROVE  TcpInv'
<1>1. Running /\ queue = 0
  BY DEF TcpInv, Waits, yield, delay, connect
<1>2. CASE yield
  <2>1. task'.at = "yield" /\ UNCHANGED <<ctx, pcb, timer>> /\ queue' = 1
    BY <1>2, Schedules DEF yield, Wait, RunTask
  <2> QED
    BY <1>1, <2>1, Free DEF TcpInv, Waits, State, Running
<1>3. CASE delay
  <2>1. task'.at = "delay" /\ UNCHANGED <<ctx, pcb, queue>> /\ timer' = TRUE
    BY <1>3 DEF delay, Wait, RunTask
  <2> QED
    BY <1>1, <2>1, Free DEF TcpInv, Waits, State, Running
<1>4. ASSUME NEW h \in Clients, connect(h) PROVE TcpInv'
  <2>1. CASE startConnect(h) /\ UNCHANGED queue
    BY <1>1, <2>1, StartConnect
  <2>2. CASE /\ task' = [Wait("dns") EXCEPT !.client = h]
             /\ UNCHANGED <<ctx, pcb, handle, unclaimed, queue, timer>>
    <3>1. task'.at = "dns"
      BY <2>2 DEF Wait, RunTask
    <3> QED
      BY <1>1, <2>2, <3>1, Free DEF TcpInv, Waits, State, Running
  <2> QED
    BY <1>4, <2>1, <2>2 DEF connect
<1> QED
  BY <1>2, <1>3, <1>4

LEMMA Resume == TcpInv /\ resume => TcpInv'
<1> SUFFICES ASSUME TcpInv, resume PROVE TcpInv'
  OBVIOUS
<1>1. ~Running /\ queue = 1 /\ queue' = 0
  BY DEF resume, TcpInv, Waits
<1>2. CASE task.at = "dns" /\ startConnect(task.client)
  BY <1>1, <1>2, StartConnect
<1>3. CASE /\ task' = RunTask
           /\ timer' = IF task.at \in {"write", "delay"} THEN FALSE ELSE timer
           /\ ctx' = IF task.at = "write"
                     THEN [ctx EXCEPT ![task.conn].send_waiting = FALSE] ELSE ctx
           /\ UNCHANGED <<pcb, handle, unclaimed>>
  <2>1. timer' = FALSE
    BY <1>3 DEF TcpInv, Waits
  <2>2. Running'
    BY <1>3 DEF Running, RunTask
  <2>3. AllBound(State) /\ \A d \in Connections : pcb[d].state # "connecting"
    BY <1>1 DEF TcpInv, Waits
  <2>4. CASE task.at = "write"
    <3> DEFINE c2 == [ctx EXCEPT ![task.conn].send_waiting = FALSE]
    <3>1. DOMAIN c2 = Connections
      BY <2>3 DEF AllBound, Shaped, State
    <3>2. ASSUME NEW d \in Connections
          PROVE  /\ DOMAIN c2[d] = DOMAIN ctx[d]
                 /\ c2[d].life = ctx[d].life /\ c2[d].pcb = ctx[d].pcb
                 /\ c2[d].send_waiting = FALSE /\ c2[d].next = ctx[d].next
      <4>1. d # task.conn => ctx[d].send_waiting = FALSE
        BY DEF TcpInv, Waits, AllBound, Bound, State
      <4> QED
        BY <2>3, <4>1 DEF AllBound, Shaped, IsContext, State
    <3>3. ctx' = c2 /\ pcb' = pcb
      BY <1>3, <2>4
    <3> HIDE DEF c2
    <3>4. AllBound(State')
      BY <2>3, <3>1, <3>2, <3>3 DEF AllBound, Shaped, IsContext, IsPcb, Bound, State
    <3> QED
      BY <1>1, <2>1, <2>3, <3>2, <3>3, <3>4 DEF TcpInv, Waits, State
  <2>5. CASE task.at # "write"
    <3>1. UNCHANGED <<ctx, pcb>> /\ \A d \in Connections : ctx[d].send_waiting # TRUE
      BY <1>3, <2>5 DEF TcpInv, Waits
    <3> QED
      BY <1>1, <2>1, <2>3, <3>1 DEF TcpInv, Waits, State
  <2> QED
    BY <2>4, <2>5
<1> QED
  BY <1>2, <1>3 DEF resume

LEMMA Accept == TcpInv /\ accept => TcpInv'
<1> SUFFICES ASSUME TcpInv, accept PROVE TcpInv'
  OBVIOUS
<1>1. PICK c \in Fresh :
        /\ ctx' = Appended([ctx EXCEPT ![c] = ClientContext(0)], c)
        /\ pcb' = [pcb EXCEPT ![c].state = "established", ![c].arg = ToContext]
  BY DEF accept
<1>2. UNCHANGED <<task, queue, timer>> /\ AllBound(State)
  BY DEF accept, TcpInv
<1>3. c \in Connections
  BY DEF Fresh
<1> DEFINE new == ClientContext(0)
           c1 == [ctx EXCEPT ![c] = new]
           k == LastOf[unclaimed]
           c2 == [c1 EXCEPT ![k].next = c]
           p2 == [pcb EXCEPT ![c].state = "established", ![c].arg = ToContext]
<1>4. /\ IsContext(new) /\ new.next = Null
      /\ new.life = "alive" /\ new.pcb = TRUE /\ new.send_waiting = FALSE
  BY DEF ClientContext, NoContext, IsContext
<1>5. ctx' = c1 \/ ctx' = c2
  BY <1>1 DEF Appended
<1> HIDE DEF new, k
<1>6. DOMAIN ctx' = Connections
  <2>1. DOMAIN c1 = Connections
    BY <1>2 DEF AllBound, Shaped, State
  <2> QED
    BY <1>5, <2>1
<1>7. ASSUME NEW d \in Connections
      PROVE  /\ IsContext(ctx'[d])
             /\ ctx'[d].life = IF d = c THEN "alive" ELSE ctx[d].life
             /\ ctx'[d].pcb = IF d = c THEN TRUE ELSE ctx[d].pcb
             /\ ctx'[d].send_waiting = IF d = c THEN FALSE ELSE ctx[d].send_waiting
             /\ ctx'[d].next \in Connections \cup {Null}
  <2>1. /\ IsContext(c1[d])
        /\ c1[d].life = IF d = c THEN "alive" ELSE ctx[d].life
        /\ c1[d].pcb = IF d = c THEN TRUE ELSE ctx[d].pcb
        /\ c1[d].send_waiting = IF d = c THEN FALSE ELSE ctx[d].send_waiting
        /\ c1[d].next \in Connections \cup {Null}
    BY <1>2, <1>4 DEF AllBound, Shaped, IsContext, Bound, State
  <2>2. DOMAIN c1 = Connections
    BY <1>2 DEF AllBound, Shaped, State
  <2> HIDE DEF c1
  <2>3. /\ DOMAIN c2[d] = DOMAIN c1[d]
        /\ c2[d].life = c1[d].life /\ c2[d].pcb = c1[d].pcb
        /\ c2[d].send_waiting = c1[d].send_waiting
        /\ c2[d].next \in {c1[d].next, c}
    BY <2>1, <2>2 DEF IsContext
  <2> HIDE DEF c2
  <2> QED
    BY <1>3, <1>5, <2>1, <2>3 DEF IsContext
<1>8. DOMAIN p2 = Connections
  BY <1>2 DEF AllBound, Shaped, State
<1>9. ASSUME NEW d \in Connections
      PROVE  /\ IsPcb(p2[d])
             /\ p2[d].state = IF d = c THEN "established" ELSE pcb[d].state
             /\ d # c => p2[d].arg = pcb[d].arg
             /\ p2[d].unacked = pcb[d].unacked
  BY <1>2 DEF AllBound, Shaped, IsPcb, State
<1>10. pcb' = p2
  BY <1>1
<1> HIDE DEF p2
<1> HIDE DEF c1, c2
<1>11. ASSUME NEW d \in Connections PROVE Bound(ctx'[d], p2[d])
  <2>1. Bound(ctx[d], pcb[d])
    BY <1>2 DEF AllBound, State
  <2>2. CASE d = c
    BY <1>7, <1>9, <2>1, <2>2 DEF Bound
  <2>3. CASE d # c
    BY <1>7, <1>9, <2>1, <2>3 DEF Bound
  <2> QED
    BY <2>2, <2>3
<1>12. AllBound(State')
  BY <1>6, <1>7, <1>8, <1>9, <1>10, <1>11 DEF AllBound, Shaped, State
<1> QED
  BY <1>2, <1>7, <1>9, <1>10, <1>12, Event DEF TcpInv, Waits

LEMMA Receive ==
  ASSUME TcpInv, NEW c \in Connections, NEW n, receive(c, n)
  PROVE  TcpInv'
<1> DEFINE rx2 == Append(ctx[c].rx, [i \in 1 .. n |-> pcb[c].received + i])
           sum == pcb[c].received + n
           c2 == [ctx EXCEPT ![c].rx = rx2]
           p2 == [pcb EXCEPT ![c].received = sum]
<1>1. ctx' = c2 /\ pcb' = p2 /\ UNCHANGED <<task, queue, timer>> /\ AllBound(State)
  BY DEF receive, TcpInv
<1> HIDE DEF rx2, sum
<1>2. DOMAIN c2 = Connections /\ DOMAIN p2 = Connections
  BY <1>1 DEF AllBound, Shaped, State
<1>3. ASSUME NEW d \in Connections
      PROVE  /\ DOMAIN c2[d] = DOMAIN ctx[d] /\ DOMAIN p2[d] = DOMAIN pcb[d]
             /\ c2[d].life = ctx[d].life /\ c2[d].pcb = ctx[d].pcb
             /\ c2[d].send_waiting = ctx[d].send_waiting
             /\ c2[d].next = ctx[d].next
             /\ p2[d].state = pcb[d].state /\ p2[d].arg = pcb[d].arg
             /\ p2[d].unacked = pcb[d].unacked
  BY <1>1 DEF AllBound, Shaped, IsContext, IsPcb, State
<1> HIDE DEF c2, p2
<1>4. ASSUME NEW d \in Connections PROVE Bound(c2[d], p2[d])
  <2>1. Bound(ctx[d], pcb[d])
    BY <1>1 DEF AllBound, State
  <2>2. CASE d = c
    BY <1>3, <2>1, <2>2 DEF Bound
  <2>3. CASE d # c
    BY <1>3, <2>1, <2>3 DEF Bound
  <2> QED
    BY <2>2, <2>3
<1>5. \A d \in Connections : IsContext(c2[d]) /\ IsPcb(p2[d])
  BY <1>1, <1>3 DEF AllBound, Shaped, IsContext, IsPcb, State
<1>6. AllBound(State')
  BY <1>1, <1>2, <1>4, <1>5, Changed
<1> QED
  BY <1>1, <1>3, <1>6, Event

LEMMA ClosedOrError ==
  ASSUME TcpInv, NEW c \in Connections, closedByPeer(c) \/ error(c)
  PROVE  TcpInv'
<1>1. AllBound(State) /\ UNCHANGED <<task, timer>> /\ ~Running
  BY DEF TcpInv, closedByPeer, error, Callback
<1>2. Kept(State, State')
  BY <1>1, CloseKeeps, BecomesIsKept DEF closedByPeer, error
<1>3. AllBound(State')
  BY <1>2, KeptIsBound
<1>4. /\ \A d \in Connections : ctx'[d].send_waiting = TRUE => ctx[d].send_waiting = TRUE
      /\ \A d \in Connections :
           pcb'[d].state = "connecting" =>
             pcb[d].state = "connecting" /\ pcb'[d].arg = pcb[d].arg
  BY <1>2 DEF Kept, State
<1>5. CASE queue' = queue
  BY <1>1, <1>3, <1>4, <1>5, Event
<1>6. CASE ctx[c].send_waiting /\ esp_schedule
  <2>1. ctx[c].send_waiting = TRUE
    BY <1>1, <1>6 DEF AllBound, Bound, State
  <2>2. \A d \in Connections : pcb[d].state # "connecting"
    BY <2>1 DEF TcpInv, Waits
  <2>3. queue' = 1
    BY <1>6, Schedules
  <2> QED
    BY <1>1, <1>3, <1>4, <2>2, <2>3, Event
<1> QED
  BY <1>5, <1>6 DEF closedByPeer, error

LEMMA Sent ==
  ASSUME TcpInv, NEW c \in Connections, NEW n \in Sizes, sent(c, n)
  PROVE  TcpInv'
<1> DEFINE left == (ctx[c].size_sent - n) % SizeMod
           less == pcb[c].unacked - n
           c2 == [ctx EXCEPT ![c].size_sent = left]
           p2 == [pcb EXCEPT ![c].unacked = less]
<1>1. ctx' = c2 /\ pcb' = p2 /\ UNCHANGED <<task, timer>> /\ AllBound(State) /\ ~Running
  BY DEF sent, TcpInv, Callback
<1>2. queue' = queue \/ (ctx[c].send_waiting /\ esp_schedule)
  BY DEF sent, WakesWriter
<1>10. less \in 0 .. SendBuffer
  <2>1. pcb[c].unacked \in 0 .. SendBuffer /\ n <= pcb[c].unacked
    BY <1>1 DEF AllBound, Bound, State, sent
  <2> QED
    BY <2>1, TcpAssumption
<1> HIDE DEF left, less
<1>3. DOMAIN c2 = Connections /\ DOMAIN p2 = Connections
  BY <1>1 DEF AllBound, Shaped, State
<1>4. ASSUME NEW d \in Connections
      PROVE  /\ DOMAIN c2[d] = DOMAIN ctx[d] /\ DOMAIN p2[d] = DOMAIN pcb[d]
             /\ c2[d].life = ctx[d].life /\ c2[d].pcb = ctx[d].pcb
             /\ c2[d].send_waiting = ctx[d].send_waiting
             /\ c2[d].next = ctx[d].next
             /\ p2[d].state = pcb[d].state /\ p2[d].arg = pcb[d].arg
             /\ p2[d].unacked = IF d = c THEN less ELSE pcb[d].unacked
  BY <1>1 DEF AllBound, Shaped, IsContext, IsPcb, State
<1> HIDE DEF c2, p2
<1>5. ASSUME NEW d \in Connections PROVE Bound(c2[d], p2[d])
  <2>1. Bound(ctx[d], pcb[d])
    BY <1>1 DEF AllBound, State
  <2>2. CASE d = c
    BY <1>4, <1>10, <2>1, <2>2 DEF Bound
  <2>3. CASE d # c
    BY <1>4, <1>10, <2>1, <2>3 DEF Bound
  <2> QED
    BY <2>2, <2>3
<1>6. \A d \in Connections : IsContext(c2[d]) /\ IsPcb(p2[d])
  BY <1>1, <1>4 DEF AllBound, Shaped, IsContext, IsPcb, State
<1>7. AllBound(State')
  BY <1>1, <1>3, <1>5, <1>6, Changed
<1>8. CASE queue' = queue
  BY <1>1, <1>4, <1>7, <1>8, Event
<1>9. CASE ctx[c].send_waiting /\ esp_schedule
  <2>1. ctx[c].send_waiting = TRUE
    BY <1>1, <1>9 DEF AllBound, Bound, State
  <2>2. \A d \in Connections : pcb[d].state # "connecting"
    BY <2>1 DEF TcpInv, Waits
  <2>3. queue' = 1
    BY <1>9, Schedules
  <2> QED
    BY <1>1, <1>4, <1>7, <2>2, <2>3, Event
<1> QED
  BY <1>2, <1>8, <1>9

\* The attempt that ends is the only one.
LEMMA Decided ==
  ASSUME TcpInv, NEW c \in Connections, connected(c) \/ connectFailed(c)
  PROVE  TcpInv'
<1>1. /\ UNCHANGED <<task, timer>> /\ AllBound(State) /\ ~Running
      /\ pcb[c].state = "connecting"
  BY DEF connected, connectFailed, TcpInv
<1>2. queue' = 1
  BY Schedules DEF connected, connectFailed, err
<1>3. \A d \in Connections : d # c => pcb[d].state # "connecting"
  BY <1>1 DEF TcpInv, Waits
<1>4. CASE connected(c)
  <2> DEFINE new == ClientContext(1)
             c2 == [ctx EXCEPT ![c] = new]
             p2 == [pcb EXCEPT ![c].state = "established", ![c].arg = ToContext]
  <2>1. ctx' = c2 /\ pcb' = p2
    BY <1>4 DEF connected
  <2>2. /\ IsContext(new) /\ new.next = Null
        /\ new.life = "alive" /\ new.pcb = TRUE /\ new.send_waiting = FALSE
    BY DEF ClientContext, NoContext, IsContext
  <2> HIDE DEF new
  <2>3. DOMAIN c2 = Connections /\ DOMAIN p2 = Connections
    BY <1>1 DEF AllBound, Shaped, State
  <2>4. ASSUME NEW d \in Connections
        PROVE  /\ IsPcb(p2[d]) /\ IsContext(c2[d])
               /\ c2[d] = IF d = c THEN new ELSE ctx[d]
               /\ p2[d].state = IF d = c THEN "established" ELSE pcb[d].state
               /\ p2[d].unacked = pcb[d].unacked
    BY <1>1, <2>2 DEF AllBound, Shaped, IsPcb, IsContext, State
  <2> HIDE DEF c2, p2
  <2>5. ASSUME NEW d \in Connections PROVE Bound(c2[d], p2[d])
    <3>1. Bound(ctx[d], pcb[d])
      BY <1>1 DEF AllBound, State
    <3>2. CASE d = c
      BY <2>2, <2>4, <3>1, <3>2 DEF Bound
    <3>3. CASE d # c
      BY <2>2, <2>4, <3>1, <3>3 DEF Bound
    <3> QED
      BY <3>2, <3>3
  <2>6. AllBound(State')
    BY <2>1, <2>3, <2>4, <2>5, Changed
  <2> QED
    BY <1>1, <1>2, <1>3, <2>1, <2>2, <2>4, <2>6, Event
<1>5. CASE connectFailed(c)
  <2> DEFINE p2 == [pcb EXCEPT ![c].state = "closed", ![c].arg = Nobody]
  <2>1. ctx' = ctx /\ pcb' = p2
    BY <1>5 DEF connectFailed
  <2>2. DOMAIN ctx = Connections /\ DOMAIN p2 = Connections
    BY <1>1 DEF AllBound, Shaped, State
  <2>3. ASSUME NEW d \in Connections
        PROVE  /\ IsPcb(p2[d]) /\ IsContext(ctx[d])
               /\ p2[d].state = IF d = c THEN "closed" ELSE pcb[d].state
               /\ p2[d].unacked = pcb[d].unacked
    BY <1>1 DEF AllBound, Shaped, IsPcb, IsContext, State
  <2> HIDE DEF p2
  <2>4. ASSUME NEW d \in Connections PROVE Bound(ctx[d], p2[d])
    <3>1. Bound(ctx[d], pcb[d])
      BY <1>1 DEF AllBound, State
    <3>2. CASE d = c
      BY <1>1, <2>3, <3>1, <3>2 DEF Bound
    <3>3. CASE d # c
      BY <2>3, <3>1, <3>3 DEF Bound
    <3> QED
      BY <3>2, <3>3
  <2>5. AllBound(State')
    BY <2>1, <2>2, <2>3, <2>4, Changed
  <2> QED
    BY <1>1, <1>2, <1>3, <2>1, <2>3, <2>5, Event
<1> QED
  BY <1>4, <1>5

LEMMA Answers ==
  ASSUME TcpInv, dnsAnswer \/ timerFires
  PROVE  TcpInv'
<1>1. /\ UNCHANGED <<ctx, pcb, task>> /\ AllBound(State)
      /\ timer' = timer \/ timer' = FALSE
  BY DEF dnsAnswer, timerFires, TcpInv
<1>2. AllBound(State')
  BY <1>1 DEF State
<1>3. ~Running /\ \A d \in Connections : pcb[d].state # "connecting"
  BY DEF dnsAnswer, timerFires, TcpInv, Waits, Running
<1>4. queue' = 1
  BY Schedules DEF dnsAnswer, timerFires
<1> QED
  BY <1>1, <1>2, <1>3, <1>4, Event

LEMMA TcpStart == TcpInit => TcpInv
<1> SUFFICES ASSUME TcpInit PROVE TcpInv
  OBVIOUS
<1>1. /\ IsContext(NoContext) /\ NoContext.next = Null
      /\ NoContext.life = "none" /\ NoContext.pcb = FALSE
      /\ NoContext.send_waiting = FALSE
  BY DEF NoContext, IsContext
<1>2. IsPcb(NoPcb) /\ NoPcb.state = "none" /\ NoPcb.unacked \in 0 .. SendBuffer
  BY TcpAssumption DEF NoPcb, IsPcb
<1>3. \A c \in Connections : ctx[c] = NoContext /\ pcb[c] = NoPcb
  BY DEF TcpInit
<1>4. DOMAIN ctx = Connections /\ DOMAIN pcb = Connections
  BY DEF TcpInit
<1>5. AllBound(State)
  BY <1>1, <1>2, <1>3, <1>4 DEF AllBound, Shaped, IsContext, IsPcb, Bound, State
<1>6. Waits
  BY <1>1, <1>2, <1>3 DEF Waits, TcpInit
<1> QED
  BY <1>5, <1>6 DEF TcpInv

LEMMA TcpStep == TcpInv /\ [TcpNext]_tcpVars => TcpInv'
<1> SUFFICES ASSUME TcpInv, [TcpNext]_tcpVars PROVE TcpInv'
  OBVIOUS
<1>1. CASE \E h \in Clients : available(h) \/ stop(h) \/ flush(h)
  BY <1>1, Sketch
<1>2. CASE \E h, g \in Clients : assign(h, g)
  BY <1>2, Sketch
<1>3. CASE \E h \in Clients, n \in Sizes : read(h, n)
  BY <1>3, Sketch
<1>4. CASE (\E h \in Clients, n \in WriteSizes : write(h, n)) /\ ~UNCHANGED tcpVars
  BY <1>4, Write
<1>5. CASE yield \/ delay \/ \E h \in Clients : connect(h)
  BY <1>5, OtherWaits
<1>6. CASE resume
  BY <1>6, Resume
<1>7. CASE accept
  BY <1>7, Accept
<1>8. CASE dnsAnswer \/ timerFires
  BY <1>8, Answers
<1>9. CASE \E c \in Connections : closedByPeer(c) \/ error(c)
  BY <1>9, ClosedOrError
<1>10. CASE \E c \in Connections : connected(c) \/ connectFailed(c)
  BY <1>10, Decided
<1>11. CASE \E c \in Connections, n \in Sizes : receive(c, n)
  BY <1>11, Receive
<1>12. CASE \E c \in Connections, n \in Sizes : sent(c, n)
  BY <1>12, Sent
<1>13. CASE UNCHANGED tcpVars
  BY <1>13 DEF tcpVars, TcpInv, AllBound, Waits, Running, State
<1> QED
  BY <1>1, <1>2, <1>3, <1>4, <1>5, <1>6, <1>7, <1>8, <1>9, <1>10, <1>11, <1>12, <1>13
  DEF TcpNext, sketchStep, callback

LEMMA TcpInvAlways == TcpSpec => []TcpInv
  BY TcpStart, TcpStep, PTL DEF TcpSpec

\* connect() returns only when its connection has been made or has failed: no
\* event meant for another wait ends it.
THEOREM ConnectReturnsDecided == TcpSpec => []ConnectIsDecided
<1>1. TcpInv => ConnectIsDecided
  BY DEF TcpInv, Waits, ConnectIsDecided
<1> QED
  BY <1>1, TcpInvAlways, PTL

\* lwIP calls back only on contexts that are alive and still use the pcb, and
\* every open connection has such a context.
THEOREM ContextsOutlivePcbs == TcpSpec => []PcbsHaveContexts
<1>1. TcpInv => PcbsHaveContexts
  BY DEF TcpInv, AllBound, Bound, State, PcbsHaveContexts
<1> QED
  BY <1>1, TcpInvAlways, PTL
-----------------------------------------------------------------------------
(***************************************************************************)
(* What a writer waits for.                                                *)
(***************************************************************************)
\* The context x and the pcb y of a writer that waits, with q events under way.
Owed(x, y, q, leftover) ==
  x.pcb =>
    /\ x.send_waiting = TRUE
    /\ ~leftover => x.size_sent = y.unacked /\ (y.unacked = 0 => q = 1)

Handles ==
  handle \in [Clients -> Connections \cup {Null}] /\ unclaimed \in Connections \cup {Null}

Writes ==
  task.at = "write" =>
    /\ task.conn \in Connections /\ pcb[task.conn].state # "none"
    /\ Owed(ctx[task.conn], pcb[task.conn], queue, task.leftover)

LEMMA HandlesStep == TcpInv /\ Handles /\ [TcpNext]_tcpVars => Handles'
<1> SUFFICES ASSUME TcpInv, Handles, [TcpNext]_tcpVars PROVE Handles'
  OBVIOUS
<1>1. CASE \E h \in Clients : available(h)
  <2>1. unclaimed \in Connections
    BY <1>1 DEF Handles, available
  <2>2. unclaimed' = ctx[unclaimed].next
    BY <1>1 DEF available
  <2>3. ctx[unclaimed].next \in Connections \cup {Null}
    BY <2>1 DEF TcpInv, AllBound, Bound, State
  <2> QED
    BY <1>1, <2>1, <2>2, <2>3 DEF Handles, available
<1>2. CASE (\E h \in Clients : stop(h)) \/ (\E h, g \in Clients : assign(h, g))
  BY <1>2 DEF Handles, stop, assign
<1>3. CASE (\E h \in Clients : connect(h)) \/ resume
  BY <1>3 DEF Handles, connect, resume, startConnect
<1>4. CASE accept
  BY <1>4 DEF Handles, accept, Fresh
<1>5. CASE \E c \in Connections : connected(c)
  BY <1>5 DEF Handles, connected
<1>6. CASE UNCHANGED <<handle, unclaimed>>
  BY <1>6 DEF Handles
<1>7. CASE \E h \in Clients : flush(h)
  BY <1>6, <1>7 DEF flush
<1>8. CASE \E h \in Clients, n \in Sizes : read(h, n)
  BY <1>6, <1>8 DEF read
<1>9. CASE (\E h \in Clients, n \in WriteSizes : write(h, n)) /\ ~UNCHANGED tcpVars
  BY <1>6, <1>9 DEF write
<1>10. CASE yield \/ delay
  BY <1>6, <1>10 DEF yield, delay
<1>11. CASE dnsAnswer \/ timerFires
  BY <1>6, <1>11 DEF dnsAnswer, timerFires
<1>12. CASE \E c \in Connections : closedByPeer(c) \/ error(c) \/ connectFailed(c)
  BY <1>6, <1>12 DEF closedByPeer, error, connectFailed
<1>13. CASE \E c \in Connections, n \in Sizes : receive(c, n)
  BY <1>6, <1>13 DEF receive
<1>14. CASE \E c \in Connections, n \in Sizes : sent(c, n)
  BY <1>6, <1>14 DEF sent
<1>15. CASE UNCHANGED tcpVars
  BY <1>6, <1>15 DEF tcpVars
<1> QED
  BY <1>1, <1>2, <1>3, <1>4, <1>5, <1>7, <1>8, <1>9, <1>10, <1>11, <1>12, <1>13,
     <1>14, <1>15
  DEF TcpNext, sketchStep, callback

\* A write counts what fitted, which is at least a byte if nothing is outstanding.
LEMMA WriteOwes ==
  ASSUME TcpInv, Handles, NEW h \in Clients, NEW n \in WriteSizes, write(h, n),
         ~UNCHANGED tcpVars
  PROVE  Writes'
<1> DEFINE c == handle[h]
           u == pcb[c].unacked
           will == Lesser(SendBuffer - u, n)
           both == u + will
           left == u > 0
           c2 == [ctx EXCEPT ![c].size_sent = Counted(n, will), ![c].send_waiting = TRUE]
           p2 == [pcb EXCEPT ![c].unacked = u + will]
<1>1. ctx' = c2 /\ pcb' = p2 /\ ctx[c].pcb /\ c # Null /\ AllBound(State)
  BY Zenon DEF write, TcpInv
<1>2. task' = [at |-> "write", client |-> h, conn |-> c, leftover |-> left]
  BY Zenon DEF write
<1>3. c \in Connections
  BY <1>1 DEF Handles
<1>4. pcb[c].state = "established" /\ u \in 0 .. SendBuffer
  BY <1>1, <1>3 DEF AllBound, Bound, State
<1>5. SendBuffer \in Nat \ {0} /\ n \in Nat \ {0}
  BY TcpAssumption
<1>6. ~left => both = will /\ both # 0
  <2> DEFINE v == u
  <2> SUFFICES v \in 0 .. SendBuffer /\ ~(v > 0) =>
        v + Lesser(SendBuffer - v, n) = Lesser(SendBuffer - v, n)
        /\ v + Lesser(SendBuffer - v, n) # 0
    BY <1>4
  <2> HIDE DEF v
  <2> QED
    BY <1>5 DEF Lesser
<1> HIDE DEF left, both, will
<1>7. c2[c].send_waiting = TRUE /\ c2[c].size_sent = will /\ c2[c].pcb = ctx[c].pcb
  BY <1>1, <1>3 DEF AllBound, Shaped, IsContext, State, Counted
<1>8. p2[c].unacked = both /\ p2[c].state = pcb[c].state
  <2>1. p2 = [pcb EXCEPT ![c].unacked = both]
    BY DEF both
  <2> HIDE DEF p2
  <2> QED
    BY <1>1, <1>3, <2>1 DEF AllBound, Shaped, IsPcb, State
<1>9. task'.at = "write" /\ task'.conn = c /\ task'.leftover = left
  BY <1>2
<1> HIDE DEF c2, p2
<1>10. Owed(c2[c], p2[c], queue', left)
  BY <1>6, <1>7, <1>8 DEF Owed
<1> QED
  BY <1>1, <1>3, <1>4, <1>8, <1>9, <1>10 DEF Writes

\* Acknowledged bytes were counted, so that the counter does not fall below zero,
\* and reaches it with the last of them.
LEMMA SentOwes ==
  ASSUME TcpInv, Writes, NEW c \in Connections, NEW n \in Sizes, sent(c, n)
  PROVE  Writes'
<1> DEFINE k == task.conn
           left == (ctx[c].size_sent - n) % SizeMod
           less == pcb[c].unacked - n
           c2 == [ctx EXCEPT ![c].size_sent = left]
           p2 == [pcb EXCEPT ![c].unacked = less]
<1>1. ctx' = c2 /\ pcb' = p2 /\ task' = task /\ AllBound(State) /\ Waits
  BY DEF sent, TcpInv
<1>2. n <= pcb[c].unacked /\ pcb[c].unacked \in 0 .. SendBuffer /\ n \in Nat
  BY <1>1, TcpAssumption DEF sent, AllBound, Bound, State
<1>3. queue' = queue \/ queue' = 1
  BY Schedules DEF sent
<1>4. SUFFICES ASSUME task.at = "write"
               PROVE  /\ pcb'[k].state # "none"
                      /\ Owed(ctx'[k], pcb'[k], queue', task.leftover)
  BY <1>1 DEF Writes
<1>5. k \in Connections /\ pcb[k].state # "none"
      /\ Owed(ctx[k], pcb[k], queue, task.leftover)
  BY <1>4 DEF Writes
<1>6. /\ c2[k].pcb = ctx[k].pcb /\ c2[k].send_waiting = ctx[k].send_waiting
      /\ p2[k].state = pcb[k].state
      /\ c2[k].size_sent = IF k = c THEN left ELSE ctx[k].size_sent
      /\ p2[k].unacked = IF k = c THEN less ELSE pcb[k].unacked
  <2> HIDE DEF left, less
  <2> QED
    BY <1>1, <1>5 DEF AllBound, Shaped, IsContext, IsPcb, State
<1>7. CASE k # c
  <2> HIDE DEF c2, p2, k
  <2> QED
    BY <1>1, <1>3, <1>5, <1>6, <1>7 DEF Owed
<1>8. CASE k = c
  <2>1. ctx[c].size_sent = pcb[c].unacked => left = less
    <3>1. ASSUME NEW u \in 0 .. SendBuffer, n <= u
          PROVE  (u - n) % SizeMod = u - n
      <4>1. SendBuffer \in Nat /\ SizeMod \in Nat /\ SendBuffer < SizeMod
        BY TcpAssumption
      <4>2. u - n \in 0 .. SizeMod - 1
        BY <1>2, <3>1, <4>1
      <4> DEFINE d == u - n
      <4> HIDE DEF d
      <4>3. d \in 0 .. SizeMod - 1 => d % SizeMod = d
        BY <4>1
      <4> QED
        BY <4>2, <4>3 DEF d
    <3> QED
      BY <1>2, <3>1
  <2>2. ctx[c].send_waiting = TRUE /\ left = 0 => queue' = 1
    <3> HIDE DEF left
    <3> QED
      BY Schedules DEF sent, WakesWriter, left
  <2> HIDE DEF left, less, c2, p2, k
  <2> QED
    BY <1>1, <1>5, <1>6, <1>8, <2>1, <2>2 DEF Owed
<1> QED
  BY <1>7, <1>8

\* A new connection and the timer leave the writer what it has.
LEMMA NewAndTimesOwe ==
  ASSUME TcpInv, Writes, accept \/ dnsAnswer \/ timerFires
  PROVE  Writes'
<1>1. AllBound(State) /\ task' = task
  BY DEF TcpInv, accept, dnsAnswer, timerFires
<1> DEFINE k == task.conn
<1>2. SUFFICES ASSUME task.at = "write"
               PROVE  /\ pcb'[k].state # "none"
                      /\ Owed(ctx'[k], pcb'[k], queue', task.leftover)
  BY <1>1 DEF Writes
<1>3. k \in Connections /\ pcb[k].state # "none"
      /\ Owed(ctx[k], pcb[k], queue, task.leftover)
  BY <1>2 DEF Writes
<1>4. queue' = queue \/ queue' = 1
  BY Schedules DEF accept, timerFires, dnsAnswer
<1>5. ~dnsAnswer
  BY <1>2 DEF dnsAnswer
<1>6. CASE timerFires
  BY <1>3, <1>4, <1>6 DEF Owed, timerFires
<1>7. CASE accept
  <2>1. PICK d \in Fresh :
          /\ ctx' = Appended([ctx EXCEPT ![d] = ClientContext(0)], d)
          /\ pcb' = [pcb EXCEPT ![d].state = "established", ![d].arg = ToContext]
    BY <1>7 DEF accept
  <2>2. d # k /\ d \in Connections
    BY <1>3, <2>1 DEF Fresh
  <2> DEFINE c1 == [ctx EXCEPT ![d] = ClientContext(0)]
             l == LastOf[unclaimed]
             c2 == [c1 EXCEPT ![l].next = d]
  <2>3. ctx' = c1 \/ ctx' = c2
    BY <2>1 DEF Appended
  <2>4. c1[k] = ctx[k] /\ DOMAIN c1 = Connections /\ IsContext(ctx[k])
    BY <1>1, <1>3, <2>2 DEF AllBound, Shaped, State
  <2> HIDE DEF c1, l
  <2>5. /\ c2[k].pcb = c1[k].pcb /\ c2[k].send_waiting = c1[k].send_waiting
        /\ c2[k].size_sent = c1[k].size_sent
    BY <1>3, <2>4 DEF IsContext
  <2>6. pcb'[k] = pcb[k]
    BY <1>1, <1>3, <2>1, <2>2 DEF AllBound, Shaped, State
  <2> HIDE DEF c2, k
  <2> QED
    BY <1>3, <1>4, <2>3, <2>4, <2>5, <2>6 DEF Owed
<1> QED
  BY <1>5, <1>6, <1>7

\* So does a segment.
LEMMA ReceiveOwes ==
  ASSUME TcpInv, Writes, NEW c \in Connections, NEW n \in Sizes, receive(c, n)
  PROVE  Writes'
<1> DEFINE k == task.conn
           rx2 == Append(ctx[c].rx, [i \in 1 .. n |-> pcb[c].received + i])
           sum == pcb[c].received + n
           c2 == [ctx EXCEPT ![c].rx = rx2]
           p2 == [pcb EXCEPT ![c].received = sum]
<1>1. ctx' = c2 /\ pcb' = p2 /\ task' = task /\ queue' = queue /\ AllBound(State)
  BY DEF receive, TcpInv
<1>2. SUFFICES ASSUME task.at = "write"
               PROVE  /\ pcb'[k].state # "none"
                      /\ Owed(ctx'[k], pcb'[k], queue', task.leftover)
  BY <1>1 DEF Writes
<1>3. k \in Connections /\ pcb[k].state # "none"
      /\ Owed(ctx[k], pcb[k], queue, task.leftover)
  BY <1>2 DEF Writes
<1> HIDE DEF rx2, sum
<1>4. /\ c2[k].pcb = ctx[k].pcb /\ c2[k].send_waiting = ctx[k].send_waiting
      /\ c2[k].size_sent = ctx[k].size_sent
      /\ p2[k].state = pcb[k].state /\ p2[k].unacked = pcb[k].unacked
  BY <1>1, <1>3 DEF AllBound, Shaped, IsContext, IsPcb, State
<1> HIDE DEF c2, p2, k
<1> QED
  BY <1>1, <1>3, <1>4 DEF Owed

\* Nothing is being connected while it waits; its connection may be closed.
LEMMA ClosesOwe ==
  ASSUME TcpInv, Writes, NEW c \in Connections,
         closedByPeer(c) \/ error(c) \/ connected(c) \/ connectFailed(c)
  PROVE  Writes'
<1> DEFINE k == task.conn
           t == Close(State, c)
<1>1. AllBound(State) /\ Waits /\ task' = task
  BY DEF TcpInv, closedByPeer, error, connected, connectFailed
<1>2. SUFFICES ASSUME task.at = "write"
               PROVE  /\ pcb'[k].state # "none"
                      /\ Owed(ctx'[k], pcb'[k], queue', task.leftover)
  BY <1>1 DEF Writes
<1>3. k \in Connections /\ pcb[k].state # "none"
      /\ Owed(ctx[k], pcb[k], queue, task.leftover)
  BY <1>2 DEF Writes
<1>4. queue' = queue \/ queue' = 1
  BY Schedules DEF closedByPeer, error, connected, connectFailed, err
<1>5. closedByPeer(c) \/ error(c)
  BY <1>1, <1>2 DEF Waits, connected, connectFailed
<1>6. ctx' = t.ctx /\ pcb' = t.pcb
  BY <1>5 DEF closedByPeer, error, Becomes
<1>7. \/ ~t.ctx[k].pcb /\ t.pcb[k].state # "none"
      \/ t.ctx[k] = ctx[k] /\ t.pcb[k] = pcb[k]
  BY <1>1, <1>3 DEF Close, AllBound, Shaped, IsContext, IsPcb, State
<1> HIDE DEF t, k
<1> QED
  BY <1>3, <1>4, <1>6, <1>7 DEF Owed

LEMMA WritesStep == TcpInv /\ Handles /\ Writes /\ [TcpNext]_tcpVars => Writes'
<1> SUFFICES ASSUME TcpInv, Handles, Writes, [TcpNext]_tcpVars PROVE Writes'
  OBVIOUS
<1>1. CASE (\E h \in Clients, n \in WriteSizes : write(h, n)) /\ ~UNCHANGED tcpVars
  BY <1>1, WriteOwes
<1>2. ASSUME task'.at # "write" PROVE Writes'
  BY <1>2 DEF Writes
<1>3. CASE \E h \in Clients : available(h) \/ stop(h) \/ flush(h)
  BY <1>2, <1>3 DEF available, stop, flush, Running
<1>4. CASE \E h, g \in Clients : assign(h, g)
  BY <1>2, <1>4 DEF assign, Running
<1>5. CASE \E h \in Clients, n \in Sizes : read(h, n)
  BY <1>2, <1>5 DEF read, Running
<1>6. CASE yield \/ delay
  BY <1>2, <1>6 DEF yield, delay, Wait, RunTask
<1>7. CASE (\E h \in Clients : connect(h)) \/ resume
  <2>1. ASSUME NEW h, startConnect(h) PROVE task'.at \in {"connect", "running"}
    BY <2>1, StartsAt
  <2>2. ASSUME NEW h \in Clients, connect(h) PROVE task'.at # "write"
    BY <2>1, <2>2 DEF connect, Wait, RunTask
  <2>3. ASSUME resume PROVE task'.at # "write"
    <3>1. startConnect(task.client) \/ task' = RunTask
      BY <2>3 DEF resume
    <3>2. startConnect(task.client) => task'.at \in {"connect", "running"}
      BY <2>1
    <3>3. task' = RunTask => task'.at = "running"
      BY DEF RunTask
    <3> QED
      BY <3>1, <3>2, <3>3
  <2> QED
    BY <1>2, <1>7, <2>2, <2>3
<1>8. CASE \E c \in Connections, n \in Sizes : sent(c, n)
  BY <1>8, SentOwes
<1>9. CASE \E c \in Connections, n \in Sizes : receive(c, n)
  BY <1>9, ReceiveOwes
<1>10. CASE \E c \in Connections : \/ closedByPeer(c) \/ error(c)
                                    \/ connected(c) \/ connectFailed(c)
  BY <1>10, ClosesOwe
<1>11. CASE accept \/ dnsAnswer \/ timerFires
  BY <1>11, NewAndTimesOwe
<1>12. CASE UNCHANGED tcpVars
  BY <1>12 DEF tcpVars, Writes
<1> QED
  BY <1>1, <1>3, <1>4, <1>5, <1>6, <1>7, <1>8, <1>9, <1>10, <1>11, <1>12
  DEF TcpNext, sketchStep, callback

\* A write that begins with nothing outstanding is woken by the acknowledgment of
\* its last byte: what is counted is what is outstanding, in 32 bits too.
THEOREM AckedWritesReturn == TcpSpec => []AckedWriteReturns
<1>1. TcpInit => Handles /\ Writes
  BY DEF TcpInit, Handles, Writes, RunTask
<1>2. TcpInv /\ Writes => AckedWriteReturns
  BY DEF Writes, Owed, AckedWriteReturns
<1> QED
  BY <1>1, <1>2, TcpInvAlways, HandlesStep, WritesStep, PTL DEF TcpSpec
-----------------------------------------------------------------------------
(***************************************************************************)
(* References, and the list of the server.                                 *)
(***************************************************************************)
LEMMA ConnectionsAreNumbers ==
  /\ Connections \subseteq Nat /\ MaxConnections \in Nat /\ Null \notin Connections
  /\ \A c \in Connections : c > Null
  BY TcpAssumption DEF Connections, Null

\* The first member of S after c, said without choosing it.
IsFirst(x, S, c) ==
  IF \E d \in S : d > c
  THEN x \in S /\ x > c /\ \A d \in S : d > c => x <= d
  ELSE x = Null

LEMMA FirstAfterIs ==
  ASSUME NEW S, S \subseteq Nat, NEW c \in Nat, NEW x
  PROVE  x = FirstAfter(S, c) <=> IsFirst(x, S, c)
<1> DEFINE later == {d \in S : d > c}
<1>1. CASE later = {}
  BY <1>1 DEF FirstAfter, IsFirst
<1>2. CASE later # {}
  <2>1. later \subseteq Nat
    OBVIOUS
  <2>2. \E y \in later : \A z \in later : y <= z
    BY <1>2, <2>1, LeastNatural
  <2>3. FirstAfter(S, c) = CHOOSE y \in later : \A z \in later : y <= z
    BY <1>2 DEF FirstAfter, Min
  <2>4. FirstAfter(S, c) \in later /\ \A z \in later : FirstAfter(S, c) <= z
    BY <2>2, <2>3
  <2> DEFINE m == FirstAfter(S, c)
  <2> HIDE DEF m
  <2>5. m \in S /\ m > c /\ \A z \in S : z > c => m <= z
    BY <2>4 DEF m
  <2>6. IsFirst(m, S, c)
    BY <2>5 DEF IsFirst
  <2>7. ASSUME IsFirst(x, S, c) PROVE x = m
    <3>1. x \in S /\ x > c /\ \A d \in S : d > c => x <= d
      BY <2>5, <2>7 DEF IsFirst
    <3>2. x <= m /\ m <= x /\ x \in Nat /\ m \in Nat
      BY <2>5, <3>1
    <3> QED
      BY <3>2
  <2> QED
    BY <2>6, <2>7 DEF m
<1> QED
  BY <1>1, <1>2

LEMMA GreatestConnection ==
  ASSUME NEW B, B \subseteq Connections, B # {}
  PROVE  \E x \in B : \A y \in B : y <= x
<1> DEFINE T == {MaxConnections - x : x \in B}
<1>1. T \subseteq Nat /\ T # {}
  BY TcpAssumption DEF Connections
<1>2. PICK t \in T : \A y \in T : t <= y
  BY <1>1, LeastNatural
<1>3. PICK x \in B : t = MaxConnections - x
  BY <1>2
<1>4. ASSUME NEW y \in B PROVE y <= x
  <2>1. t <= MaxConnections - y
    BY <1>2
  <2>2. x \in Nat /\ y \in Nat /\ MaxConnections \in Nat
    BY ConnectionsAreNumbers
  <2> QED
    BY <1>3, <2>1, <2>2
<1> QED
  BY <1>4

\* A list in which every link goes to a later connection has an end.
LEMMA LastOfIs ==
  ASSUME \A c \in Connections :
           ctx[c].next = Null \/ (ctx[c].next \in Connections /\ c < ctx[c].next)
  PROVE  \A c \in Connections :
           LastOf[c] = IF ctx[c].next = Null THEN c ELSE LastOf[ctx[c].next]
<1> DEFINE N == MaxConnections
           D(n) == N - n + 1 .. N
           Solves(f, n) ==
             f = [c \in D(n) |-> IF ctx[c].next = Null THEN c ELSE f[ctx[c].next]]
           S == {n \in Nat : n <= N => \E f : Solves(f, n)}
<1>0. N \in Nat /\ Connections = 1 .. N /\ Null = 0
  BY TcpAssumption DEF Connections, Null
<1>1. 0 \in S
  <2> DEFINE f == [c \in D(0) |-> c]
  <2>1. D(0) = {}
    BY <1>0
  <2>2. Solves(f, 0)
    BY <2>1
  <2> HIDE DEF Solves
  <2> QED
    BY <2>2
<1>2. ASSUME NEW n \in Nat, n \in S PROVE n + 1 \in S
  <2> SUFFICES ASSUME n + 1 <= N PROVE \E g : Solves(g, n + 1)
    OBVIOUS
  <2>1. PICK f : Solves(f, n)
    <3>1. n <= N
      BY <1>0
    <3> HIDE DEF Solves
    <3> QED
      BY <1>2, <3>1
  <2> DEFINE k == N - n
             g == [c \in D(n + 1) |->
                     IF c # k THEN f[c] ELSE IF ctx[k].next = Null THEN k ELSE f[ctx[k].next]]
  <2>2. k \in 1 .. N /\ D(n + 1) = D(n) \cup {k} /\ k \notin D(n)
    BY <1>0
  <2>3. ASSUME NEW c \in D(n + 1)
        PROVE  g[c] = IF ctx[c].next = Null THEN c ELSE g[ctx[c].next]
    <3>1. ctx[c].next = Null \/ (ctx[c].next \in D(n) /\ ctx[c].next # k)
      BY <1>0, <2>2
    <3>2. ctx[c].next # Null => g[ctx[c].next] = f[ctx[c].next]
      BY <2>2, <3>1
    <3>3. c # k => f[c] = IF ctx[c].next = Null THEN c ELSE f[ctx[c].next]
      BY <2>1, <2>2
    <3> QED
      BY <3>2, <3>3
  <2>4. g = [c \in D(n + 1) |-> IF ctx[c].next = Null THEN c ELSE g[ctx[c].next]]
    <3>1. DOMAIN g = D(n + 1) /\ g = [c \in D(n + 1) |-> g[c]]
      OBVIOUS
    <3> HIDE DEF g
    <3> QED
      BY <2>3, <3>1
  <2> HIDE DEF g
  <2> QED
    BY <2>4
<1> HIDE DEF S
<1>3. N \in S
  BY <1>0, <1>1, <1>2, SetInduction
<1>4. D(N) = Connections
  BY <1>0
<1>5. \E f : Solves(f, N)
  BY <1>0, <1>3 DEF S
<1>6. LastOf = CHOOSE f : f = [c \in Connections |-> IF ctx[c].next = Null THEN c ELSE f[ctx[c].next]]
  BY DEF LastOf
<1>7. LastOf = [c \in Connections |-> IF ctx[c].next = Null THEN c ELSE LastOf[ctx[c].next]]
  BY <1>4, <1>5, <1>6
<1> QED
  BY <1>7

\* What a step leaves alone that neither hands a reference over nor makes a
\* connection.
Untouched(s, t) ==
  \A d \in Connections :
    /\ t.ctx[d].life = s.ctx[d].life /\ t.ctx[d].refs = s.ctx[d].refs
    /\ t.ctx[d].next = s.ctx[d].next
    /\ t.pcb[d].state = "none" <=> s.pcb[d].state = "none"
    /\ t.pcb[d].state = "connecting" =>
         s.pcb[d].state = "connecting" /\ t.pcb[d].arg = s.pcb[d].arg

LEMMA UntouchedTwice ==
  ASSUME NEW s, NEW r, NEW t, Untouched(s, r), Untouched(r, t)
  PROVE  Untouched(s, t)
  BY DEF Untouched

LEMMA RecvedLeaves ==
  ASSUME NEW s, AllBound(s), NEW c, NEW n
  PROVE  Untouched(s, Recved(s, c, n))
<1> DEFINE t == [s EXCEPT !.pcb[c].recved = @ + n]
<1>1. t.ctx = s.ctx
  BY DEF AllBound, Shaped
<1>2. ASSUME NEW d \in Connections
      PROVE  t.pcb[d].state = s.pcb[d].state /\ t.pcb[d].arg = s.pcb[d].arg
  BY DEF AllBound, Shaped, IsPcb
<1> HIDE DEF t
<1>3. Untouched(s, t) /\ Untouched(s, s)
  BY <1>1, <1>2 DEF Untouched
<1> QED
  BY <1>3 DEF Recved, t

LEMMA FlushLeaves ==
  ASSUME NEW s, AllBound(s), NEW c
  PROVE  Untouched(s, Flush(s, c))
<1> DEFINE x == s.ctx[c]
           all == FlattenSeq(x.rx)
           r == Recved(s, c, TotLen(x.rx))
           rest == SubSeq(all, x.offset + 1, Len(all))
           t == [r EXCEPT !.ctx[c].rx = << >>, !.ctx[c].offset = 0,
                          !.ctx[c].taken = @ \o rest]
<1>1. Untouched(s, r) /\ AllBound(r)
  BY RecvedLeaves, RecvedKeeps, KeptIsBound
<1> HIDE DEF r, rest
<1>2. t.pcb = r.pcb
  BY <1>1 DEF AllBound, Shaped
<1>3. ASSUME NEW d \in Connections
      PROVE  /\ t.ctx[d].life = r.ctx[d].life /\ t.ctx[d].refs = r.ctx[d].refs
             /\ t.ctx[d].next = r.ctx[d].next
  BY <1>1 DEF AllBound, Shaped, IsContext
<1>4. Flush(s, c) = IF x.rx = << >> THEN s ELSE t
  BY DEF Flush, r, rest
<1> HIDE DEF t, x
<1>5. Untouched(s, t) /\ Untouched(s, s)
  BY <1>1, <1>2, <1>3 DEF Untouched
<1> QED
  BY <1>4, <1>5

LEMMA CloseLeaves ==
  ASSUME NEW s, AllBound(s), NEW c
  PROVE  Untouched(s, Close(s, c))
<1> DEFINE t == [s EXCEPT !.ctx[c].pcb = FALSE,
                          !.pcb[c].state = "closed", !.pcb[c].arg = Nobody]
<1>1. ASSUME NEW d \in Connections
      PROVE  /\ t.ctx[d].life = s.ctx[d].life /\ t.ctx[d].refs = s.ctx[d].refs
             /\ t.ctx[d].next = s.ctx[d].next
             /\ t.pcb[d].state = IF d = c THEN "closed" ELSE s.pcb[d].state
             /\ d # c => t.pcb[d].arg = s.pcb[d].arg
  BY DEF AllBound, Shaped, IsContext, IsPcb
<1>2. c \in Connections /\ s.ctx[c].pcb => s.pcb[c].state = "established"
  BY DEF AllBound, Bound
<1> HIDE DEF t
<1>3. s.ctx[c].pcb => Untouched(s, t)
  BY <1>1, <1>2 DEF Untouched
<1>4. Untouched(s, s)
  BY DEF Untouched
<1> QED
  BY <1>3, <1>4 DEF Close, t

LEMMA RefIs ==
  ASSUME NEW s, AllBound(s), NEW c \in Connections, NEW d \in Connections
  PROVE  LET t == Ref(s, c)
         IN  /\ t.ctx[d].life = s.ctx[d].life /\ t.ctx[d].next = s.ctx[d].next
             /\ t.ctx[d].refs = IF d = c THEN s.ctx[d].refs + 1 ELSE s.ctx[d].refs
             /\ t.pcb = s.pcb
<1>1. c # Null
  BY ConnectionsAreNumbers
<1> QED
  BY <1>1 DEF Ref, AllBound, Shaped, IsContext

LEMMA UnrefIs ==
  ASSUME NEW s, AllBound(s), NEW c \in Connections, NEW d \in Connections
  PROVE  LET x == Unref(s, c).ctx[d]
             y == Unref(s, c).pcb[d]
             last == d = c /\ ~(s.ctx[c].refs > 1)
         IN  /\ x.life = IF last THEN "deleted" ELSE s.ctx[d].life
             /\ x.next = IF last THEN Null ELSE s.ctx[d].next
             /\ x.refs = IF last THEN 0
                         ELSE IF d = c THEN s.ctx[d].refs - 1 ELSE s.ctx[d].refs
             /\ y.state = "none" <=> s.pcb[d].state = "none"
             /\ y.state = "connecting" =>
                  s.pcb[d].state = "connecting" /\ y.arg = s.pcb[d].arg
<1> DEFINE t1 == [s EXCEPT !.ctx[c].refs = @ - 1]
           k == Close(Flush(s, c), c).pcb[c]
           x2 == [NoContext EXCEPT !.life = "deleted"]
           y2 == [NoPcb EXCEPT !.state = k.state, !.arg = k.arg]
           t2 == [s EXCEPT !.ctx[c] = x2, !.pcb[c] = y2]
<1>1. c # Null
  BY ConnectionsAreNumbers
<1>2. Unref(s, c) = IF s.ctx[c].refs > 1 THEN t1 ELSE t2
  BY <1>1 DEF Unref
<1>3. CASE s.ctx[c].refs > 1
  <2>1. /\ t1.ctx[d].life = s.ctx[d].life /\ t1.ctx[d].next = s.ctx[d].next
        /\ t1.ctx[d].refs = IF d = c THEN s.ctx[d].refs - 1 ELSE s.ctx[d].refs
        /\ t1.pcb = s.pcb
    BY DEF AllBound, Shaped, IsContext
  <2> HIDE DEF t1
  <2> QED
    BY <1>2, <1>3, <2>1
<1>4. CASE ~(s.ctx[c].refs > 1)
  <2>1. Untouched(s, Close(Flush(s, c), c))
    BY FlushLeaves, FlushKeeps, KeptIsBound, CloseLeaves, UntouchedTwice
  <2>2. /\ k.state = "none" <=> s.pcb[c].state = "none"
        /\ k.state = "connecting" => s.pcb[c].state = "connecting" /\ k.arg = s.pcb[c].arg
    BY <2>1 DEF Untouched
  <2> HIDE DEF k
  <2>3. x2.life = "deleted" /\ x2.next = Null /\ x2.refs = 0
    BY DEF NoContext
  <2>4. y2.state = k.state /\ y2.arg = k.arg
    BY DEF NoPcb
  <2> HIDE DEF x2, y2
  <2>5. /\ t2.ctx[d] = IF d = c THEN x2 ELSE s.ctx[d]
        /\ t2.pcb[d] = IF d = c THEN y2 ELSE s.pcb[d]
    BY DEF AllBound, Shaped
  <2> HIDE DEF t2
  <2> QED
    BY <1>2, <1>4, <2>2, <2>3, <2>4, <2>5
<1> QED
  BY <1>3, <1>4
-----------------------------------------------------------------------------
\* The clients that hold a connection, when h lets go of one and takes x.
Takes(hd, hd2, h, x) == DOMAIN hd = Clients /\ hd2 = [hd EXCEPT ![h] = x]

LEMMA HoldersMove ==
  ASSUME NEW hd, NEW hd2, NEW h \in Clients, NEW x, Takes(hd, hd2, h, x), NEW c
  PROVE  LET n == Cardinality(Holders(hd, c))
             m == Cardinality(Holders(hd2, c))
         IN  /\ n \in Nat /\ (hd[h] = c => n > 0)
             /\ m = IF x = c THEN (IF hd[h] = c THEN n ELSE n + 1)
                             ELSE (IF hd[h] = c THEN n - 1 ELSE n)
<1> DEFINE A == Holders(hd, c)
           B == Holders(hd2, c)
<1>1. IsFiniteSet(A)
  <2>1. A \in SUBSET Clients
    BY DEF Holders
  <2> QED
    BY <2>1, TcpAssumption, FS_Subset
<1>2. h \in A <=> hd[h] = c
  BY DEF Holders
<1>3. B = IF x = c THEN A \cup {h} ELSE A \ {h}
  BY DEF Holders, Takes
<1> HIDE DEF A, B
<1>4. /\ Cardinality(A \cup {h}) = IF h \in A THEN Cardinality(A) ELSE Cardinality(A) + 1
      /\ Cardinality(A \ {h}) = IF h \in A THEN Cardinality(A) - 1 ELSE Cardinality(A)
  BY <1>1, FS_AddElement, FS_RemoveElement
<1>5. Cardinality(A) \in Nat /\ (h \in A => Cardinality(A) > 0)
  <2>1. Cardinality(A) \in Nat /\ (Cardinality(A) = 0 <=> A = {})
    BY <1>1, FS_CardinalityType, FS_EmptySet
  <2> QED
    BY <2>1
<1> QED
  BY <1>2, <1>3, <1>4, <1>5 DEF A, B

\* The two sides s of all connections, what the clients hold and the head of the
\* list agree.
Ledger(s, hd) ==
  \A c \in Connections : /\ s.ctx[c].refs = Cardinality(Holders(hd, c))
                         /\ s.ctx[c].refs > 0 => s.ctx[c].life = "alive"

InLine(s, head) ==
  LET waiting == Waiting(s.ctx)
  IN  /\ IsFirst(head, waiting, Null)
      /\ \A c \in waiting : IsFirst(s.ctx[c].next, waiting, c)

\* Connections are made in their order; one that is not made has no context, and
\* its client, who waits, holds nothing.
Made(s, hd) ==
  /\ \A c \in Connections : s.ctx[c].next = Null \/ c < s.ctx[c].next
  /\ \A c, d \in Connections :
       c < d /\ s.pcb[d].state # "none" => s.pcb[c].state # "none"
  /\ \A c \in Connections :
       s.pcb[c].state \in {"none", "connecting"} => s.ctx[c].life = "none"
  /\ \A c \in Connections :
       s.pcb[c].state = "connecting" => s.pcb[c].arg \in Clients /\ hd[s.pcb[c].arg] = Null

RefsHold(s, hd, head) == Ledger(s, hd) /\ InLine(s, head) /\ Made(s, hd)

LEMMA UntouchedHolds ==
  ASSUME NEW s, NEW t, NEW hd, NEW head, RefsHold(s, hd, head), Untouched(s, t)
  PROVE  RefsHold(t, hd, head)
<1>1. Ledger(t, hd)
  BY DEF RefsHold, Ledger, Untouched
<1>2. Waiting(t.ctx) = Waiting(s.ctx)
  BY DEF Waiting, Untouched
<1>3. InLine(t, head)
  BY <1>2 DEF RefsHold, InLine, Untouched, Waiting
<1>4. Made(t, hd)
  BY DEF RefsHold, Made, Untouched
<1> QED
  BY <1>1, <1>3, <1>4 DEF RefsHold

\* A client lets go: the last one deletes the context, which nobody waits for.
LEMMA UnrefHolds ==
  ASSUME NEW s, AllBound(s), NEW hd \in [Clients -> Connections \cup {Null}], NEW head,
         RefsHold(s, hd, head), NEW h \in Clients
  PROVE  RefsHold(Unref(s, hd[h]), [hd EXCEPT ![h] = Null], head)
<1> DEFINE c == hd[h]
           t == Unref(s, c)
           hd2 == [hd EXCEPT ![h] = Null]
<1>1. CASE c = Null
  <2>1. t = s /\ hd2 = hd
    BY <1>1 DEF Unref
  <2> QED
    BY <2>1
<1>2. CASE c # Null
  <2>1. c \in Connections
    BY <1>2
  <2>2. /\ s.ctx[c].refs \in Nat /\ s.ctx[c].refs > 0 /\ s.ctx[c].life = "alive"
        /\ \A d \in Connections :
             Cardinality(Holders(hd2, d)) = IF d = c THEN s.ctx[d].refs - 1 ELSE s.ctx[d].refs
    <3>1. \A d \in Connections : s.ctx[d].refs = Cardinality(Holders(hd, d)) /\ d # Null
      BY ConnectionsAreNumbers DEF RefsHold, Ledger
    <3>4. Takes(hd, hd2, h, Null)
      BY DEF Takes
    <3> HIDE DEF hd2
    <3>2. s.ctx[c].refs \in Nat /\ s.ctx[c].refs > 0
      BY <2>1, <3>1, <3>4, HoldersMove
    <3>3. ASSUME NEW d \in Connections
          PROVE  Cardinality(Holders(hd2, d)) = IF d = c THEN s.ctx[d].refs - 1 ELSE s.ctx[d].refs
      BY <3>1, <3>4, HoldersMove
    <3> QED
      BY <2>1, <3>2, <3>3 DEF RefsHold, Ledger
  <2> DEFINE last == ~(s.ctx[c].refs > 1)
  <2>3. last => s.ctx[c].refs - 1 = 0
    BY <2>2
  <2>4. ASSUME NEW d \in Connections
        PROVE  /\ t.ctx[d].life = IF d = c /\ last THEN "deleted" ELSE s.ctx[d].life
               /\ t.ctx[d].next = IF d = c /\ last THEN Null ELSE s.ctx[d].next
               /\ t.ctx[d].refs = IF d = c THEN s.ctx[d].refs - 1 ELSE s.ctx[d].refs
               /\ t.pcb[d].state = "none" <=> s.pcb[d].state = "none"
               /\ t.pcb[d].state = "connecting" =>
                    s.pcb[d].state = "connecting" /\ t.pcb[d].arg = s.pcb[d].arg
    BY <2>1, <2>3, UnrefIs
  <2>5. s.pcb[c].state \notin {"none", "connecting"}
    BY <2>1, <2>2 DEF RefsHold, Made
  <2>6. \A k \in Clients : hd[k] = Null => hd2[k] = Null
    BY ConnectionsAreNumbers
  <2> HIDE DEF t, hd2
  <2>7. Ledger(t, hd2)
    BY <2>2, <2>4 DEF Ledger, RefsHold
  <2>8. Waiting(t.ctx) = Waiting(s.ctx)
    <3>1. c \notin Waiting(s.ctx)
      BY <2>2 DEF Waiting
    <3>2. c \notin Waiting(t.ctx)
      BY <2>1, <2>2, <2>4 DEF Waiting
    <3>3. \A d \in Connections : d # c => (d \in Waiting(t.ctx) <=> d \in Waiting(s.ctx))
      BY <2>4 DEF Waiting
    <3>4. Waiting(t.ctx) \subseteq Connections /\ Waiting(s.ctx) \subseteq Connections
      BY DEF Waiting
    <3> QED
      BY <3>1, <3>2, <3>3, <3>4
  <2>9. InLine(t, head)
    <3>1. \A d \in Waiting(s.ctx) : d \in Connections /\ d # c
      BY <2>2 DEF Waiting
    <3> QED
      BY <2>4, <2>8, <3>1 DEF RefsHold, InLine
  <2>10. Made(t, hd2)
    <3> HIDE DEF c, last
    <3> QED
      BY <2>4, <2>5, <2>6 DEF RefsHold, Made
  <2> QED
    BY <2>7, <2>9, <2>10 DEF RefsHold, t, hd2
<1> QED
  BY <1>1, <1>2

NothingConnecting(s) == \A c \in Connections : s.pcb[c].state # "connecting"

\* A client that holds nothing gets a reference to c.
LEMMA RefCounts ==
  ASSUME NEW s, AllBound(s), NEW hd \in [Clients -> Connections \cup {Null}],
         NEW hd2, NEW h \in Clients, NEW c \in Connections,
         Takes(hd, hd2, h, c), hd[h] = Null, Ledger(s, hd), s.ctx[c].life = "alive"
  PROVE  Ledger(Ref(s, c), hd2)
<1> DEFINE t == Ref(s, c)
<1>1. ASSUME NEW d \in Connections
      PROVE  /\ s.ctx[d].refs \in Nat
             /\ Cardinality(Holders(hd2, d)) = IF d = c THEN s.ctx[d].refs + 1 ELSE s.ctx[d].refs
  <2>1. s.ctx[d].refs = Cardinality(Holders(hd, d)) /\ d # Null
    BY ConnectionsAreNumbers DEF Ledger
  <2> QED
    BY <2>1, HoldersMove
<1>2. ASSUME NEW d \in Connections
      PROVE  /\ t.ctx[d].life = s.ctx[d].life
             /\ t.ctx[d].refs = IF d = c THEN s.ctx[d].refs + 1 ELSE s.ctx[d].refs
  BY RefIs
<1> HIDE DEF t
<1>3. Ledger(t, hd2)
  BY <1>1, <1>2 DEF Ledger
<1> QED
  BY <1>3 DEF t

LEMMA RefMade ==
  ASSUME NEW s, AllBound(s), NEW hd, NEW hd2, NEW c \in Connections, Made(s, hd),
         NothingConnecting(s)
  PROVE  Made(Ref(s, c), hd2)
<1> DEFINE t == Ref(s, c)
<1>1. t.pcb = s.pcb
  BY RefIs
<1>2. ASSUME NEW d \in Connections
      PROVE  t.ctx[d].life = s.ctx[d].life /\ t.ctx[d].next = s.ctx[d].next
  BY RefIs
<1> HIDE DEF t
<1>3. Made(t, hd2)
  BY <1>1, <1>2 DEF Made, NothingConnecting
<1> QED
  BY <1>3 DEF t

\* A reference is copied.
LEMMA RefHolds ==
  ASSUME NEW s, AllBound(s), NEW hd \in [Clients -> Connections \cup {Null}],
         NEW head, NEW h \in Clients, NEW c \in Connections \cup {Null},
         RefsHold(s, hd, head), hd[h] = Null, NothingConnecting(s),
         c # Null => s.ctx[c].refs > 0
  PROVE  RefsHold(Ref(s, c), [hd EXCEPT ![h] = c], head)
<1>1. CASE c = Null
  <2>1. [hd EXCEPT ![h] = c] = hd /\ Ref(s, c) = s
    BY <1>1 DEF Ref
  <2> QED
    BY <2>1
<1>2. CASE c # Null
  <2> DEFINE t == Ref(s, c)
             hd2 == [hd EXCEPT ![h] = c]
  <2>1. Takes(hd, hd2, h, c)
    BY DEF Takes
  <2>2. c \in Connections /\ s.ctx[c].life = "alive"
    BY <1>2 DEF RefsHold, Ledger
  <2> HIDE DEF hd2
  <2>3. Ledger(t, hd2) /\ Made(t, hd2)
    BY <2>1, <2>2, RefCounts, RefMade DEF RefsHold
  <2>4. ASSUME NEW d \in Connections
        PROVE  /\ t.ctx[d].life = s.ctx[d].life /\ t.ctx[d].next = s.ctx[d].next
               /\ t.ctx[d].refs = IF d = c THEN s.ctx[d].refs + 1 ELSE s.ctx[d].refs
    BY <2>2, RefIs
  <2> HIDE DEF t
  <2>5. s.ctx[c].refs \in Nat /\ s.ctx[c].refs > 0
    <3>1. s.ctx[c].refs = Cardinality(Holders(hd, c))
      BY <2>2 DEF RefsHold, Ledger
    <3> QED
      BY <1>2, <2>1, <3>1, HoldersMove
  <2>6. Waiting(t.ctx) = Waiting(s.ctx)
    BY <2>4, <2>5 DEF Waiting
  <2>7. InLine(t, head)
    <3>1. \A d \in Waiting(s.ctx) : d \in Connections
      BY DEF Waiting
    <3> QED
      BY <2>4, <2>6, <3>1 DEF InLine, RefsHold
  <2> QED
    BY <2>3, <2>7 DEF RefsHold, t, hd2
<1> QED
  BY <1>1, <1>2

\* The first of the list is taken out of it.
LEMMA TakeHolds ==
  ASSUME NEW s, AllBound(s), NEW hd \in [Clients -> Connections \cup {Null}],
         NEW head, NEW h \in Clients,
         RefsHold(s, hd, head), hd[h] = Null, NothingConnecting(s), head # Null
  PROVE  /\ head \in Connections
         /\ RefsHold(Ref(s, head), [hd EXCEPT ![h] = head], s.ctx[head].next)
<1> DEFINE t == Ref(s, head)
           hd2 == [hd EXCEPT ![h] = head]
           S == Waiting(s.ctx)
<1>1. Takes(hd, hd2, h, head)
  BY DEF Takes
<1>2. head \in S /\ \A d \in S : head <= d
  <2>1. IsFirst(head, S, Null) /\ \A d \in S : d > Null
    BY ConnectionsAreNumbers DEF RefsHold, InLine, Waiting
  <2> QED
    BY <2>1 DEF IsFirst
<1>3. head \in Connections /\ s.ctx[head].life = "alive" /\ s.ctx[head].refs = 0
  BY <1>2 DEF Waiting
<1> HIDE DEF hd2
<1>4. Ledger(t, hd2) /\ Made(t, hd2)
  BY <1>1, <1>3, RefCounts, RefMade DEF RefsHold
<1>5. ASSUME NEW d \in Connections
      PROVE  /\ t.ctx[d].life = s.ctx[d].life /\ t.ctx[d].next = s.ctx[d].next
             /\ t.ctx[d].refs = IF d = head THEN s.ctx[d].refs + 1 ELSE s.ctx[d].refs
  BY <1>3, RefIs
<1> HIDE DEF t
<1>6. Waiting(t.ctx) = S \ {head}
  BY <1>3, <1>5 DEF Waiting
<1>7. S \subseteq Connections /\ S \subseteq Nat
  BY ConnectionsAreNumbers DEF Waiting
<1>8. \A d \in S : IsFirst(s.ctx[d].next, S, d)
  BY DEF RefsHold, InLine
<1> HIDE DEF S
<1>9. IsFirst(s.ctx[head].next, S \ {head}, Null)
  <2>1. \A d \in S : d > Null /\ (d # head <=> d > head)
    BY <1>2, <1>7, ConnectionsAreNumbers
  <2>2. \A d \in S : d # Null
    BY <1>7, ConnectionsAreNumbers
  <2> QED
    BY <1>2, <1>8, <2>1 DEF IsFirst
<1>10. ASSUME NEW d \in S \ {head} PROVE IsFirst(s.ctx[d].next, S \ {head}, d)
  <2>1. d > head /\ \A e \in S : e > d => e # head
    BY <1>2, <1>7
  <2> QED
    BY <1>8, <2>1 DEF IsFirst
<1>11. InLine(t, s.ctx[head].next)
  BY <1>5, <1>6, <1>7, <1>9, <1>10 DEF InLine
<1> QED
  BY <1>3, <1>4, <1>11 DEF RefsHold, t, hd2

LEMMA NoHolder ==
  ASSUME NEW s, NEW hd, Ledger(s, hd), NEW c \in Connections, s.ctx[c].life # "alive"
  PROVE  s.ctx[c].refs = 0 /\ Cardinality(Holders(hd, c)) = 0
<1>1. Holders(hd, c) \in SUBSET Clients
  BY DEF Holders
<1>2. Cardinality(Holders(hd, c)) \in Nat
  BY <1>1, TcpAssumption, FS_Subset, FS_CardinalityType
<1> QED
  BY <1>2 DEF Ledger

\* slist_append_tail comes to the context that was accepted last.
LEMMA LastIsGreatest ==
  ASSUME AllBound(State), RefsHold(State, handle, unclaimed), unclaimed # Null
  PROVE  /\ LastOf[unclaimed] \in Waiting(ctx)
         /\ \A d \in Waiting(ctx) : d <= LastOf[unclaimed]
<1> DEFINE S == Waiting(ctx)
           Good(c) == LastOf[c] \in S /\ \A d \in S : d <= LastOf[c]
           B == {c \in S : ~Good(c)}
<1>1. S \subseteq Connections /\ S \subseteq Nat /\ \A d \in S : d # Null
  BY ConnectionsAreNumbers DEF Waiting
<1>2. unclaimed \in S /\ \A d \in S : IsFirst(ctx[d].next, S, d)
  BY DEF RefsHold, InLine, State, IsFirst
<1>3. \A c \in Connections :
        LastOf[c] = IF ctx[c].next = Null THEN c ELSE LastOf[ctx[c].next]
  <2>1. \A c \in Connections :
          ctx[c].next = Null \/ (ctx[c].next \in Connections /\ c < ctx[c].next)
    BY DEF RefsHold, Made, AllBound, Bound, State
  <2> QED
    BY <2>1, LastOfIs
<1> HIDE DEF S
<1>4. B = {}
  <2> SUFFICES ASSUME B # {} PROVE FALSE
    OBVIOUS
  <2>1. PICK b \in B : \A y \in B : y <= b
    <3>1. B \subseteq Connections
      BY <1>1
    <3> HIDE DEF B
    <3> QED
      BY <3>1, GreatestConnection
  <2>2. b \in S /\ b \in Connections /\ b \in Nat /\ IsFirst(ctx[b].next, S, b)
    BY <1>1, <1>2
  <2>3. CASE \E d \in S : d > b
    <3>1. ctx[b].next \in S /\ ctx[b].next > b /\ ctx[b].next \in Nat
      BY <1>1, <2>2, <2>3 DEF IsFirst
    <3>2. ctx[b].next \notin B
      <4> HIDE DEF B
      <4> QED
        BY <2>1, <2>2, <3>1
    <3>3. Good(ctx[b].next)
      BY <3>1, <3>2
    <3>4. LastOf[b] = LastOf[ctx[b].next]
      BY <1>1, <1>3, <2>2, <3>1
    <3>5. Good(b)
      BY <3>3, <3>4
    <3> QED
      BY <2>1, <3>5
  <2>4. CASE ~\E d \in S : d > b
    <3>1. LastOf[b] = b
      BY <1>3, <2>2, <2>4 DEF IsFirst
    <3>2. \A d \in S : d <= b
      BY <1>1, <2>2, <2>4
    <3>3. Good(b)
      BY <2>2, <3>1, <3>2
    <3> QED
      BY <2>1, <3>3
  <2> QED
    BY <2>3, <2>4
<1>5. Good(unclaimed)
  BY <1>2, <1>4
<1> QED
  BY <1>5 DEF S

\* A new connection goes to the end of the list, or is the list.
Appends(s, t, head, c, k, x) ==
  LET S == Waiting(s.ctx)
  IN  /\ Waiting(t.ctx) = S \cup {c} /\ \A d \in S : d < c
      /\ x = IF head = Null THEN c ELSE head
      /\ head # Null => k \in S /\ \A d \in S : d <= k
      /\ t.ctx[c].next = Null
      /\ \A d \in S : t.ctx[d].next = IF d = k THEN c ELSE s.ctx[d].next

LEMMA AppendedInLine ==
  ASSUME NEW s, NEW t, NEW head, NEW c \in Connections, NEW k, NEW x,
         InLine(s, head), Appends(s, t, head, c, k, x)
  PROVE  InLine(t, x)
<1> DEFINE S == Waiting(s.ctx)
<1>1. S \subseteq Nat /\ c \in Nat /\ c # Null /\ c > Null /\ \A d \in S : d > Null /\ d # Null
  BY ConnectionsAreNumbers DEF Waiting
<1>2. IsFirst(head, S, Null) /\ \A d \in S : IsFirst(s.ctx[d].next, S, d)
  BY DEF InLine
<1>3. /\ Waiting(t.ctx) = S \cup {c} /\ \A d \in S : d < c
      /\ x = IF head = Null THEN c ELSE head
      /\ t.ctx[c].next = Null
  BY DEF Appends
<1>4. \A d \in S : t.ctx[d].next = IF d = k THEN c ELSE s.ctx[d].next
  BY DEF Appends
<1>5. head # Null => k \in S /\ \A d \in S : d <= k
  BY DEF Appends
<1> HIDE DEF S
<1>6. head = Null => S = {}
  BY <1>1, <1>2 DEF IsFirst
<1>7. IsFirst(x, S \cup {c}, Null)
  <2>1. CASE head = Null
    BY <1>1, <1>3, <1>6, <2>1 DEF IsFirst
  <2>2. CASE head # Null
    <3>1. head \in S /\ \A d \in S : head <= d
      BY <1>1, <1>2, <2>2 DEF IsFirst
    <3> QED
      BY <1>1, <1>3, <2>2, <3>1 DEF IsFirst
  <2> QED
    BY <2>1, <2>2
<1>8. IsFirst(t.ctx[c].next, S \cup {c}, c)
  <2>2. ~(c > c)
    BY <1>1
  <2>3. ASSUME NEW d \in S PROVE ~(d > c)
    <3>1. d \in Nat /\ c \in Nat /\ d < c
      BY <1>1, <1>3
    <3> QED
      BY <3>1
  <2>1. ~\E d \in S \cup {c} : d > c
    BY <2>2, <2>3
  <2> QED
    BY <1>3, <2>1 DEF IsFirst
<1>9. ASSUME NEW d \in S PROVE IsFirst(t.ctx[d].next, S \cup {c}, d)
  <2>1. k \in S /\ \A e \in S : e <= k
    BY <1>5, <1>6
  <2>2. CASE d = k
    <3>1. t.ctx[d].next = c /\ c > d /\ \A e \in S : ~(e > d)
      BY <1>1, <1>3, <1>4, <2>1, <2>2
    <3> QED
      BY <1>1, <3>1 DEF IsFirst
  <2>3. CASE d # k
    <3>1. k > d /\ k < c
      BY <1>1, <1>3, <2>1, <2>3
    <3>2. IsFirst(s.ctx[d].next, S, d)
      BY <1>2
    <3> DEFINE n == s.ctx[d].next
    <3> HIDE DEF n
    <3>3. n \in S /\ n > d /\ \A e \in S : e > d => n <= e
      BY <2>1, <3>1, <3>2 DEF IsFirst, n
    <3>4. n < c /\ n \in Nat
      BY <1>1, <1>3, <3>3
    <3>5. IsFirst(n, S \cup {c}, d)
      BY <1>1, <3>3, <3>4 DEF IsFirst
    <3> QED
      BY <1>4, <2>3, <3>5 DEF n
  <2> QED
    BY <2>2, <2>3
<1> QED
  BY <1>3, <1>7, <1>8, <1>9 DEF InLine

LEMMA AcceptHolds ==
  ASSUME TcpInv, RefsHold(State, handle, unclaimed), accept
  PROVE  RefsHold(State', handle', unclaimed')
<1>1. PICK c \in Fresh :
        /\ ctx' = Appended([ctx EXCEPT ![c] = ClientContext(0)], c)
        /\ unclaimed' = IF unclaimed = Null THEN c ELSE unclaimed
        /\ pcb' = [pcb EXCEPT ![c].state = "established", ![c].arg = ToContext]
  BY DEF accept
<1>2. handle' = handle /\ AllBound(State)
  BY DEF accept, TcpInv
<1>3. /\ c \in Connections /\ pcb[c].state = "none"
      /\ \A d \in Connections : d < c => pcb[d].state # "none"
  BY <1>1 DEF Fresh, Connections
<1> DEFINE new == ClientContext(0)
           c1 == [ctx EXCEPT ![c] = new]
           k == LastOf[unclaimed]
           c2 == [c1 EXCEPT ![k].next = c]
           p2 == [pcb EXCEPT ![c].state = "established", ![c].arg = ToContext]
           S == Waiting(ctx)
<1>4. new.life = "alive" /\ new.refs = 0 /\ new.next = Null /\ "next" \in DOMAIN new
  BY DEF ClientContext, NoContext
<1>5. ctx[c].life = "none" /\ ctx[c].refs = 0 /\ c \notin S
  <2>1. ctx[c].life = "none"
    BY <1>3 DEF RefsHold, Made, State
  <2> QED
    BY <1>3, <2>1, NoHolder DEF RefsHold, State, Waiting
<1>6. \A d \in S : d \in Connections /\ d < c
  <2> SUFFICES ASSUME NEW d \in S PROVE d \in Connections /\ d < c
    OBVIOUS
  <2>1. d \in Connections /\ ctx[d].life = "alive" /\ d # c
    BY <1>5 DEF Waiting
  <2>2. pcb[d].state # "none"
    BY <2>1 DEF RefsHold, Made, State
  <2>3. ~(c < d)
    BY <1>3, <2>1, <2>2 DEF RefsHold, Made, State
  <2> QED
    BY <1>3, <2>1, <2>3, ConnectionsAreNumbers
<1>7. unclaimed # Null => k \in S /\ \A d \in S : d <= k
  BY <1>2, LastIsGreatest
<1>8. ctx' = IF unclaimed = Null THEN c1 ELSE c2
  BY <1>1 DEF Appended
<1>9. DOMAIN ctx = Connections /\ DOMAIN pcb = Connections
      /\ \A d \in Connections : IsContext(ctx[d]) /\ IsPcb(pcb[d])
  BY <1>2 DEF AllBound, Shaped, State
<1> HIDE DEF new, k
<1>10. DOMAIN c1 = Connections /\ \A d \in Connections :
         c1[d] = (IF d = c THEN new ELSE ctx[d]) /\ "next" \in DOMAIN c1[d]
  BY <1>4, <1>9 DEF IsContext
<1> HIDE DEF c1
<1>11. ASSUME NEW d \in Connections
       PROVE  /\ c2[d].life = c1[d].life /\ c2[d].refs = c1[d].refs
              /\ c2[d].next = IF d = k THEN c ELSE c1[d].next
  <2>1. "next" \in DOMAIN c1[d] /\ d \in DOMAIN c1
    BY <1>10
  <2> QED
    BY <2>1
<1> HIDE DEF c2
<1>12. unclaimed # Null => k # c /\ k \in S
  BY <1>5, <1>7
<1>13. ASSUME NEW d \in Connections
       PROVE  /\ ctx'[d].life = IF d = c THEN "alive" ELSE ctx[d].life
              /\ ctx'[d].refs = IF d = c THEN 0 ELSE ctx[d].refs
              /\ ctx'[d].next = IF d = c THEN Null
                                ELSE IF unclaimed # Null /\ d = k THEN c ELSE ctx[d].next
  BY <1>4, <1>8, <1>10, <1>11, <1>12
<1>14. pcb' = p2
  BY <1>1
<1>15. ASSUME NEW d \in Connections
       PROVE  /\ p2[d].state = IF d = c THEN "established" ELSE pcb[d].state
              /\ d # c => p2[d].arg = pcb[d].arg
  BY <1>9 DEF IsPcb
<1> HIDE DEF p2
<1> DEFINE t == [ctx |-> ctx', pcb |-> p2]
<1>16. t.ctx = ctx' /\ t.pcb = p2
  OBVIOUS
<1>17. State' = t
  BY <1>14 DEF State
<1> HIDE DEF t
<1>18. Ledger(t, handle)
  <2>1. Cardinality(Holders(handle, c)) = 0
    BY <1>3, <1>5, NoHolder DEF RefsHold, State
  <2> QED
    BY <1>13, <1>16, <2>1 DEF RefsHold, Ledger, State
<1>19. Waiting(t.ctx) = S \cup {c}
  <2>1. S \subseteq Connections /\ Waiting(t.ctx) \subseteq Connections
    BY DEF Waiting
  <2>2. ASSUME NEW d \in Connections PROVE d \in Waiting(t.ctx) <=> d \in S \/ d = c
    BY <1>5, <1>13, <1>16 DEF Waiting
  <2> QED
    BY <1>3, <2>1, <2>2
<1>20. InLine(t, unclaimed')
  <2>1. InLine(State, unclaimed) /\ Waiting(State.ctx) = S
    BY DEF RefsHold, State
  <2>2. unclaimed = Null => S = {}
    <3>1. \A d \in S : d > Null /\ d # Null
      BY <1>6, ConnectionsAreNumbers
    <3> QED
      BY <2>1, <3>1 DEF InLine, IsFirst
  <2>3. \A d \in S : t.ctx[d].next = IF d = k THEN c ELSE State.ctx[d].next
    <3>1. State.ctx = ctx
      BY DEF State
    <3>2. \A d \in S : d \in Connections /\ d # c
      BY <1>5, <1>6
    <3> QED
      BY <1>13, <1>16, <2>2, <3>1, <3>2
  <2>4. t.ctx[c].next = Null
    BY <1>3, <1>13, <1>16
  <2>5. unclaimed' = IF unclaimed = Null THEN c ELSE unclaimed
    BY <1>1
  <2> HIDE DEF S
  <2>6. Appends(State, t, unclaimed, c, k, unclaimed')
    BY <1>6, <1>7, <1>19, <2>1, <2>3, <2>4, <2>5 DEF Appends
  <2> QED
    BY <1>3, <2>1, <2>6, AppendedInLine
<1>21. Made(t, handle)
  <2>1. ASSUME NEW d \in Connections PROVE t.ctx[d].next = Null \/ d < t.ctx[d].next
    <3>1. ctx[d].next = Null \/ d < ctx[d].next
      BY DEF RefsHold, Made, State
    <3> QED
      BY <1>6, <1>7, <1>13, <1>16, <3>1
  <2>2. ASSUME NEW a \in Connections, NEW b \in Connections, a < b, t.pcb[b].state # "none"
        PROVE  t.pcb[a].state # "none"
    <3>1. pcb[b].state # "none" => pcb[a].state # "none"
      BY <2>2 DEF RefsHold, Made, State
    <3> QED
      BY <1>3, <1>15, <1>16, <2>2, <3>1
  <2>3. ASSUME NEW d \in Connections
        PROVE  /\ t.pcb[d].state \in {"none", "connecting"} => t.ctx[d].life = "none"
               /\ t.pcb[d].state = "connecting" =>
                    t.pcb[d].arg \in Clients /\ handle[t.pcb[d].arg] = Null
    <3>1. /\ pcb[d].state \in {"none", "connecting"} => ctx[d].life = "none"
          /\ pcb[d].state = "connecting" =>
               pcb[d].arg \in Clients /\ handle[pcb[d].arg] = Null
      BY DEF RefsHold, Made, State
    <3> QED
      BY <1>13, <1>15, <1>16, <3>1
  <2> QED
    BY <2>1, <2>2, <2>3 DEF Made
<1> QED
  BY <1>2, <1>17, <1>18, <1>20, <1>21 DEF RefsHold

\* The context of a connection that was asked for is held from the beginning.
LEMMA ConnectedHolds ==
  ASSUME TcpInv, Handles, RefsHold(State, handle, unclaimed),
         NEW c \in Connections, connected(c)
  PROVE  RefsHold(State', handle', unclaimed')
<1> DEFINE h == pcb[c].arg
           new == ClientContext(1)
           c2 == [ctx EXCEPT ![c] = new]
           p2 == [pcb EXCEPT ![c].state = "established", ![c].arg = ToContext]
           hd2 == [handle EXCEPT ![h] = c]
           t == [ctx |-> c2, pcb |-> p2]
<1>1. pcb[c].state = "connecting" /\ handle' = hd2 /\ unclaimed' = unclaimed /\ State' = t
  BY DEF connected, State
<1>2. AllBound(State) /\ \A d \in Connections : d # c => pcb[d].state # "connecting"
  BY <1>1 DEF TcpInv, Waits
<1>3. h \in Clients /\ handle[h] = Null /\ ctx[c].life = "none"
  BY <1>1 DEF RefsHold, Made, State
<1>4. Takes(handle, hd2, h, c)
  BY DEF Handles, Takes
<1>5. new.life = "alive" /\ new.refs = 1 /\ new.next = Null
  BY DEF ClientContext, NoContext
<1>6. DOMAIN ctx = Connections /\ DOMAIN pcb = Connections
      /\ \A d \in Connections : IsContext(ctx[d]) /\ IsPcb(pcb[d])
  BY <1>2 DEF AllBound, Shaped, State
<1> HIDE DEF new
<1>7. ASSUME NEW d \in Connections
      PROVE  /\ c2[d] = IF d = c THEN new ELSE ctx[d]
             /\ p2[d].state = IF d = c THEN "established" ELSE pcb[d].state
             /\ d # c => p2[d].arg = pcb[d].arg
  BY <1>6 DEF IsPcb
<1> HIDE DEF c2, p2
<1>8. t.ctx = c2 /\ t.pcb = p2
  OBVIOUS
<1> HIDE DEF t
<1>9. ctx[c].refs = 0 /\ Cardinality(Holders(handle, c)) = 0
  BY <1>3, NoHolder DEF RefsHold, State
<1> HIDE DEF hd2, h
<1>10. Ledger(t, hd2)
  <2>1. ASSUME NEW d \in Connections
        PROVE  Cardinality(Holders(hd2, d)) = IF d = c THEN 1 ELSE ctx[d].refs
    <3>1. ctx[d].refs = Cardinality(Holders(handle, d)) /\ d # Null
      BY ConnectionsAreNumbers DEF RefsHold, Ledger, State
    <3>2. Cardinality(Holders(hd2, d)) =
            IF c = d THEN Cardinality(Holders(handle, d)) + 1
            ELSE Cardinality(Holders(handle, d))
      BY <1>3, <1>4, <3>1, HoldersMove
    <3> QED
      BY <1>9, <3>1, <3>2
  <2> QED
    BY <1>5, <1>7, <1>8, <2>1 DEF RefsHold, Ledger, State
<1>11. Waiting(t.ctx) = Waiting(ctx) /\ c \notin Waiting(ctx)
  BY <1>3, <1>5, <1>7, <1>8 DEF Waiting
<1>12. InLine(t, unclaimed)
  <2>1. \A d \in Waiting(ctx) : d \in Connections /\ d # c
    BY <1>11 DEF Waiting
  <2>2. State.ctx = ctx
    BY DEF State
  <2> QED
    BY <1>7, <1>8, <1>11, <2>1, <2>2 DEF RefsHold, InLine
<1>13. Made(t, hd2)
  <2>1. \A d \in Connections : t.ctx[d].next = Null \/ d < t.ctx[d].next
    BY <1>5, <1>7, <1>8 DEF RefsHold, Made, State
  <2>2. \A a, b \in Connections :
          a < b /\ t.pcb[b].state # "none" => t.pcb[a].state # "none"
    BY <1>1, <1>7, <1>8 DEF RefsHold, Made, State
  <2>3. \A d \in Connections : t.pcb[d].state # "connecting"
    BY <1>2, <1>7, <1>8
  <2>4. \A d \in Connections : t.pcb[d].state = "none" => t.ctx[d].life = "none"
    BY <1>7, <1>8 DEF RefsHold, Made, State
  <2> QED
    BY <2>1, <2>2, <2>3, <2>4 DEF Made
<1> QED
  BY <1>1, <1>10, <1>12, <1>13 DEF RefsHold

\* A connection is asked for, for a client that holds nothing any more.
LEMMA AskedMade ==
  ASSUME NEW s, NEW t, NEW hd, NEW h \in Clients, hd[h] = Null, Made(s, hd),
         NEW c \in Connections, s.pcb[c].state = "none",
         \A d \in Connections : d < c => s.pcb[d].state # "none",
         t.ctx = s.ctx, \A d \in Connections : d # c => t.pcb[d] = s.pcb[d],
         t.pcb[c].state \in {"connecting", "unconnected"},
         t.pcb[c].state = "connecting" => t.pcb[c].arg = h
  PROVE  Made(t, hd)
<1>1. \A d \in Connections : t.ctx[d].next = Null \/ d < t.ctx[d].next
  BY DEF Made
<1>2. \A a, b \in Connections :
        a < b /\ t.pcb[b].state # "none" => t.pcb[a].state # "none"
  BY DEF Made
<1>3. \A d \in Connections :
        t.pcb[d].state \in {"none", "connecting"} => t.ctx[d].life = "none"
  BY DEF Made
<1>4. \A d \in Connections :
        t.pcb[d].state = "connecting" => t.pcb[d].arg \in Clients /\ hd[t.pcb[d].arg] = Null
  BY DEF Made
<1> QED
  BY <1>1, <1>2, <1>3, <1>4 DEF Made

LEMMA StartHolds ==
  ASSUME TcpInv, Handles, RefsHold(State, handle, unclaimed), NEW h \in Clients,
         startConnect(h)
  PROVE  RefsHold(State', handle', unclaimed')
<1> DEFINE s == Unref(State, handle[h])
           hd2 == [handle EXCEPT ![h] = Null]
<1>1. AllBound(State) /\ handle[h] \in Connections \cup {Null}
  BY DEF TcpInv, Handles
<1>2. /\ ctx' = s.ctx /\ handle' = hd2 /\ unclaimed' = unclaimed
      /\ pcb' = s.pcb \/ \E c \in Fresh : Asked(s, h, c, pcb')
  BY <1>1, Starts
<1>3. hd2[h] = Null
  BY DEF Handles
<1>4. RefsHold(s, hd2, unclaimed) /\ AllBound(s)
  BY <1>1, UnrefHolds, UnrefKeeps, KeptIsBound DEF Handles
<1>5. \A d \in Connections : s.pcb[d].state = "none" <=> pcb[d].state = "none"
  <2>1. handle[h] = Null => s = State
    BY DEF Unref
  <2>2. handle[h] # Null =>
          \A d \in Connections : s.pcb[d].state = "none" <=> State.pcb[d].state = "none"
    BY <1>1, UnrefIs
  <2> QED
    BY <2>1, <2>2 DEF State
<1> HIDE DEF s, hd2
<1> DEFINE t == State'
<1>6. t.ctx = s.ctx /\ t.pcb = pcb'
  BY <1>2 DEF State
<1> HIDE DEF t
<1>7. Ledger(t, hd2) /\ InLine(t, unclaimed)
  BY <1>4, <1>6 DEF RefsHold, Ledger, InLine
<1>8. Made(s, hd2)
  BY <1>4 DEF RefsHold
<1>9. ASSUME pcb' = s.pcb PROVE Made(t, hd2)
  BY <1>6, <1>8, <1>9 DEF Made
<1>10. ASSUME NEW c \in Fresh, Asked(s, h, c, pcb') PROVE Made(t, hd2)
  <2>1. c \in Connections /\ pcb[c].state = "none"
    BY DEF Fresh
  <2>2. \A d \in Connections : d < c => pcb[d].state # "none"
    BY DEF Fresh, Connections
  <2>3. s.pcb[c].state = "none" /\ \A d \in Connections : d < c => s.pcb[d].state # "none"
    BY <1>5, <2>1, <2>2
  <2>4. /\ \A d \in Connections : d # c => t.pcb[d] = s.pcb[d]
        /\ t.pcb[c].state \in {"connecting", "unconnected"}
        /\ t.pcb[c].state = "connecting" => t.pcb[c].arg = h
    BY <1>6, <1>10 DEF Asked
  <2> QED
    BY <1>3, <1>6, <1>8, <2>1, <2>3, <2>4, AskedMade
<1>11. Made(t, hd2)
  BY <1>2, <1>9, <1>10
<1> QED
  BY <1>2, <1>7, <1>11 DEF RefsHold, t

\* The fields of a context and of a pcb that are not about references.
SameFields(x, y) == x.life = y.life /\ x.refs = y.refs /\ x.next = y.next

LEMMA QuietHolds ==
  ASSUME RefsHold(State, handle, unclaimed), Untouched(State, State'),
         UNCHANGED <<handle, unclaimed>>
  PROVE  RefsHold(State', handle', unclaimed')
  BY UntouchedHolds

\* The operations of a context, as steps.
LEMMA BecomesLeaves ==
  ASSUME NEW t, Untouched(State, t), Becomes(t)
  PROVE  Untouched(State, State')
<1>1. State'.ctx = t.ctx /\ State'.pcb = t.pcb
  BY DEF State, Becomes
<1> QED
  BY <1>1 DEF Untouched

\* The steps that assign fields.
LEMMA AssignLeaves ==
  ASSUME \A d \in Connections : SameFields(ctx'[d], ctx[d]),
         \A d \in Connections :
           /\ pcb'[d].state = "none" <=> pcb[d].state = "none"
           /\ pcb'[d].state = "connecting" =>
                pcb[d].state = "connecting" /\ pcb'[d].arg = pcb[d].arg
  PROVE  Untouched(State, State')
<1>1. State.ctx = ctx /\ State.pcb = pcb /\ State'.ctx = ctx' /\ State'.pcb = pcb'
  BY DEF State
<1> QED
  BY <1>1 DEF Untouched, SameFields

LEMMA ReadLeaves ==
  ASSUME TcpInv, NEW h \in Clients, NEW n, read(h, n)
  PROVE  Untouched(State, State')
<1> DEFINE c == handle[h]
           x == Read([rx |-> ctx[c].rx, offset |-> ctx[c].offset,
                      taken |-> ctx[c].taken, recved |-> 0], n)
           r == Recved(State, c, x.recved)
           c2 == [ctx EXCEPT ![c].rx = x.rx, ![c].offset = x.offset,
                             ![c].taken = x.taken]
<1>1. AllBound(State) /\ ctx' = c2 /\ pcb' = r.pcb
  BY DEF TcpInv, read
<1>2. Untouched(State, r)
  BY <1>1, RecvedLeaves
<1> HIDE DEF r, x, c
<1>3. \A d \in Connections : SameFields(c2[d], ctx[d])
  BY <1>1 DEF AllBound, Shaped, IsContext, State, SameFields
<1> HIDE DEF c2
<1>4. \A d \in Connections :
        /\ r.pcb[d].state = "none" <=> pcb[d].state = "none"
        /\ r.pcb[d].state = "connecting" =>
             pcb[d].state = "connecting" /\ r.pcb[d].arg = pcb[d].arg
  BY <1>2 DEF Untouched, State
<1> QED
  BY <1>1, <1>3, <1>4, AssignLeaves

LEMMA WriteLeaves ==
  ASSUME TcpInv, NEW h \in Clients, NEW n, write(h, n),
         ~UNCHANGED tcpVars
  PROVE  Untouched(State, State')
<1> DEFINE c == handle[h]
           will == Lesser(SendBuffer - pcb[c].unacked, n)
           counted == Counted(n, will)
           both == pcb[c].unacked + will
           c2 == [ctx EXCEPT ![c].size_sent = counted, ![c].send_waiting = TRUE]
           p2 == [pcb EXCEPT ![c].unacked = both]
<1>1. AllBound(State) /\ ctx' = c2 /\ pcb' = p2
  BY Zenon DEF TcpInv, write
<1> HIDE DEF c, will, counted, both
<1>2. \A d \in Connections : SameFields(c2[d], ctx[d])
  BY <1>1 DEF AllBound, Shaped, IsContext, State, SameFields
<1>3. \A d \in Connections : p2[d].state = pcb[d].state /\ p2[d].arg = pcb[d].arg
  BY <1>1 DEF AllBound, Shaped, IsPcb, State
<1> HIDE DEF c2, p2
<1> QED
  BY <1>1, <1>2, <1>3, AssignLeaves

LEMMA SegmentLeaves ==
  ASSUME TcpInv, NEW c \in Connections, NEW n, receive(c, n) \/ sent(c, n)
  PROVE  Untouched(State, State')
<1> DEFINE rx2 == Append(ctx[c].rx, [i \in 1 .. n |-> pcb[c].received + i])
           sum == pcb[c].received + n
           left == (ctx[c].size_sent - n) % SizeMod
           less == pcb[c].unacked - n
           c1 == [ctx EXCEPT ![c].rx = rx2]
           p1 == [pcb EXCEPT ![c].received = sum]
           c2 == [ctx EXCEPT ![c].size_sent = left]
           p2 == [pcb EXCEPT ![c].unacked = less]
<1>1. AllBound(State) /\ \/ ctx' = c1 /\ pcb' = p1
                         \/ ctx' = c2 /\ pcb' = p2
  BY DEF TcpInv, receive, sent
<1> HIDE DEF rx2, sum, left, less
<1>2. \A d \in Connections : SameFields(c1[d], ctx[d]) /\ SameFields(c2[d], ctx[d])
  BY <1>1 DEF AllBound, Shaped, IsContext, State, SameFields
<1>3. \A d \in Connections :
        /\ p1[d].state = pcb[d].state /\ p1[d].arg = pcb[d].arg
        /\ p2[d].state = pcb[d].state /\ p2[d].arg = pcb[d].arg
  BY <1>1 DEF AllBound, Shaped, IsPcb, State
<1> HIDE DEF c1, c2, p1, p2
<1> QED
  BY <1>1, <1>2, <1>3, AssignLeaves

LEMMA FailedLeaves ==
  ASSUME TcpInv, NEW c \in Connections, connectFailed(c)
  PROVE  Untouched(State, State')
<1> DEFINE p2 == [pcb EXCEPT ![c].state = "closed", ![c].arg = Nobody]
<1>1. AllBound(State) /\ ctx' = ctx /\ pcb' = p2 /\ pcb[c].state = "connecting"
  BY DEF TcpInv, connectFailed
<1>2. \A d \in Connections :
        /\ p2[d].state = IF d = c THEN "closed" ELSE pcb[d].state
        /\ d # c => p2[d].arg = pcb[d].arg
  BY <1>1 DEF AllBound, Shaped, IsPcb, State
<1> HIDE DEF p2
<1> QED
  BY <1>1, <1>2, AssignLeaves DEF SameFields

\* The task goes on, and a write that is over waits no more.
LEMMA RunsLeaves ==
  ASSUME TcpInv, pcb' = pcb,
         ctx' = IF task.at = "write"
                THEN [ctx EXCEPT ![task.conn].send_waiting = FALSE] ELSE ctx
  PROVE  Untouched(State, State')
<1> DEFINE c2 == [ctx EXCEPT ![task.conn].send_waiting = FALSE]
<1>1. AllBound(State) /\ (ctx' = c2 \/ ctx' = ctx)
  BY DEF TcpInv
<1>2. \A d \in Connections : SameFields(c2[d], ctx[d])
  BY <1>1 DEF AllBound, Shaped, IsContext, State, SameFields
<1> HIDE DEF c2
<1> QED
  BY <1>1, <1>2, AssignLeaves DEF SameFields

LEMMA StillLeaves == ASSUME UNCHANGED <<ctx, pcb>> PROVE Untouched(State, State')
  BY AssignLeaves DEF SameFields

\* A question for a name is asked on behalf of a client.
Asks == task.at = "dns" => task.client \in Clients

LEMMA AsksStep == Asks /\ [TcpNext]_tcpVars => Asks'
<1> SUFFICES ASSUME Asks, [TcpNext]_tcpVars PROVE Asks'
  OBVIOUS
<1>1. CASE task' = task
  BY <1>1 DEF Asks
<1>2. ASSUME task'.at # "dns" PROVE Asks'
  BY <1>2 DEF Asks
<1>3. ASSUME NEW h, startConnect(h) PROVE Asks'
  <2>1. task'.at \in {"connect", "running"}
    BY <1>3, StartsAt
  <2> QED
    BY <1>2, <2>1
<1>4. CASE \E h \in Clients : connect(h)
  <2>1. PICK h \in Clients : connect(h)
    BY <1>4
  <2>2. CASE task' = [Wait("dns") EXCEPT !.client = h]
    <3>1. task'.client = h
      BY <2>2 DEF Wait, RunTask
    <3> QED
      BY <3>1 DEF Asks
  <2> QED
    BY <1>3, <2>1, <2>2 DEF connect
<1>5. CASE resume
  <2>1. RunTask.at = "running"
    BY DEF RunTask
  <2> QED
    BY <1>2, <1>3, <1>5, <2>1 DEF resume
<1>6. CASE yield \/ delay
  BY <1>2, <1>6 DEF yield, delay, Wait, RunTask
<1>7. CASE (\E h \in Clients, n \in WriteSizes : write(h, n)) /\ ~UNCHANGED tcpVars
  <2>1. PICK h \in Clients, n \in WriteSizes : write(h, n) /\ ~UNCHANGED tcpVars
    BY <1>7
  <2>2. task' = [at |-> "write", client |-> h, conn |-> handle[h],
                 leftover |-> pcb[handle[h]].unacked > 0]
    BY <2>1, Zenon DEF write
  <2>3. task'.at = "write"
    BY <2>2
  <2> QED
    BY <1>2, <2>3
<1>8. CASE \/ \E h \in Clients : available(h) \/ stop(h) \/ flush(h)
           \/ \E h, g \in Clients : assign(h, g)
  BY <1>1, <1>8 DEF available, stop, flush, assign
<1>9. CASE \E h \in Clients, n \in Sizes : read(h, n)
  BY <1>1, <1>9 DEF read
<1>10. CASE accept \/ dnsAnswer \/ timerFires
  BY <1>1, <1>10 DEF accept, dnsAnswer, timerFires
<1>11. CASE \E c \in Connections : \/ closedByPeer(c) \/ error(c)
                                   \/ connected(c) \/ connectFailed(c)
  BY <1>1, <1>11 DEF closedByPeer, error, connected, connectFailed
<1>12. CASE \E c \in Connections, n \in Sizes : receive(c, n) \/ sent(c, n)
  BY <1>1, <1>12 DEF receive, sent
<1>13. CASE UNCHANGED tcpVars
  BY <1>1, <1>13 DEF tcpVars
<1> QED
  BY <1>4, <1>5, <1>6, <1>7, <1>8, <1>9, <1>10, <1>11, <1>12, <1>13
  DEF TcpNext, sketchStep, callback

References == RefsHold(State, handle, unclaimed)

\* The operations that hand a reference over.
LEMMA HandOverHolds ==
  ASSUME TcpInv, Handles, References, NEW h \in Clients, NEW g \in Clients,
         available(h) \/ stop(h) \/ assign(h, g)
  PROVE  References'
<1>1. AllBound(State) /\ handle \in [Clients -> Connections \cup {Null}]
      /\ RefsHold(State, handle, unclaimed) /\ NothingConnecting(State)
  BY Free DEF TcpInv, Handles, References, NothingConnecting, State, available, stop, assign
<1>2. ASSUME NEW t, Becomes(t), RefsHold(t, handle', unclaimed')
      PROVE  References'
  <2>1. State'.ctx = t.ctx /\ State'.pcb = t.pcb
    BY <1>2 DEF State, Becomes
  <2>2. RefsHold(State', handle', unclaimed')
    BY <1>2, <2>1 DEF RefsHold, Ledger, InLine, Made
  <2> QED
    BY <2>2 DEF References
<1>3. CASE available(h)
  <2>1. RefsHold(Ref(State, unclaimed), [handle EXCEPT ![h] = unclaimed],
                 State.ctx[unclaimed].next)
    BY <1>1, <1>3, TakeHolds DEF available
  <2>2. State.ctx = ctx
    BY DEF State
  <2> QED
    BY <1>2, <1>3, <2>1, <2>2 DEF available
<1>4. CASE stop(h)
  <2>1. RefsHold(Unref(State, handle[h]), [handle EXCEPT ![h] = Null], unclaimed)
    BY <1>1, UnrefHolds
  <2> QED
    BY <1>2, <1>4, <2>1 DEF stop
<1>5. CASE assign(h, g)
  <2> DEFINE c == handle[g]
             s == Unref(State, handle[h])
             hd2 == [handle EXCEPT ![h] = Null]
             hd3 == [hd2 EXCEPT ![h] = c]
  <2>1. h # g /\ handle' = [handle EXCEPT ![h] = c] /\ unclaimed' = unclaimed
        /\ Becomes(Ref(s, c))
    BY <1>5 DEF assign, Assigned
  <2>2. RefsHold(s, hd2, unclaimed) /\ Kept(State, s)
    BY <1>1, UnrefHolds, UnrefKeeps
  <2>3. /\ hd2 \in [Clients -> Connections \cup {Null}] /\ hd2[h] = Null
        /\ hd2[g] = c /\ c \in Connections \cup {Null} /\ hd3 = handle'
    BY <1>1, <2>1
  <2>4. NothingConnecting(s) /\ AllBound(s)
    BY <1>1, <2>2, KeptIsBound DEF Kept, NothingConnecting
  <2> HIDE DEF s, hd2, c
  <2>5. c # Null => s.ctx[c].refs > 0
    <3>1. Takes(hd2, hd3, h, c)
      BY <2>3 DEF Takes
    <3>2. Takes(hd2, [hd2 EXCEPT ![g] = Null], g, Null)
      BY <2>3 DEF Takes
    <3>3. Cardinality(Holders(hd2, c)) \in Nat /\ Cardinality(Holders(hd2, c)) > 0
      BY <2>3, <3>2, HoldersMove
    <3>4. c # Null => s.ctx[c].refs = Cardinality(Holders(hd2, c))
      BY <2>2, <2>3 DEF RefsHold, Ledger
    <3> QED
      BY <3>3, <3>4
  <2>6. RefsHold(Ref(s, c), hd3, unclaimed)
    BY <2>2, <2>3, <2>4, <2>5, RefHolds
  <2> QED
    BY <1>2, <2>1, <2>3, <2>6
<1> QED
  BY <1>3, <1>4, <1>5

LEMMA ReferencesStep ==
  TcpInv /\ Handles /\ Asks /\ References /\ [TcpNext]_tcpVars => References'
<1> SUFFICES ASSUME TcpInv, Handles, Asks, References, [TcpNext]_tcpVars
             PROVE  References'
  OBVIOUS
<1>1. ASSUME Untouched(State, State'), UNCHANGED <<handle, unclaimed>>
      PROVE  References'
  BY <1>1, QuietHolds DEF References
<1>2. ASSUME NEW h \in Clients, startConnect(h) PROVE References'
  BY <1>2, StartHolds DEF References
<1>3. CASE \/ \E h \in Clients : available(h) \/ stop(h)
           \/ \E h, g \in Clients : assign(h, g)
  BY <1>3, HandOverHolds
<1>4. CASE \E h \in Clients : flush(h)
  <2>1. PICK h \in Clients : flush(h)
    BY <1>4
  <2>2. Untouched(State, Flush(State, handle[h]))
    BY FlushLeaves DEF TcpInv
  <2> QED
    BY <1>1, <2>1, <2>2, BecomesLeaves DEF flush
<1>5. CASE \E h \in Clients : connect(h)
  BY <1>1, <1>2, <1>5, StillLeaves DEF connect
<1>6. CASE \E h \in Clients, n \in Sizes : read(h, n)
  BY <1>1, <1>6, ReadLeaves DEF read
<1>7. CASE (\E h \in Clients, n \in WriteSizes : write(h, n)) /\ ~UNCHANGED tcpVars
  BY <1>1, <1>7, WriteLeaves DEF write
<1>8. CASE yield \/ delay \/ dnsAnswer \/ timerFires
  BY <1>1, <1>8, StillLeaves DEF yield, delay, dnsAnswer, timerFires
<1>9. CASE resume
  <2>1. CASE task.at = "dns" /\ startConnect(task.client)
    BY <1>2, <2>1 DEF Asks
  <2>2. CASE /\ task' = RunTask
             /\ timer' = IF task.at \in {"write", "delay"} THEN FALSE ELSE timer
             /\ ctx' = IF task.at = "write"
                       THEN [ctx EXCEPT ![task.conn].send_waiting = FALSE] ELSE ctx
             /\ UNCHANGED <<pcb, handle, unclaimed>>
    BY <1>1, <2>2, RunsLeaves
  <2> QED
    BY <1>9, <2>1, <2>2 DEF resume
<1>10. CASE accept
  BY <1>10, AcceptHolds DEF References
<1>11. CASE \E c \in Connections : closedByPeer(c) \/ error(c)
  <2>1. PICK c \in Connections : closedByPeer(c) \/ error(c)
    BY <1>11
  <2>2. Untouched(State, Close(State, c))
    BY CloseLeaves DEF TcpInv
  <2> QED
    BY <1>1, <2>1, <2>2, BecomesLeaves DEF closedByPeer, error
<1>12. CASE \E c \in Connections : connected(c)
  BY <1>12, ConnectedHolds DEF References
<1>13. CASE \E c \in Connections : connectFailed(c)
  BY <1>1, <1>13, FailedLeaves DEF connectFailed
<1>14. CASE \E c \in Connections, n \in Sizes : receive(c, n) \/ sent(c, n)
  BY <1>1, <1>14, SegmentLeaves DEF receive, sent
<1>15. CASE UNCHANGED tcpVars
  BY <1>1, <1>15, StillLeaves DEF tcpVars
<1> QED
  BY <1>3, <1>4, <1>5, <1>6, <1>7, <1>8, <1>9, <1>10, <1>11, <1>12, <1>13, <1>14, <1>15
  DEF TcpNext, sketchStep, callback

LEMMA ReferencesInit == TcpInit => Handles /\ Asks /\ References
<1> SUFFICES ASSUME TcpInit PROVE Handles /\ Asks /\ References
  OBVIOUS
<1>1. Handles /\ Asks
  BY DEF TcpInit, Handles, Asks, RunTask
<1>2. State.ctx = [c \in Connections |-> NoContext] /\ State.pcb = [c \in Connections |-> NoPcb]
  BY DEF TcpInit, State
<1>3. NoContext.life = "none" /\ NoContext.refs = 0 /\ NoContext.next = Null
      /\ NoPcb.state = "none"
  BY DEF NoContext, NoPcb
<1>4. Ledger(State, handle)
  <2>1. \A c \in Connections : Holders(handle, c) = {}
    BY ConnectionsAreNumbers DEF TcpInit, Holders
  <2>2. Cardinality({}) = 0
    BY FS_EmptySet
  <2> QED
    BY <1>2, <1>3, <2>1, <2>2 DEF Ledger
<1>5. Waiting(State.ctx) = {}
  BY <1>2, <1>3 DEF Waiting
<1>6. InLine(State, unclaimed)
  BY <1>5 DEF TcpInit, InLine, IsFirst
<1>7. Made(State, handle)
  BY <1>2, <1>3 DEF Made
<1> QED
  BY <1>1, <1>4, <1>6, <1>7 DEF References, RefsHold

LEMMA ReferencesAlways == TcpSpec => []References
  BY ReferencesInit, ReferencesStep, AsksStep, HandlesStep, TcpInvAlways, PTL DEF TcpSpec

\* A context has as many references as clients that hold it: it is deleted with
\* the last of them, and not before, however they were copied.
THEOREM ReferencesCounted == TcpSpec => []RefsAreCounted
<1>1. References => RefsAreCounted
  BY DEF References, RefsHold, Ledger, State, RefsAreCounted
<1> QED
  BY <1>1, ReferencesAlways, PTL

\* The server hands out the connections it has accepted in their order, each of
\* them once.
THEOREM AcceptedInOrder == TcpSpec => []WaitInOrder
<1>1. References => WaitInOrder
  <2> SUFFICES ASSUME References PROVE WaitInOrder
    OBVIOUS
  <2> DEFINE S == Waiting(ctx)
  <2>1. S \subseteq Nat /\ Null \in Nat
    BY ConnectionsAreNumbers DEF Waiting, Null
  <2>2. IsFirst(unclaimed, S, Null) /\ \A c \in S : IsFirst(ctx[c].next, S, c)
    BY DEF References, RefsHold, InLine, State
  <2> HIDE DEF S
  <2>3. unclaimed = FirstAfter(S, Null)
    BY <2>1, <2>2, FirstAfterIs
  <2>4. ASSUME NEW c \in S PROVE ctx[c].next = FirstAfter(S, c)
    BY <2>1, <2>2, FirstAfterIs
  <2> QED
    BY <2>3, <2>4 DEF WaitInOrder, S
<1> QED
  BY <1>1, ReferencesAlways, PTL

\* A context is held by its clients or, before the first of them, by the list.
THEOREM ReferencesHeld == TcpSpec => []RefsAreHandles
<1>1. RefsAreCounted /\ WaitInOrder => RefsAreHandles
  BY DEF RefsAreHandles
<1> QED
  BY <1>1, ReferencesCounted, AcceptedInOrder, PTL
-----------------------------------------------------------------------------
(***************************************************************************)
(* The bytes of a connection.  They are numbered, so that a chain of pbufs *)
(* in order is given by the numbers at which one ends and the next begins. *)
(***************************************************************************)
Numbers(a, b) == [i \in 1 .. b - a |-> a + i]

LEMMA NumbersAre ==
  ASSUME NEW a \in Nat, NEW b \in Nat, a <= b
  PROVE  /\ Numbers(a, b) \in Seq(Nat) /\ Len(Numbers(a, b)) = b - a
         /\ \A i \in 1 .. b - a : Numbers(a, b)[i] = a + i
<1> DEFINE n == b - a
<1>1. n \in Nat
  OBVIOUS
<1>2. Numbers(a, b) = [i \in 1 .. n |-> a + i] /\ \A i \in 1 .. n : a + i \in Nat
  BY DEF Numbers
<1> HIDE DEF n
<1>3. Numbers(a, b) \in [1 .. n -> Nat]
  BY <1>2
<1>4. Numbers(a, b) \in Seq(Nat) /\ Len(Numbers(a, b)) = n
  BY <1>1, <1>3
<1> QED
  BY <1>2, <1>4 DEF n

\* A sequence is known by its length and its elements.
LEMMA IsNumbers ==
  ASSUME NEW a \in Nat, NEW b \in Nat, a <= b, NEW s, s \in Seq(Nat), Len(s) = b - a,
         \A i \in 1 .. b - a : s[i] = a + i
  PROVE  s = Numbers(a, b)
<1>1. Numbers(a, b) \in Seq(Nat) /\ Len(Numbers(a, b)) = b - a
      /\ \A i \in 1 .. b - a : Numbers(a, b)[i] = a + i
  BY NumbersAre
<1> HIDE DEF Numbers
<1> QED
  BY <1>1, SeqEqual

LEMMA NumbersJoin ==
  ASSUME NEW a \in Nat, NEW b \in Nat, NEW c \in Nat, a <= b, b <= c
  PROVE  Numbers(a, b) \o Numbers(b, c) = Numbers(a, c)
<1> DEFINE s == Numbers(a, b)
           t == Numbers(b, c)
<1>1. /\ s \in Seq(Nat) /\ Len(s) = b - a /\ \A i \in 1 .. b - a : s[i] = a + i
      /\ t \in Seq(Nat) /\ Len(t) = c - b /\ \A i \in 1 .. c - b : t[i] = b + i
  BY NumbersAre
<1> HIDE DEF s, t
<1>2. s \o t \in Seq(Nat) /\ Len(s \o t) = c - a
  <2>1. s \o t \in Seq(Nat) /\ Len(s \o t) = Len(s) + Len(t)
    BY <1>1, ConcatProperties
  <2>2. Len(s) = b - a /\ Len(t) = c - b
    BY <1>1
  <2> HIDE DEF s, t
  <2>3. Len(s) + Len(t) = c - a
    BY <2>2
  <2> QED
    BY <2>1, <2>3
<1>3. ASSUME NEW i \in 1 .. c - a PROVE (s \o t)[i] = a + i
  <2>1. (s \o t)[i] = IF i <= Len(s) THEN s[i] ELSE t[i - Len(s)]
    BY <1>1, <1>2
  <2>2. CASE i <= b - a
    BY <1>1, <2>1, <2>2
  <2>3. CASE ~(i <= b - a)
    <3>1. i - (b - a) \in 1 .. c - b /\ b + (i - (b - a)) = a + i
      BY <2>3
    <3>2. (s \o t)[i] = t[i - (b - a)]
      BY <1>1, <2>1, <2>3
    <3> QED
      BY <1>1, <3>1, <3>2
  <2> QED
    BY <2>2, <2>3
<1>4. a <= c
  OBVIOUS
<1>5. s \o t = Numbers(a, c)
  BY <1>2, <1>3, <1>4, IsNumbers
<1> QED
  BY <1>5 DEF s, t

LEMMA NumbersSub ==
  ASSUME NEW a \in Nat, NEW b \in Nat, a <= b, NEW i \in Nat, NEW j \in Nat,
         i <= j, j <= b - a
  PROVE  SubSeq(Numbers(a, b), i + 1, j) = Numbers(a + i, a + j)
<1> DEFINE s == Numbers(a, b)
           t == SubSeq(s, i + 1, j)
<1>1. s \in Seq(Nat) /\ Len(s) = b - a /\ \A k \in 1 .. b - a : s[k] = a + k
  BY NumbersAre
<1> HIDE DEF s
<1>2. i + 1 \in Int /\ j \in Int /\ \A k \in i + 1 .. j : s[k] \in Nat
  BY <1>1
<1>3. /\ t \in Seq(Nat)
      /\ Len(t) = IF i + 1 <= j THEN j - (i + 1) + 1 ELSE 0
      /\ \A k \in 1 .. j - (i + 1) + 1 : t[k] = s[i + 1 + k - 1]
  BY <1>2, SubSeqProperties
<1> HIDE DEF t
<1>4. j - (i + 1) + 1 = j - i /\ a + j - (a + i) = j - i
  OBVIOUS
<1>5. Len(t) = j - i
  BY <1>3
<1>6. ASSUME NEW k \in 1 .. j - i PROVE t[k] = a + i + k
  <2>1. t[k] = s[i + 1 + k - 1] /\ i + 1 + k - 1 = i + k
    BY <1>3, <1>4
  <2>2. i + k \in 1 .. b - a
    OBVIOUS
  <2>3. s[i + k] = a + (i + k)
    BY <1>1, <2>2
  <2> QED
    BY <2>1, <2>3
<1>7. a + i \in Nat /\ a + j \in Nat /\ a + i <= a + j
  OBVIOUS
<1>8. Len(t) = a + j - (a + i) /\ \A k \in 1 .. a + j - (a + i) : t[k] = a + i + k
  BY <1>4, <1>5, <1>6
<1>9. t = Numbers(a + i, a + j)
  <2> DEFINE c == a + i
             d == a + j
  <2> HIDE DEF c, d
  <2>1. /\ c \in Nat /\ d \in Nat /\ c <= d
        /\ Len(t) = d - c /\ \A k \in 1 .. d - c : t[k] = c + k
    BY <1>7, <1>8 DEF c, d
  <2>2. t = Numbers(c, d)
    BY <1>3, <2>1, IsNumbers
  <2> QED
    BY <2>2 DEF c, d
<1> QED
  BY <1>9 DEF t, s
-----------------------------------------------------------------------------
\* The pbufs of rx hold the bytes after from, up to to; the ends of st say where
\* one pbuf follows another.
Ends(rx, st) ==
  \A j \in 1 .. Len(rx) : st[j - 1] < st[j] /\ rx[j] = Numbers(st[j - 1], st[j])

Chained(rx, from, to) ==
  /\ rx \in Seq(Seq(Nat))
  /\ \E st \in [0 .. Len(rx) -> Nat] :
       st[0] = from /\ st[Len(rx)] = to /\ Ends(rx, st)

LEMMA EndsGrow ==
  ASSUME NEW rx \in Seq(Seq(Nat)), NEW st \in [0 .. Len(rx) -> Nat], Ends(rx, st),
         NEW k \in 0 .. Len(rx)
  PROVE  st[0] <= st[k]
<1> DEFINE N == Len(rx)
<1>0. N \in Nat /\ st \in [0 .. N -> Nat] /\ k \in 0 .. N
      /\ \A j \in 1 .. N : st[j - 1] < st[j]
  BY DEF Ends
<1> HIDE DEF N
<1> DEFINE S == {n \in Nat : n <= N => st[0] <= st[n]}
<1>1. 0 \in S
  <2>1. st[0] \in Nat
    BY <1>0
  <2> QED
    BY <2>1
<1>2. ASSUME NEW n \in Nat, n \in S PROVE n + 1 \in S
  <2> SUFFICES ASSUME n + 1 <= N PROVE st[0] <= st[n + 1]
    OBVIOUS
  <2>1. n + 1 \in 1 .. N /\ n \in 0 .. N /\ n + 1 - 1 = n /\ n <= N /\ 0 \in 0 .. N
    BY <1>0
  <2>2. st[n] < st[n + 1]
    BY <1>0, <2>1
  <2>3. st[0] <= st[n]
    BY <1>2, <2>1
  <2>4. st[0] \in Nat /\ st[n] \in Nat /\ st[n + 1] \in Nat
    BY <1>0, <2>1, SMTT(40)
  <2> QED
    BY <2>2, <2>3, <2>4
<1> HIDE DEF S
<1>3. k \in Nat /\ k <= N
  BY <1>0
<1>4. k \in S
  BY <1>1, <1>2, <1>3, SetInduction
<1> QED
  BY <1>3, <1>4 DEF S

LEMMA FlattenIs ==
  ASSUME NEW rx, NEW from, NEW to, Chained(rx, from, to)
  PROVE  /\ from \in Nat /\ to \in Nat /\ from <= to
         /\ FlattenSeq(rx) = Numbers(from, to)
<1> DEFINE n == Len(rx)
<1>1. PICK st \in [0 .. n -> Nat] : st[0] = from /\ st[n] = to /\ Ends(rx, st)
  BY DEF Chained
<1>2. rx \in Seq(Seq(Nat)) /\ n \in Nat
  BY DEF Chained
<1>3. from \in Nat /\ to \in Nat /\ from <= to
  <2>1. 0 \in 0 .. n /\ n \in 0 .. n
    BY <1>2
  <2> QED
    BY <1>1, <1>2, <2>1, EndsGrow
<1>4. CASE n = 0
  <2>1. rx = << >> /\ FlattenSeq(rx) = rx
    BY <1>2, <1>4 DEF FlattenSeq
  <2>2. from = to
    BY <1>1, <1>4
  <2>3. Len(<< >>) = from - to /\ << >> \in Seq(Nat) /\ \A i \in 1 .. from - to : FALSE
    BY <1>3, <2>2
  <2>4. << >> = Numbers(from, to)
    BY <1>3, <2>2, <2>3, IsNumbers
  <2> QED
    BY <1>3, <2>1, <2>4
<1>5. CASE n # 0
  <2> DEFINE Solves(f) == f = [i \in 1 .. n |-> IF i = 1 THEN rx[i] ELSE f[i - 1] \o rx[i]]
             w == [i \in 1 .. n |-> Numbers(from, st[i])]
  <2>1. ASSUME NEW i \in 1 .. n
        PROVE  /\ rx[i] = Numbers(st[i - 1], st[i])
               /\ i # 1 => Numbers(from, st[i - 1]) \o rx[i] = Numbers(from, st[i])
    <3>1. i - 1 \in 0 .. n /\ i \in 0 .. n
      BY <1>2
    <3>2. rx[i] = Numbers(st[i - 1], st[i]) /\ st[i - 1] < st[i]
      BY <1>1 DEF Ends
    <3>3. from <= st[i - 1] /\ st[i - 1] \in Nat /\ st[i] \in Nat
      BY <1>1, <1>2, <3>1, EndsGrow
    <3>4. st[i - 1] <= st[i]
      BY <3>2, <3>3
    <3>5. Numbers(from, st[i - 1]) \o Numbers(st[i - 1], st[i]) = Numbers(from, st[i])
      BY <1>3, <3>3, <3>4, NumbersJoin
    <3> QED
      BY <3>2, <3>5, Zenon
  <2>2. Solves(w)
    <3>1. ASSUME NEW i \in 1 .. n
          PROVE  w[i] = IF i = 1 THEN rx[i] ELSE w[i - 1] \o rx[i]
      <4>1. i # 1 => i - 1 \in 1 .. n
        BY <1>2
      <4> QED
        BY <1>1, <2>1, <4>1
    <3>2. w = [i \in 1 .. n |-> w[i]]
      OBVIOUS
    <3> HIDE DEF w
    <3> QED
      BY <3>1, <3>2
  <2>3. ASSUME NEW f, Solves(f) PROVE f[n] = Numbers(from, to)
    <3> DEFINE S == {k \in Nat : k + 1 <= n => f[k + 1] = Numbers(from, st[k + 1])}
    <3>1. ASSUME NEW i \in 1 .. n PROVE f[i] = IF i = 1 THEN rx[i] ELSE f[i - 1] \o rx[i]
      BY <2>3
    <3> HIDE DEF Solves
    <3>2. 0 \in S
      <4>1. 1 \in 1 .. n /\ 1 - 1 = 0 /\ 0 + 1 = 1
        BY <1>2, <1>5
      <4>2. f[1] = rx[1] /\ rx[1] = Numbers(st[1 - 1], st[1])
        BY <2>1, <3>1, <4>1
      <4>3. f[0 + 1] = Numbers(from, st[0 + 1])
        BY <1>1, <4>1, <4>2, Zenon
      <4> QED
        BY <4>3
    <3>3. ASSUME NEW k \in Nat, k \in S PROVE k + 1 \in S
      <4> SUFFICES ASSUME k + 1 + 1 <= n
                   PROVE  f[k + 1 + 1] = Numbers(from, st[k + 1 + 1])
        OBVIOUS
      <4>1. k + 1 + 1 \in 1 .. n /\ k + 1 + 1 # 1 /\ k + 1 + 1 - 1 = k + 1 /\ k + 1 <= n
        BY <1>2
      <4>2. f[k + 1] = Numbers(from, st[k + 1])
        BY <3>3, <4>1
      <4> DEFINE i == k + 1 + 1
      <4>3. f[i] = f[i - 1] \o rx[i]
        BY <3>1, <4>1
      <4>4. Numbers(from, st[i - 1]) \o rx[i] = Numbers(from, st[i])
        BY <2>1, <4>1
      <4>5. i - 1 = k + 1
        BY <4>1
      <4> HIDE DEF i
      <4>6. f[i - 1] = Numbers(from, st[i - 1])
        BY <4>2, <4>5
      <4>7. f[i] = Numbers(from, st[i])
        BY <4>3, <4>4, <4>6, Zenon
      <4> QED
        BY <4>7 DEF i
    <3> HIDE DEF S
    <3>4. n - 1 \in S
      <4>1. n - 1 \in Nat
        BY <1>2, <1>5
      <4> QED
        BY <3>2, <3>3, <4>1, SetInduction
    <3>5. n - 1 + 1 = n /\ n <= n
      BY <1>2
    <3> QED
      BY <1>1, <3>4, <3>5 DEF S
  <2>4. FlattenSeq(rx) = (CHOOSE f : Solves(f))[n]
    BY <1>5 DEF FlattenSeq
  <2> HIDE DEF Solves
  <2>5. Solves(CHOOSE f : Solves(f))
    BY <2>2
  <2> QED
    BY <1>3, <2>3, <2>4, <2>5
<1> QED
  BY <1>4, <1>5

-----------------------------------------------------------------------------
LEMMA TotLenIs ==
  ASSUME NEW rx, NEW from, NEW to, Chained(rx, from, to)
  PROVE  TotLen(rx) = to - from
<1> DEFINE n == Len(rx)
           lengths == [i \in DOMAIN rx |-> Len(rx[i])]
<1>1. PICK st \in [0 .. n -> Nat] : st[0] = from /\ st[n] = to /\ Ends(rx, st)
  BY DEF Chained
<1>2. rx \in Seq(Seq(Nat)) /\ n \in Nat /\ DOMAIN rx = 1 .. n
  BY DEF Chained
<1>3. \A i \in 1 .. n : Len(rx[i]) \in Nat
  BY <1>2
<1>4. Len(lengths) = n /\ \A i \in 1 .. n : lengths[i] = Len(rx[i])
  <2>1. lengths \in [1 .. n -> Nat]
    BY <1>2, <1>3
  <2>2. lengths \in Seq(Nat) /\ DOMAIN lengths = 1 .. n
    BY <1>2, <2>1
  <2>3. Len(lengths) = n
    BY <1>2, <2>2
  <2> QED
    BY <1>2, <2>3
<1> HIDE DEF lengths
<1>5. ASSUME NEW i \in 1 .. n
      PROVE  /\ i - 1 \in 0 .. n /\ i \in 0 .. n
             /\ lengths[i] = st[i] - st[i - 1]
  <2>1. i - 1 \in 0 .. n /\ i \in 0 .. n
    BY <1>2
  <2>2. rx[i] = Numbers(st[i - 1], st[i]) /\ st[i - 1] < st[i]
    BY <1>1 DEF Ends
  <2>3. st[i - 1] \in Nat /\ st[i] \in Nat
    BY <1>1, <2>1
  <2>4. st[i - 1] <= st[i]
    BY <2>2, <2>3
  <2>5. Len(rx[i]) = st[i] - st[i - 1]
    BY <2>2, <2>3, <2>4, NumbersAre
  <2> QED
    BY <1>4, <2>1, <2>5
<1> DEFINE Solves(f) == f = [i \in 0 .. n |-> IF i = 0 THEN 0 ELSE f[i - 1] + lengths[i]]
           w == [i \in 0 .. n |-> st[i] - from]
<1>6. from \in Nat /\ 0 \in 0 .. n /\ n \in 0 .. n
  BY <1>1, <1>2
<1>7. Solves(w)
  <2>1. ASSUME NEW i \in 0 .. n
        PROVE  w[i] = IF i = 0 THEN 0 ELSE w[i - 1] + lengths[i]
    <3>1. CASE i = 0
      BY <1>1, <1>6, <3>1
    <3>2. CASE i # 0
      <4>1. i \in 1 .. n
        BY <1>2, <3>2
      <4>2. w[i] = st[i] - from /\ w[i - 1] = st[i - 1] - from
        BY <1>5, <4>1
      <4>3. st[i] \in Nat /\ st[i - 1] \in Nat
        BY <1>1, <1>5, <4>1
      <4>4. lengths[i] = st[i] - st[i - 1]
        BY <1>5, <4>1
      <4> QED
        BY <1>6, <3>2, <4>2, <4>3, <4>4
    <3> QED
      BY <3>1, <3>2
  <2>2. w = [i \in 0 .. n |-> w[i]]
    OBVIOUS
  <2> HIDE DEF w
  <2> QED
    BY <2>1, <2>2
<1>8. ASSUME NEW f, Solves(f) PROVE f[n] = to - from
  <2> DEFINE S == {k \in Nat : k <= n => f[k] = st[k] - from}
  <2>1. ASSUME NEW i \in 0 .. n PROVE f[i] = IF i = 0 THEN 0 ELSE f[i - 1] + lengths[i]
    BY <1>8
  <2> HIDE DEF Solves
  <2>2. 0 \in S
    BY <1>1, <1>6, <2>1
  <2>3. ASSUME NEW k \in Nat, k \in S PROVE k + 1 \in S
    <3> SUFFICES ASSUME k + 1 <= n PROVE f[k + 1] = st[k + 1] - from
      OBVIOUS
    <3>1. k + 1 \in 1 .. n /\ k + 1 \in 0 .. n /\ k \in 0 .. n /\ k + 1 - 1 = k
          /\ k <= n /\ k + 1 # 0
      BY <1>2
    <3>2. f[k + 1] = f[k] + lengths[k + 1] /\ f[k] = st[k] - from
      BY <2>1, <2>3, <3>1
    <3>3. lengths[k + 1] = st[k + 1] - st[k]
      BY <1>5, <3>1
    <3>4. st[k] \in Nat /\ st[k + 1] \in Nat
      BY <1>1, <3>1
    <3> QED
      BY <1>6, <3>2, <3>3, <3>4
  <2> HIDE DEF S
  <2>4. n \in S
    BY <1>2, <2>2, <2>3, SetInduction
  <2>5. n <= n
    BY <1>2
  <2> QED
    BY <1>1, <2>4, <2>5 DEF S
<1>9. TotLen(rx) = (CHOOSE f : Solves(f))[n]
  BY <1>4 DEF TotLen, Sum, lengths
<1> HIDE DEF Solves
<1>10. Solves(CHOOSE f : Solves(f))
  BY <1>7
<1> QED
  BY <1>8, <1>9, <1>10

LEMMA ChainedNone ==
  ASSUME NEW a \in Nat
  PROVE  Chained(<< >>, a, a)
<1> DEFINE st == [k \in 0 .. 0 |-> a]
<1>1. << >> \in Seq(Seq(Nat)) /\ Len(<< >>) = 0
  OBVIOUS
<1>2. st \in [0 .. 0 -> Nat] /\ st[0] = a
  OBVIOUS
<1> HIDE DEF st
<1>3. Ends(<< >>, st)
  BY <1>1 DEF Ends
<1> QED
  BY <1>1, <1>2, <1>3 DEF Chained

\* The first pbuf and what is behind it.
LEMMA ChainedFirst ==
  ASSUME NEW rx, NEW from, NEW to, Chained(rx, from, to), rx # << >>
  PROVE  \E e \in Nat :
           /\ from < e /\ e <= to /\ rx[1] = Numbers(from, e) /\ Len(rx[1]) = e - from
           /\ Chained(Tail(rx), e, to)
<1> DEFINE n == Len(rx)
<1>1. PICK st \in [0 .. n -> Nat] : st[0] = from /\ st[n] = to /\ Ends(rx, st)
  BY DEF Chained
<1>2. rx \in Seq(Seq(Nat)) /\ n \in Nat /\ n # 0
  BY DEF Chained
<1> DEFINE e == st[1]
           tail == Tail(rx)
           st2 == [k \in 0 .. n - 1 |-> st[k + 1]]
<1>3. 1 \in 1 .. n /\ 1 - 1 = 0 /\ 0 \in 0 .. n /\ 1 \in 0 .. n
  BY <1>2
<1>4. from \in Nat /\ e \in Nat /\ from < e /\ rx[1] = Numbers(from, e)
  BY <1>1, <1>3 DEF Ends
<1>5. Len(rx[1]) = e - from
  <2>1. from <= e
    BY <1>4
  <2> HIDE DEF e
  <2> QED
    BY <1>4, <2>1, NumbersAre
<1>6. tail \in Seq(Seq(Nat)) /\ Len(tail) = n - 1
      /\ \A i \in 1 .. n - 1 : tail[i] = rx[i + 1]
  BY <1>2, HeadTailProperties
<1>7. st2 \in [0 .. n - 1 -> Nat] /\ \A k \in 0 .. n - 1 : st2[k] = st[k + 1]
  <2>1. \A k \in 0 .. n - 1 : k + 1 \in 0 .. n
    BY <1>2
  <2> QED
    BY <1>1, <2>1
<1>8. st2[0] = e /\ st2[n - 1] = to
  <2>1. 0 \in 0 .. n - 1 /\ n - 1 \in 0 .. n - 1 /\ n - 1 + 1 = n /\ 0 + 1 = 1
    BY <1>2
  <2> QED
    BY <1>1, <1>7, <2>1
<1> HIDE DEF st2, tail
<1>9. Ends(tail, st2)
  <2> SUFFICES ASSUME NEW j \in 1 .. n - 1
               PROVE  st2[j - 1] < st2[j] /\ tail[j] = Numbers(st2[j - 1], st2[j])
    BY <1>6 DEF Ends
  <2>1. j - 1 \in 0 .. n - 1 /\ j \in 0 .. n - 1 /\ j + 1 \in 1 .. n
        /\ j - 1 + 1 = j /\ j + 1 - 1 = j
    BY <1>2
  <2>2. st[j] < st[j + 1] /\ rx[j + 1] = Numbers(st[j], st[j + 1])
    BY <1>1, <2>1 DEF Ends
  <2>3. st2[j - 1] = st[j] /\ st2[j] = st[j + 1] /\ tail[j] = rx[j + 1]
    BY <1>6, <1>7, <2>1
  <2> QED
    BY <2>2, <2>3
<1>10. Chained(tail, e, to)
  BY <1>6, <1>7, <1>8, <1>9 DEF Chained
<1>11. e <= to
  BY <1>10, FlattenIs
<1> QED
  BY <1>4, <1>5, <1>10, <1>11 DEF tail

LEMMA ChainedMore ==
  ASSUME NEW rx, NEW from, NEW to, Chained(rx, from, to), NEW n \in Nat \ {0}
  PROVE  Chained(Append(rx, Numbers(to, to + n)), from, to + n)
<1> DEFINE m == Len(rx)
           new == Numbers(to, to + n)
           rx2 == Append(rx, new)
           st2(st) == [k \in 0 .. m + 1 |-> IF k = m + 1 THEN to + n ELSE st[k]]
<1>1. PICK st \in [0 .. m -> Nat] : st[0] = from /\ st[m] = to /\ Ends(rx, st)
  BY DEF Chained
<1>2. rx \in Seq(Seq(Nat)) /\ m \in Nat /\ to \in Nat
  <2>1. rx \in Seq(Seq(Nat)) /\ m \in Nat
    BY DEF Chained
  <2>2. m \in 0 .. m
    BY <2>1
  <2> QED
    BY <1>1, <2>1, <2>2
<1>3. to + n \in Nat /\ to <= to + n /\ to < to + n
  BY <1>2
<1>4. new \in Seq(Nat)
  BY <1>2, <1>3, NumbersAre
<1> HIDE DEF new
<1>5. rx2 \in Seq(Seq(Nat)) /\ Len(rx2) = m + 1
      /\ (\A i \in 1 .. m : rx2[i] = rx[i]) /\ rx2[m + 1] = new
  BY <1>2, <1>4, AppendProperties
<1> DEFINE w == st2(st)
<1>6. w \in [0 .. m + 1 -> Nat]
      /\ (\A k \in 0 .. m : w[k] = st[k]) /\ w[m + 1] = to + n
  BY <1>1, <1>2, <1>3
<1> HIDE DEF st2, rx2, w
<1>7. w[0] = from
  <2>1. 0 \in 0 .. m
    BY <1>2
  <2> QED
    BY <1>1, <1>6, <2>1
<1>8. Ends(rx2, w)
  <2> SUFFICES ASSUME NEW j \in 1 .. m + 1
               PROVE  w[j - 1] < w[j] /\ rx2[j] = Numbers(w[j - 1], w[j])
    BY <1>5 DEF Ends
  <2>1. CASE j = m + 1
    <3>1. j - 1 = m /\ m \in 0 .. m
      BY <1>2, <2>1
    <3>2. w[j - 1] = to /\ w[j] = to + n /\ rx2[j] = new
      BY <1>1, <1>5, <1>6, <2>1, <3>1
    <3> QED
      BY <1>3, <3>2 DEF new
  <2>2. CASE j # m + 1
    <3>1. j \in 1 .. m /\ j - 1 \in 0 .. m /\ j \in 0 .. m
      <4>1. m \in Nat /\ j \in 1 .. m + 1
        BY <1>2
      <4> HIDE DEF m
      <4> QED
        BY <2>2, <4>1
    <3>2. w[j - 1] = st[j - 1] /\ w[j] = st[j] /\ rx2[j] = rx[j]
      BY <1>5, <1>6, <3>1
    <3> QED
      BY <1>1, <3>1, <3>2 DEF Ends
  <2> QED
    BY <2>1, <2>2
<1>9. Chained(rx2, from, to + n)
  BY <1>5, <1>6, <1>7, <1>8 DEF Chained
<1> QED
  BY <1>9 DEF rx2, new

-----------------------------------------------------------------------------
\* What was read and dropped ends where the offset into the first pbuf says, and
\* the chain goes on from there to the last byte received.
Placed(rx, offset, taken, to) ==
  \E t \in Nat :
    /\ taken = Numbers(0, t) /\ offset \in Nat /\ offset <= t
    /\ Chained(rx, t - offset, to)
    /\ rx = << >> => offset = 0
    /\ rx # << >> => offset < Len(rx[1])

\* The parts of a chain that is not empty.
LEMMA PlacedFirst ==
  ASSUME NEW rx, NEW offset, NEW taken, NEW to, Placed(rx, offset, taken, to), rx # << >>
  PROVE  \E t \in Nat, e \in Nat :
           /\ taken = Numbers(0, t) /\ offset \in Nat /\ offset <= t /\ t < e /\ e <= to
           /\ rx[1] = Numbers(t - offset, e) /\ Len(rx[1]) = e - (t - offset)
           /\ Chained(rx, t - offset, to) /\ Chained(Tail(rx), e, to)
<1>1. PICK t \in Nat :
        /\ taken = Numbers(0, t) /\ offset \in Nat /\ offset <= t
        /\ Chained(rx, t - offset, to) /\ offset < Len(rx[1])
  BY DEF Placed
<1>2. PICK e \in Nat :
        /\ t - offset < e /\ e <= to /\ rx[1] = Numbers(t - offset, e)
        /\ Len(rx[1]) = e - (t - offset) /\ Chained(Tail(rx), e, to)
  BY <1>1, ChainedFirst
<1>3. t < e
  BY <1>1, <1>2
<1> QED
  BY <1>1, <1>2, <1>3

LEMMA PlacedIs ==
  ASSUME NEW rx, NEW offset, NEW taken, NEW to, Placed(rx, offset, taken, to)
  PROVE  /\ to \in Nat /\ offset \in Nat /\ TotLen(rx) \in Nat
         /\ offset <= TotLen(rx) /\ (rx = << >> => TotLen(rx) = 0 /\ offset = 0)
         /\ taken \o SubSeq(FlattenSeq(rx), offset + 1, TotLen(rx)) = Numbers(0, to)
         /\ Len(FlattenSeq(rx)) = TotLen(rx)
<1>1. PICK t \in Nat :
        /\ taken = Numbers(0, t) /\ offset \in Nat /\ offset <= t
        /\ Chained(rx, t - offset, to) /\ (rx = << >> => offset = 0)
  BY DEF Placed
<1> DEFINE from == t - offset
           all == FlattenSeq(rx)
           total == TotLen(rx)
<1>2. from \in Nat /\ from + offset = t
  BY <1>1
<1>3. to \in Nat /\ from <= to /\ all = Numbers(from, to)
  BY <1>1, FlattenIs
<1>4. total = to - from
  BY <1>1, TotLenIs
<1>5. Len(all) = to - from
  BY <1>2, <1>3, NumbersAre
<1>6. rx = << >> => to = from
  <2> SUFFICES ASSUME rx = << >> PROVE to = from
    OBVIOUS
  <2>1. PICK st \in [0 .. Len(rx) -> Nat] : st[0] = from /\ st[Len(rx)] = to
    BY <1>1 DEF Chained
  <2>2. Len(rx) = 0
    OBVIOUS
  <2> QED
    BY <2>1, <2>2
<1>7. t <= to
  <2>1. CASE rx = << >>
    BY <1>1, <1>2, <1>3, <1>6, <2>1
  <2>2. CASE rx # << >>
    <3>1. PICK u \in Nat, e \in Nat :
            taken = Numbers(0, u) /\ u < e /\ e <= to
      BY <2>2, PlacedFirst
    <3>2. Len(taken) = t - 0 /\ Len(taken) = u - 0
      <4>1. 0 \in Nat /\ 0 <= t /\ 0 <= u
        OBVIOUS
      <4> QED
        BY <1>1, <3>1, <4>1, NumbersAre
    <3> QED
      BY <1>3, <3>1, <3>2
  <2> QED
    BY <2>1, <2>2
<1> HIDE DEF from, all, total
<1>8. total \in Nat /\ offset <= total /\ offset <= to - from
  BY <1>1, <1>2, <1>3, <1>4, <1>7
<1>9. SubSeq(all, offset + 1, total) = Numbers(t, to)
  <2>1. to - from \in Nat /\ to - from <= to - from /\ from + (to - from) = to
    BY <1>2, <1>3
  <2> DEFINE span == to - from
  <2> HIDE DEF span
  <2>2. span \in Nat /\ offset <= span /\ span <= to - from
    BY <1>8, <2>1 DEF span
  <2>3. SubSeq(Numbers(from, to), offset + 1, span) = Numbers(from + offset, from + span)
    <3>1. /\ from \in Nat /\ to \in Nat /\ from <= to /\ offset \in Nat /\ span \in Nat
          /\ offset <= span /\ span <= to - from
      BY <1>1, <1>2, <1>3, <2>2
    <3> QED
      BY <3>1, NumbersSub, ZenonT(40)
  <2>4. from + span = to /\ total = span
    BY <1>4, <2>1 DEF span
  <2> QED
    BY <1>2, <1>3, <2>3, <2>4
<1>10. Numbers(0, t) \o Numbers(t, to) = Numbers(0, to)
  <2>1. 0 \in Nat /\ 0 <= t
    OBVIOUS
  <2> QED
    BY <1>3, <1>7, <2>1, NumbersJoin
<1>11. taken \o SubSeq(all, offset + 1, total) = Numbers(0, to)
  BY <1>1, <1>9, <1>10, Zenon
<1>12. rx = << >> => total = 0
  BY <1>2, <1>3, <1>4, <1>6
<1> QED
  BY <1>1, <1>3, <1>4, <1>5, <1>8, <1>11, <1>12 DEF all, total

LEMMA PlacedNone == Placed(<< >>, 0, << >>, 0)
<1>1. << >> = Numbers(0, 0)
  <2>1. 0 \in Nat /\ 0 <= 0 /\ << >> \in Seq(Nat) /\ Len(<< >>) = 0 - 0
        /\ \A i \in 1 .. 0 - 0 : FALSE
    OBVIOUS
  <2> QED
    BY <2>1, IsNumbers
<1>2. Chained(<< >>, 0, 0)
  BY ChainedNone
<1>3. 0 - 0 = 0 /\ 0 \in Nat /\ 0 <= 0
  OBVIOUS
<1> QED
  BY <1>1, <1>2, <1>3 DEF Placed

\* Flush drops what is unread.
LEMMA PlacedFlushed ==
  ASSUME NEW rx, NEW offset, NEW taken, NEW to, Placed(rx, offset, taken, to)
  PROVE  Placed(<< >>, 0, taken \o SubSeq(FlattenSeq(rx), offset + 1, Len(FlattenSeq(rx))),
                to)
<1> DEFINE taken2 == taken \o SubSeq(FlattenSeq(rx), offset + 1, Len(FlattenSeq(rx)))
<1>1. to \in Nat /\ taken2 = Numbers(0, to)
  BY PlacedIs
<1> HIDE DEF taken2
<1>2. Chained(<< >>, to, to) /\ to - 0 = to /\ 0 \in Nat /\ 0 <= to
  BY <1>1, ChainedNone
<1>3. Placed(<< >>, 0, taken2, to)
  BY <1>1, <1>2 DEF Placed
<1> QED
  BY <1>3 DEF taken2

\* A segment goes behind what is unread.
LEMMA PlacedMore ==
  ASSUME NEW rx, NEW offset, NEW taken, NEW to, Placed(rx, offset, taken, to),
         NEW n \in Nat \ {0}
  PROVE  LET rx2 == Append(rx, Numbers(to, to + n))
         IN  Placed(rx2, offset, taken, to + n) /\ TotLen(rx2) = TotLen(rx) + n
<1> DEFINE new == Numbers(to, to + n)
           rx2 == Append(rx, new)
<1>1. PICK t \in Nat :
        /\ taken = Numbers(0, t) /\ offset \in Nat /\ offset <= t
        /\ Chained(rx, t - offset, to)
        /\ rx = << >> => offset = 0
        /\ rx # << >> => offset < Len(rx[1])
  BY DEF Placed
<1>2. Chained(rx2, t - offset, to + n)
  BY <1>1, ChainedMore
<1>3. to \in Nat /\ rx \in Seq(Seq(Nat))
  BY <1>1, FlattenIs DEF Chained
<1>4. new \in Seq(Nat) /\ Len(new) = n
  <2> DEFINE m == to + n
  <2>1. m \in Nat /\ to <= m /\ m - to = n
    BY <1>3
  <2> HIDE DEF m
  <2>2. Numbers(to, m) \in Seq(Nat) /\ Len(Numbers(to, m)) = n
    BY <1>3, <2>1, NumbersAre
  <2> QED
    BY <2>2 DEF m
<1> HIDE DEF new
<1>5. rx2 # << >> /\ offset < Len(rx2[1])
  <2>1. Len(rx) \in Nat /\ (\A i \in 1 .. Len(rx) : rx2[i] = rx[i])
        /\ rx2[Len(rx) + 1] = new /\ rx2 # << >>
    BY <1>3, <1>4, AppendProperties
  <2>2. CASE rx = << >>
    <3>1. Len(rx) = 0 /\ 0 + 1 = 1
      BY <2>2
    <3> QED
      BY <1>1, <1>4, <2>1, <2>2, <3>1
  <2>3. CASE rx # << >>
    <3>1. 1 \in 1 .. Len(rx)
      BY <1>3, <2>3
    <3> QED
      BY <1>1, <2>1, <2>3, <3>1
  <2> QED
    BY <2>2, <2>3
<1> HIDE DEF rx2
<1>6. Placed(rx2, offset, taken, to + n)
  BY <1>1, <1>2, <1>5 DEF Placed
<1>7. TotLen(rx2) = (to + n) - (t - offset) /\ TotLen(rx) = to - (t - offset)
  <2> DEFINE m == to + n
             from == t - offset
  <2> HIDE DEF m, from
  <2>1. Chained(rx2, from, m) /\ Chained(rx, from, to)
    BY <1>1, <1>2 DEF m, from
  <2>2. TotLen(rx2) = m - from /\ TotLen(rx) = to - from
    BY <2>1, TotLenIs
  <2> QED
    BY <2>2, Zenon DEF m, from
<1>8. TotLen(rx2) = TotLen(rx) + n
  BY <1>1, <1>3, <1>7
<1> QED
  BY <1>6, <1>8 DEF rx2, new

-----------------------------------------------------------------------------
\* What read() works on, and what it may be between two pbufs: the window is to be
\* opened by what has been consumed of the total.
Pieces == [rx : Seq(Seq(Nat)), offset : Nat, taken : Seq(Nat), recved : Nat]
Accounts(x, total, to) ==
  Placed(x.rx, x.offset, x.taken, to) /\ TotLen(x.rx) + x.recved = total

Cut(s, i, j) == SubSeq(s, i + 1, j)

LEMMA NumbersCut ==
  ASSUME NEW a \in Nat, NEW b \in Nat, a <= b, NEW i \in Nat, NEW j \in Nat,
         i <= j, j <= b - a, NEW c, c = a + i, NEW d, d = a + j
  PROVE  Cut(Numbers(a, b), i, j) = Numbers(c, d)
  BY NumbersSub, ZenonT(40) DEF Cut

LEMMA ConsumeKeeps ==
  ASSUME NEW x \in Pieces, NEW total \in Nat, NEW to, Accounts(x, total, to), x.rx # << >>,
         NEW size \in Nat, size <= Len(x.rx[1]) - x.offset
  PROVE  LET y == Consume(x, size)
         IN  /\ y \in Pieces /\ Accounts(y, total, to)
             /\ TotLen(y.rx) - y.offset = TotLen(x.rx) - x.offset - size
<1> DEFINE first == x.rx[1]
           o == x.offset
           n == Len(first)
           upto == o + size
           bytes == SubSeq(first, o + 1, upto)
           taken2 == x.taken \o bytes
           ya == [x EXCEPT !.taken = taken2, !.offset = upto]
           yb == [x EXCEPT !.taken = taken2, !.offset = 0,
                           !.rx = Tail(@), !.recved = @ + n]
           y == Consume(x, size)
<1>1. PICK t \in Nat, e \in Nat :
        /\ x.taken = Numbers(0, t) /\ o \in Nat /\ o <= t /\ t < e /\ e <= to
        /\ first = Numbers(t - o, e) /\ n = e - (t - o)
        /\ Chained(x.rx, t - o, to) /\ Chained(Tail(x.rx), e, to)
  BY PlacedFirst DEF Accounts
<1> DEFINE from == t - o
           t2 == t + size
<1>2. y = IF n - o - size > 0 THEN ya ELSE yb
  BY DEF Consume
<1>3. /\ DOMAIN ya = DOMAIN x /\ DOMAIN yb = DOMAIN x
      /\ ya.rx = x.rx /\ ya.offset = upto /\ ya.taken = taken2 /\ ya.recved = x.recved
      /\ yb.rx = Tail(x.rx) /\ yb.offset = 0 /\ yb.taken = taken2
      /\ yb.recved = x.recved + n
  BY DEF Pieces
<1>4. /\ upto \in Nat /\ taken2 \in Seq(Nat) => ya \in Pieces
      /\ Tail(x.rx) \in Seq(Seq(Nat)) /\ taken2 \in Seq(Nat) /\ x.recved + n \in Nat =>
           yb \in Pieces
  <2> HIDE DEF upto, taken2, n
  <2> QED
    BY DEF Pieces
<1>5. size <= n - o /\ first = Numbers(from, e) /\ from = t - o
  BY <1>1
<1>6. /\ x.recved \in Nat /\ x.offset = o /\ x.rx[1] = first /\ Len(x.rx[1]) = n
      /\ TotLen(x.rx) + x.recved = total
  BY DEF Pieces, Accounts
<1> HIDE DEF o, n, first, bytes, taken2, ya, yb, y, from
<1>7. /\ from \in Nat /\ from + o = t /\ from + upto = t2 /\ t2 \in Nat /\ t <= t2
      /\ upto \in Nat /\ o <= upto /\ t2 <= e /\ upto <= e - from /\ from <= e
      /\ t2 - upto = from /\ upto <= t2 /\ n = e - from
  BY <1>1, <1>5
<1>8. to \in Nat /\ TotLen(x.rx) = to - from /\ TotLen(Tail(x.rx)) = to - e
  BY <1>1, <1>5, FlattenIs, TotLenIs
<1>9. upto = o + size
  OBVIOUS
<1> HIDE DEF upto, t2
<1>10. bytes = Numbers(t, t2)
  <2>1. from \in Nat /\ e \in Nat /\ from <= e /\ o \in Nat /\ upto \in Nat /\ o <= upto
        /\ upto <= e - from /\ from + o = t /\ from + upto = t2
    BY <1>1, <1>7
  <2>2. Cut(first, o, upto) = Numbers(t, t2)
    BY <1>5, <2>1, NumbersCut
  <2> QED
    BY <2>2 DEF bytes, Cut
<1>11. taken2 = Numbers(0, t2) /\ taken2 \in Seq(Nat)
  <2>1. 0 \in Nat /\ 0 <= t /\ 0 <= t2
    BY <1>7
  <2>2. Numbers(0, t) \o Numbers(t, t2) = Numbers(0, t2)
    BY <1>7, <2>1, NumbersJoin, ZenonT(40)
  <2>3. Numbers(0, t2) \in Seq(Nat)
    BY <1>7, <2>1, NumbersAre
  <2> QED
    BY <1>1, <1>10, <2>2, <2>3, Zenon DEF taken2
<1>12. CASE n - o - size > 0
  <2>1. y = ya /\ ya \in Pieces
    BY <1>2, <1>4, <1>7, <1>11, <1>12
  <2>2. upto < Len(x.rx[1])
    BY <1>1, <1>6, <1>7, <1>9, <1>12
  <2>3. Chained(x.rx, t2 - upto, to)
    BY <1>1, <1>5, <1>7
  <2>4. Placed(ya.rx, ya.offset, ya.taken, to)
    BY <1>3, <1>7, <1>11, <2>2, <2>3 DEF Placed
  <2>5. TotLen(ya.rx) + ya.recved = total
    BY <1>3, <1>6
  <2>6. TotLen(ya.rx) - ya.offset = TotLen(x.rx) - x.offset - size
    BY <1>1, <1>3, <1>6, <1>7, <1>8, <1>9
  <2> QED
    BY <2>1, <2>4, <2>5, <2>6 DEF Accounts, y
<1>13. CASE ~(n - o - size > 0)
  <2>1. t2 = e
    BY <1>1, <1>7, <1>9, <1>13
  <2>2. y = yb /\ yb \in Pieces
    <3>1. Tail(x.rx) \in Seq(Seq(Nat))
      BY <1>1 DEF Chained
    <3>2. x.recved + n \in Nat
      BY <1>6, <1>7
    <3> QED
      BY <1>2, <1>4, <1>11, <1>13, <3>1, <3>2
  <2>3. Tail(x.rx) # << >> => 0 < Len(Tail(x.rx)[1])
    <3> SUFFICES ASSUME Tail(x.rx) # << >> PROVE 0 < Len(Tail(x.rx)[1])
      OBVIOUS
    <3>1. PICK f \in Nat : e < f /\ Len(Tail(x.rx)[1]) = f - e
      BY <1>1, ChainedFirst
    <3> QED
      BY <1>1, <3>1
  <2>4. Chained(Tail(x.rx), t2 - 0, to) /\ 0 \in Nat /\ 0 <= t2
    BY <1>1, <1>7, <2>1
  <2>5. Placed(yb.rx, yb.offset, yb.taken, to)
    BY <1>3, <1>7, <1>11, <2>3, <2>4 DEF Placed
  <2>6. TotLen(yb.rx) + yb.recved = total
    <3> DEFINE r == x.recved
               k == TotLen(yb.rx)
    <3>1. r \in Nat /\ yb.recved = r + n /\ to - from + r = total
      BY <1>3, <1>6, <1>8
    <3>2. k = to - e /\ n = e - from /\ e \in Nat /\ from \in Nat /\ to \in Nat
      BY <1>3, <1>7, <1>8
    <3> HIDE DEF r, k
    <3>3. k + (r + n) = total
      BY <3>1, <3>2
    <3> QED
      BY <3>1, <3>3 DEF k
  <2>7. TotLen(yb.rx) - yb.offset = TotLen(x.rx) - x.offset - size
    BY <1>1, <1>3, <1>6, <1>7, <1>8, <1>9, <2>1
  <2> QED
    BY <2>2, <2>5, <2>6, <2>7 DEF Accounts, y
<1> QED
  BY <1>12, <1>13

\* The states of a read of a chain with total bytes.
Reading(total, to) ==
  {r \in [x : Pieces, left : Nat] :
     Accounts(r.x, total, to) /\ r.left <= TotLen(r.x.rx) - r.x.offset}

LEMMA CopiedKeeps ==
  ASSUME NEW total \in Nat, NEW to, NEW r \in Reading(total, to)
  PROVE  Copied(r) \in Reading(total, to)
<1> DEFINE x == r.x
           here == Lesser(r.left, Len(x.rx[1]) - x.offset)
           y == Consume(x, here)
<1>1. x \in Pieces /\ r.left \in Nat /\ Accounts(x, total, to)
      /\ r.left <= TotLen(x.rx) - x.offset
  BY DEF Reading
<1>2. CASE r.left = 0
  BY <1>2 DEF Copied
<1>3. CASE r.left # 0
  <2>1. TotLen(x.rx) \in Nat /\ x.offset \in Nat
        /\ (x.rx = << >> => TotLen(x.rx) = 0 /\ x.offset = 0)
    BY <1>1, PlacedIs DEF Accounts
  <2>2. x.rx # << >>
    BY <1>1, <1>3, <2>1
  <2>3. Len(x.rx[1]) \in Nat /\ x.offset < Len(x.rx[1])
    <3>1. x.offset < Len(x.rx[1])
      BY <1>1, <2>2 DEF Accounts, Placed
    <3>2. x.rx \in Seq(Seq(Nat))
      BY <1>1 DEF Pieces
    <3> QED
      BY <2>2, <3>1, <3>2
  <2>4. here \in Nat /\ here <= r.left /\ here <= Len(x.rx[1]) - x.offset
    BY <1>1, <2>1, <2>3, SMTT(40) DEF Lesser
  <2> HIDE DEF here, x
  <2>5. /\ y \in Pieces /\ Accounts(y, total, to)
        /\ TotLen(y.rx) - y.offset = TotLen(x.rx) - x.offset - here
    BY <1>1, <2>2, <2>4, ConsumeKeeps
  <2>6. r.left - here \in Nat /\ r.left - here <= TotLen(y.rx) - y.offset
    BY <1>1, <2>1, <2>4, <2>5
  <2>7. Copied(r) = [x |-> y, left |-> r.left - here]
    BY <1>3 DEF Copied, here, x
  <2> HIDE DEF y
  <2> QED
    BY <2>5, <2>6, <2>7 DEF Reading
<1> QED
  BY <1>2, <1>3

\* read() keeps the bytes in their places and opens the window by what it is done
\* with.
LEMMA ReadKeeps ==
  ASSUME NEW x \in Pieces, NEW to, Placed(x.rx, x.offset, x.taken, to), x.recved = 0,
         NEW size \in Nat
  PROVE  LET y == Read(x, size)
         IN  /\ y \in Pieces /\ Placed(y.rx, y.offset, y.taken, to)
             /\ TotLen(y.rx) + y.recved = TotLen(x.rx)
<1> DEFINE N == Len(x.rx)
           total == TotLen(x.rx)
           base == [x |-> x, left |-> Lesser(size, total - x.offset)]
           R == Reading(total, to)
           Solves(f) == f = [k \in 0 .. N |-> IF k = 0 THEN base ELSE Copied(f[k - 1])]
<1>1. N \in Nat /\ total \in Nat /\ x.offset \in Nat /\ x.offset <= total
  BY PlacedIs DEF Pieces
<1>2. base \in R
  <2>1. Lesser(size, total - x.offset) \in Nat
        /\ Lesser(size, total - x.offset) <= total - x.offset
    BY <1>1 DEF Lesser
  <2>2. Accounts(x, total, to)
    BY <1>1 DEF Accounts
  <2> QED
    BY <2>1, <2>2 DEF Reading
<1>3. Read(x, size) = (CHOOSE f : Solves(f))[N].x
  BY DEF Read
<1> HIDE DEF N, total, base, R
<1>4. \A r \in R : Copied(r) \in R
  BY <1>1, CopiedKeeps DEF R
<1>5. \E f : Solves(f)
  <2> DEFINE step == [p \in (1 .. N) \X R |-> Copied(p[2])]
  <2>1. step \in [(1 .. N) \X R -> R]
    BY <1>4
  <2>2. ASSUME NEW k \in 1 .. N, NEW r \in R PROVE step[<<k, r>>] = Copied(r)
    BY <2>2
  <2> HIDE DEF step
  <2>3. PICK f \in [0 .. N -> R] : StepsFrom(f, base, step, N)
    BY <1>1, <1>2, <2>1, RecursionExists
  <2>4. ASSUME NEW k \in 0 .. N
        PROVE  f[k] = IF k = 0 THEN base ELSE Copied(f[k - 1])
    <3>1. CASE k = 0
      BY <2>3, <3>1 DEF StepsFrom
    <3>2. CASE k # 0
      <4>1. k \in 1 .. N /\ k - 1 \in 0 .. N
        BY <1>1, <3>2
      <4>2. f[k] = step[<<k, f[k - 1]>>] /\ f[k - 1] \in R
        BY <2>3, <4>1 DEF StepsFrom
      <4> QED
        BY <2>2, <3>2, <4>1, <4>2
    <3> QED
      BY <3>1, <3>2
  <2>5. f = [k \in 0 .. N |-> f[k]]
    BY <2>3
  <2>6. Solves(f)
    BY <2>4, <2>5
  <2> HIDE DEF Solves
  <2> QED
    BY <2>6
<1>6. ASSUME NEW f, Solves(f) PROVE f[N] \in R
  <2> DEFINE S == {k \in Nat : k <= N => f[k] \in R}
  <2>1. ASSUME NEW k \in 0 .. N
        PROVE  f[k] = IF k = 0 THEN base ELSE Copied(f[k - 1])
    BY <1>6
  <2> HIDE DEF Solves
  <2>2. 0 \in S
    BY <1>1, <1>2, <2>1
  <2>3. ASSUME NEW k \in Nat, k \in S PROVE k + 1 \in S
    <3> SUFFICES ASSUME k + 1 <= N PROVE f[k + 1] \in R
      OBVIOUS
    <3>1. k + 1 \in 0 .. N /\ k + 1 # 0 /\ k + 1 - 1 = k /\ k <= N
      BY <1>1
    <3>2. f[k + 1] = Copied(f[k]) /\ f[k] \in R
      BY <2>1, <2>3, <3>1
    <3> QED
      BY <1>4, <3>2
  <2> HIDE DEF S
  <2>4. N \in S
    BY <1>1, <2>2, <2>3, SetInduction
  <2>5. N <= N
    BY <1>1
  <2> QED
    BY <2>4, <2>5 DEF S
<1> HIDE DEF Solves
<1>7. (CHOOSE f : Solves(f))[N] \in R
  <2>1. Solves(CHOOSE f : Solves(f))
    BY <1>5
  <2> QED
    BY <1>6, <2>1
<1> DEFINE last == (CHOOSE f : Solves(f))[N]
<1> HIDE DEF last
<1>8. Read(x, size) = last.x /\ last \in R
  BY <1>3, <1>7 DEF last
<1>9. last.x \in Pieces /\ Accounts(last.x, total, to)
  BY <1>8 DEF R, Reading
<1> QED
  BY <1>8, <1>9 DEF Accounts, total

-----------------------------------------------------------------------------
Unmade(y) == y.state \in {"none", "connecting"}

\* The bytes of a connection, on both sides of it.
BytesOf(x, y) ==
  /\ y.received \in Nat /\ y.recved \in Nat
  /\ Placed(x.rx, x.offset, x.taken, y.received)
  /\ x.pcb => y.received - y.recved = TotLen(x.rx)
  /\ Unmade(y) => y.received = 0 /\ y.recved = 0

BytesHold(s) == \A c \in Connections : BytesOf(s.ctx[c], s.pcb[c])

SameSide(x, x2) ==
  /\ x2.rx = x.rx /\ x2.offset = x.offset /\ x2.taken = x.taken
  /\ x2.pcb => x.pcb
SamePcb(y, y2) ==
  /\ y2.received = y.received /\ y2.recved = y.recved
  /\ Unmade(y2) => Unmade(y)

LEMMA SameBytes ==
  ASSUME NEW s, BytesHold(s), NEW t,
         \A d \in Connections : SameSide(s.ctx[d], t.ctx[d]),
         \A d \in Connections : SamePcb(s.pcb[d], t.pcb[d])
  PROVE  BytesHold(t)
  BY DEF BytesHold, BytesOf, SameSide, SamePcb

\* A context with nothing in it, on a connection nothing has come in on.
LEMMA NothingYet ==
  ASSUME NEW x, x.rx = << >>, x.offset = 0, x.taken = << >>,
         NEW y, y.received = 0, y.recved = 0
  PROVE  BytesOf(x, y)
<1>1. Placed(x.rx, x.offset, x.taken, y.received)
  BY PlacedNone
<1>2. TotLen(x.rx) = 0
  BY <1>1, PlacedIs
<1>3. 0 \in Nat /\ 0 - 0 = 0
  OBVIOUS
<1> QED
  BY <1>1, <1>2, <1>3 DEF BytesOf

LEMMA RecvedIs ==
  ASSUME NEW s, AllBound(s), NEW c \in Connections, NEW n
  PROVE  LET t == Recved(s, c, n)
         IN  /\ t.ctx = s.ctx
             /\ \A d \in Connections :
                  /\ t.pcb[d].received = s.pcb[d].received /\ t.pcb[d].state = s.pcb[d].state
                  /\ t.pcb[d].recved = IF d = c /\ s.ctx[c].pcb THEN s.pcb[d].recved + n
                                       ELSE s.pcb[d].recved
<1> DEFINE t == [s EXCEPT !.pcb[c].recved = @ + n]
<1>1. t.ctx = s.ctx
  BY DEF AllBound, Shaped
<1>2. ASSUME NEW d \in Connections
      PROVE  /\ t.pcb[d].received = s.pcb[d].received /\ t.pcb[d].state = s.pcb[d].state
             /\ t.pcb[d].recved = IF d = c THEN s.pcb[d].recved + n ELSE s.pcb[d].recved
  BY DEF AllBound, Shaped, IsPcb
<1>3. Recved(s, c, n) = IF s.ctx[c].pcb THEN t ELSE s
  BY DEF Recved
<1> HIDE DEF t
<1> QED
  BY <1>1, <1>2, <1>3

LEMMA FlushBytes ==
  ASSUME NEW s, AllBound(s), BytesHold(s), NEW c \in Connections
  PROVE  BytesHold(Flush(s, c))
<1> DEFINE x == s.ctx[c]
           y == s.pcb[c]
           all == FlattenSeq(x.rx)
           total == TotLen(x.rx)
           taken2 == x.taken \o SubSeq(all, x.offset + 1, Len(all))
           r == Recved(s, c, total)
           t == [r EXCEPT !.ctx[c].rx = << >>, !.ctx[c].offset = 0,
                          !.ctx[c].taken = @ \o SubSeq(all, x.offset + 1, Len(all))]
<1>1. Flush(s, c) = IF x.rx = << >> THEN s ELSE t
  BY DEF Flush
<1>2. /\ r.ctx = s.ctx
      /\ \A d \in Connections :
           /\ r.pcb[d].received = s.pcb[d].received /\ r.pcb[d].state = s.pcb[d].state
           /\ r.pcb[d].recved = IF d = c /\ s.ctx[c].pcb THEN s.pcb[d].recved + total
                                ELSE s.pcb[d].recved
  <2> HIDE DEF total
  <2> QED
    BY RecvedIs
<1>3. AllBound(r)
  BY RecvedKeeps, KeptIsBound
<1>4. BytesOf(x, y) /\ Bound(x, y)
  BY DEF BytesHold, AllBound
<1>5. Placed(<< >>, 0, taken2, y.received)
  BY <1>4, PlacedFlushed DEF BytesOf
<1>6. total \in Nat /\ TotLen(<< >>) = 0
  <2>1. total \in Nat
    BY <1>4, PlacedIs DEF BytesOf
  <2>2. TotLen(<< >>) = 0
    BY <1>5, PlacedIs
  <2> QED
    BY <2>1, <2>2
<1>7. t.pcb = r.pcb
  BY <1>3 DEF AllBound, Shaped
<1> DEFINE rest == SubSeq(all, x.offset + 1, Len(all))
<1>8. t = [r EXCEPT !.ctx[c].rx = << >>, !.ctx[c].offset = 0, !.ctx[c].taken = @ \o rest]
  OBVIOUS
<1> HIDE DEF rest
<1>9. ASSUME NEW d \in Connections
      PROVE  /\ t.ctx[d].rx = IF d = c THEN << >> ELSE r.ctx[d].rx
             /\ t.ctx[d].offset = IF d = c THEN 0 ELSE r.ctx[d].offset
             /\ t.ctx[d].taken = IF d = c THEN r.ctx[d].taken \o rest ELSE r.ctx[d].taken
             /\ t.ctx[d].pcb = r.ctx[d].pcb
  <2> HIDE DEF r, t
  <2> QED
    BY <1>3, <1>8 DEF AllBound, Shaped, IsContext
<1>10. taken2 = x.taken \o rest
  BY DEF rest
<1> HIDE DEF r, t, total, taken2, all
<1>11. ASSUME NEW d \in Connections PROVE BytesOf(t.ctx[d], t.pcb[d])
  <2>1. CASE d = c
    <3>1. /\ t.ctx[d].rx = << >> /\ t.ctx[d].offset = 0 /\ t.ctx[d].taken = taken2
          /\ t.ctx[d].pcb = x.pcb
          /\ t.pcb[d].received = y.received /\ t.pcb[d].state = y.state
          /\ t.pcb[d].recved = IF x.pcb THEN y.recved + total ELSE y.recved
      BY <1>2, <1>7, <1>9, <1>10, <2>1
    <3>2. y.received \in Nat /\ y.recved \in Nat
          /\ (x.pcb => y.received - y.recved = total)
          /\ (Unmade(y) => y.received = 0 /\ y.recved = 0)
      BY <1>4 DEF BytesOf, total
    <3>3. Unmade(y) => ~x.pcb
      BY <1>4 DEF Bound, Unmade
    <3>4. t.pcb[d].recved \in Nat /\ (x.pcb => y.received - t.pcb[d].recved = 0)
      BY <1>6, <3>1, <3>2
    <3>5. Unmade(t.pcb[d]) => Unmade(y)
      BY <3>1 DEF Unmade
    <3> HIDE DEF x, y
    <3> QED
      BY <1>5, <1>6, <3>1, <3>2, <3>3, <3>4, <3>5 DEF BytesOf
  <2>2. CASE d # c
    <3>1. SameSide(s.ctx[d], t.ctx[d])
      BY <1>2, <1>9, <2>2 DEF SameSide
    <3>2. SamePcb(s.pcb[d], t.pcb[d])
      BY <1>2, <1>7, <2>2 DEF SamePcb, Unmade
    <3>3. BytesOf(s.ctx[d], s.pcb[d])
      BY DEF BytesHold
    <3> QED
      BY <3>1, <3>2, <3>3 DEF BytesOf, SameSide, SamePcb
  <2> QED
    BY <2>1, <2>2
<1> QED
  BY <1>1, <1>11 DEF BytesHold

LEMMA CloseBytes ==
  ASSUME NEW s, AllBound(s), BytesHold(s), NEW c
  PROVE  BytesHold(Close(s, c))
<1> DEFINE t == [s EXCEPT !.ctx[c].pcb = FALSE,
                          !.pcb[c].state = "closed", !.pcb[c].arg = Nobody]
<1>1. ASSUME NEW d \in Connections
      PROVE  SameSide(s.ctx[d], t.ctx[d])
  BY DEF AllBound, Shaped, IsContext, SameSide
<1>2. ASSUME NEW d \in Connections
      PROVE  SamePcb(s.pcb[d], t.pcb[d])
  BY DEF AllBound, Shaped, IsPcb, SamePcb, Unmade
<1>3. Close(s, c) = IF s.ctx[c].pcb THEN t ELSE s
  BY DEF Close
<1> HIDE DEF t
<1>4. BytesHold(t)
  BY <1>1, <1>2, SameBytes
<1> QED
  BY <1>3, <1>4

LEMMA RefBytes ==
  ASSUME NEW s, AllBound(s), BytesHold(s), NEW c
  PROVE  BytesHold(Ref(s, c))
<1> DEFINE t == [s EXCEPT !.ctx[c].refs = @ + 1]
<1>1. t.pcb = s.pcb
  BY DEF AllBound, Shaped
<1>2. ASSUME NEW d \in Connections PROVE SameSide(s.ctx[d], t.ctx[d])
  BY DEF AllBound, Shaped, IsContext, SameSide
<1>3. Ref(s, c) = IF c = Null THEN s ELSE t
  BY DEF Ref
<1> HIDE DEF t
<1>4. \A d \in Connections : SamePcb(s.pcb[d], t.pcb[d])
  BY <1>1 DEF SamePcb
<1>5. BytesHold(t)
  BY <1>2, <1>4, SameBytes
<1> QED
  BY <1>3, <1>5

LEMMA UnrefBytes ==
  ASSUME NEW s, AllBound(s), BytesHold(s), NEW c \in Connections \cup {Null}
  PROVE  BytesHold(Unref(s, c))
<1> DEFINE t1 == [s EXCEPT !.ctx[c].refs = @ - 1]
           k == Close(Flush(s, c), c).pcb[c]
           x2 == [NoContext EXCEPT !.life = "deleted"]
           y2 == [NoPcb EXCEPT !.state = k.state, !.arg = k.arg]
           t2 == [s EXCEPT !.ctx[c] = x2, !.pcb[c] = y2]
<1>1. Unref(s, c) = IF c = Null THEN s ELSE IF s.ctx[c].refs > 1 THEN t1 ELSE t2
  BY DEF Unref
<1>2. BytesHold(t1)
  <2>1. t1.pcb = s.pcb
    BY DEF AllBound, Shaped
  <2>2. ASSUME NEW d \in Connections PROVE SameSide(s.ctx[d], t1.ctx[d])
    BY DEF AllBound, Shaped, IsContext, SameSide
  <2> HIDE DEF t1
  <2>3. \A d \in Connections : SamePcb(s.pcb[d], t1.pcb[d])
    BY <2>1 DEF SamePcb
  <2> QED
    BY <2>2, <2>3, SameBytes
<1> HIDE DEF t1, k
<1>3. x2.rx = << >> /\ x2.offset = 0 /\ x2.taken = << >>
  BY DEF NoContext
<1>4. y2.received = 0 /\ y2.recved = 0
  BY DEF NoPcb
<1> HIDE DEF x2, y2
<1>5. BytesOf(x2, y2)
  BY <1>3, <1>4, NothingYet
<1>6. ASSUME NEW d \in Connections
      PROVE  /\ t2.ctx[d] = IF d = c THEN x2 ELSE s.ctx[d]
             /\ t2.pcb[d] = IF d = c THEN y2 ELSE s.pcb[d]
  BY DEF AllBound, Shaped
<1> HIDE DEF t2
<1>7. BytesHold(t2)
  BY <1>5, <1>6 DEF BytesHold
<1> QED
  BY <1>1, <1>2, <1>7

-----------------------------------------------------------------------------
Bytes == BytesHold(State)

LEMMA BecomesBytes ==
  ASSUME NEW t, BytesHold(t), Becomes(t)
  PROVE  Bytes'
<1>1. State'.ctx = t.ctx /\ State'.pcb = t.pcb
  BY DEF State, Becomes
<1>2. BytesHold(State')
  BY <1>1 DEF BytesHold
<1> QED
  BY <1>2 DEF Bytes

\* The steps that leave the bytes where they are.
LEMMA StayBytes ==
  ASSUME Bytes, \A d \in Connections : SameSide(ctx[d], ctx'[d]),
         \A d \in Connections : SamePcb(pcb[d], pcb'[d])
  PROVE  Bytes'
<1>1. State.ctx = ctx /\ State.pcb = pcb /\ State'.ctx = ctx' /\ State'.pcb = pcb'
  BY DEF State
<1>2. BytesHold(State')
  BY <1>1, SameBytes DEF Bytes
<1> QED
  BY <1>2 DEF Bytes

LEMMA StillBytes == ASSUME Bytes, UNCHANGED <<ctx, pcb>> PROVE Bytes'
  BY StayBytes DEF SameSide, SamePcb

LEMMA StartBytes ==
  ASSUME TcpInv, Handles, Bytes, NEW h \in Clients, startConnect(h)
  PROVE  Bytes'
<1> DEFINE s == Unref(State, handle[h])
<1>1. AllBound(State) /\ handle[h] \in Connections \cup {Null}
  BY DEF TcpInv, Handles
<1>2. ctx' = s.ctx /\ (pcb' = s.pcb \/ \E c \in Fresh : Asked(s, h, c, pcb'))
  BY <1>1, Starts
<1>3. BytesHold(s) /\ AllBound(s)
  BY <1>1, UnrefBytes, UnrefKeeps, KeptIsBound DEF Bytes
<1>4. \A d \in Connections : s.pcb[d].state = "none" <=> pcb[d].state = "none"
  <2>1. handle[h] = Null => s = State
    BY DEF Unref
  <2>2. handle[h] # Null =>
          \A d \in Connections : s.pcb[d].state = "none" <=> State.pcb[d].state = "none"
    BY <1>1, UnrefIs
  <2> QED
    BY <2>1, <2>2 DEF State
<1> HIDE DEF s
<1> DEFINE t == [ctx |-> ctx', pcb |-> pcb']
<1>5. t.ctx = s.ctx /\ t.pcb = pcb'
  BY <1>2
<1>6. Becomes(t)
  BY DEF Becomes
<1> HIDE DEF t
<1>7. CASE pcb' = s.pcb
  <2>1. \A d \in Connections : SameSide(s.ctx[d], t.ctx[d]) /\ SamePcb(s.pcb[d], t.pcb[d])
    BY <1>5, <1>7 DEF SameSide, SamePcb
  <2> QED
    BY <1>3, <1>6, <2>1, SameBytes, BecomesBytes
<1>8. CASE \E c \in Fresh : Asked(s, h, c, pcb')
  <2>1. PICK c \in Fresh : Asked(s, h, c, pcb')
    BY <1>8
  <2>2. c \in Connections /\ s.pcb[c].state = "none"
    BY <1>4, <2>1 DEF Fresh
  <2>3. ASSUME NEW d \in Connections
        PROVE  SameSide(s.ctx[d], t.ctx[d]) /\ SamePcb(s.pcb[d], t.pcb[d])
    <3>1. CASE d = c
      BY <1>5, <2>1, <2>2, <3>1 DEF Asked, SameSide, SamePcb, Unmade
    <3>2. CASE d # c
      BY <1>5, <2>1, <3>2 DEF Asked, SameSide, SamePcb
    <3> QED
      BY <3>1, <3>2
  <2> QED
    BY <1>3, <1>6, <2>3, SameBytes, BecomesBytes
<1> QED
  BY <1>2, <1>7, <1>8

LEMMA ReadBytes ==
  ASSUME TcpInv, Handles, Bytes, NEW h \in Clients, NEW n \in Nat, read(h, n)
  PROVE  Bytes'
<1> DEFINE c == handle[h]
           z == [rx |-> ctx[c].rx, offset |-> ctx[c].offset,
                 taken |-> ctx[c].taken, recved |-> 0]
           x == Read(z, n)
           r == Recved(State, c, x.recved)
           c2 == [ctx EXCEPT ![c].rx = x.rx, ![c].offset = x.offset,
                             ![c].taken = x.taken]
           t == [ctx |-> c2, pcb |-> r.pcb]
<1>1. ctx' = c2 /\ pcb' = r.pcb /\ c # Null
  BY DEF read
<1>2. c \in Connections /\ AllBound(State)
  BY <1>1 DEF Handles, TcpInv
<1>3. BytesOf(ctx[c], pcb[c]) /\ Bound(ctx[c], pcb[c])
  BY <1>2 DEF Bytes, BytesHold, State, AllBound
<1> DEFINE to == pcb[c].received
<1>4. Placed(ctx[c].rx, ctx[c].offset, ctx[c].taken, to)
  BY <1>3 DEF BytesOf
<1>5. /\ ctx[c].rx \in Seq(Seq(Nat)) /\ ctx[c].offset \in Nat /\ ctx[c].taken \in Seq(Nat)
      /\ TotLen(ctx[c].rx) \in Nat
  <2>1. PICK u \in Nat :
          ctx[c].taken = Numbers(0, u) /\ Chained(ctx[c].rx, u - ctx[c].offset, to)
    BY <1>4 DEF Placed
  <2>2. 0 \in Nat /\ 0 <= u
    OBVIOUS
  <2>3. ctx[c].taken \in Seq(Nat)
    BY <2>1, <2>2, NumbersAre
  <2>4. ctx[c].rx \in Seq(Seq(Nat))
    BY <2>1 DEF Chained
  <2> QED
    BY <1>4, <2>3, <2>4, PlacedIs
<1>6. z \in Pieces /\ z.rx = ctx[c].rx /\ z.offset = ctx[c].offset
      /\ z.taken = ctx[c].taken /\ z.recved = 0
  <2>1. 0 \in Nat
    OBVIOUS
  <2> QED
    BY <1>5, <2>1 DEF Pieces
<1> HIDE DEF z, to
<1>7. /\ x \in Pieces /\ Placed(x.rx, x.offset, x.taken, to)
      /\ TotLen(x.rx) + x.recved = TotLen(ctx[c].rx)
  BY <1>4, <1>6, ReadKeeps
<1>8. x.recved \in Nat
  BY <1>7 DEF Pieces
<1> HIDE DEF x, c
<1>9. ASSUME NEW d \in Connections
      PROVE  /\ r.pcb[d].received = pcb[d].received /\ r.pcb[d].state = pcb[d].state
             /\ r.pcb[d].recved = IF d = c /\ ctx[c].pcb THEN pcb[d].recved + x.recved
                                  ELSE pcb[d].recved
  <2>1. State.ctx = ctx /\ State.pcb = pcb
    BY DEF State
  <2> DEFINE m == x.recved
  <2> HIDE DEF m
  <2>2. LET q == Recved(State, c, m)
        IN  /\ q.pcb[d].received = State.pcb[d].received
            /\ q.pcb[d].state = State.pcb[d].state
            /\ q.pcb[d].recved = IF d = c /\ State.ctx[c].pcb THEN State.pcb[d].recved + m
                                 ELSE State.pcb[d].recved
    BY <1>2, RecvedIs
  <2> QED
    BY <2>1, <2>2 DEF m
<1> HIDE DEF r
<1>10. ASSUME NEW d \in Connections
       PROVE  /\ c2[d].rx = IF d = c THEN x.rx ELSE ctx[d].rx
              /\ c2[d].offset = IF d = c THEN x.offset ELSE ctx[d].offset
              /\ c2[d].taken = IF d = c THEN x.taken ELSE ctx[d].taken
              /\ c2[d].pcb = ctx[d].pcb
  BY <1>2 DEF AllBound, Shaped, IsContext, State
<1> HIDE DEF c2
<1>11. t.ctx = c2 /\ t.pcb = r.pcb /\ Becomes(t)
  BY <1>1 DEF Becomes
<1> HIDE DEF t
<1>12. ASSUME NEW d \in Connections PROVE BytesOf(t.ctx[d], t.pcb[d])
  <2>1. CASE d = c
    <3>1. /\ t.ctx[d].rx = x.rx /\ t.ctx[d].offset = x.offset /\ t.ctx[d].taken = x.taken
          /\ t.ctx[d].pcb = ctx[c].pcb
          /\ t.pcb[d].received = to /\ t.pcb[d].state = pcb[c].state
          /\ t.pcb[d].recved = IF ctx[c].pcb THEN pcb[c].recved + x.recved
                               ELSE pcb[c].recved
      BY <1>9, <1>10, <1>11, <2>1 DEF to
    <3>2. /\ to \in Nat /\ pcb[c].recved \in Nat
          /\ ctx[c].pcb => to - pcb[c].recved = TotLen(ctx[c].rx)
          /\ Unmade(pcb[c]) => to = 0 /\ pcb[c].recved = 0
      BY <1>3 DEF BytesOf, to
    <3>3. Unmade(pcb[c]) => ~ctx[c].pcb
      BY <1>3 DEF Bound, Unmade
    <3>4. Unmade(t.pcb[d]) => Unmade(pcb[c])
      BY <3>1 DEF Unmade
    <3>5. TotLen(x.rx) \in Nat
      BY <1>7, PlacedIs
    <3>6. t.pcb[d].recved \in Nat /\ (ctx[c].pcb => to - t.pcb[d].recved = TotLen(x.rx))
      <4> DEFINE m == x.recved
                 p == pcb[c].recved
                 all == TotLen(ctx[c].rx)
                 left == TotLen(x.rx)
      <4>1. /\ m \in Nat /\ p \in Nat /\ left \in Nat /\ to \in Nat /\ left + m = all
            /\ ctx[c].pcb => to - p = all
            /\ t.pcb[d].recved = IF ctx[c].pcb THEN p + m ELSE p
        BY <1>7, <1>8, <3>1, <3>2, <3>5
      <4> HIDE DEF m, p, all, left
      <4>2. t.pcb[d].recved \in Nat /\ (ctx[c].pcb => to - t.pcb[d].recved = left)
        BY <4>1
      <4> QED
        BY <4>2 DEF left
    <3> QED
      BY <1>7, <3>1, <3>2, <3>3, <3>4, <3>6 DEF BytesOf
  <2>2. CASE d # c
    <3>1. SameSide(ctx[d], t.ctx[d]) /\ SamePcb(pcb[d], t.pcb[d])
      BY <1>9, <1>10, <1>11, <2>2 DEF SameSide, SamePcb, Unmade
    <3>2. BytesOf(ctx[d], pcb[d])
      BY DEF Bytes, BytesHold, State
    <3> QED
      BY <3>1, <3>2 DEF BytesOf, SameSide, SamePcb
  <2> QED
    BY <2>1, <2>2
<1>13. BytesHold(t)
  BY <1>12 DEF BytesHold
<1> QED
  BY <1>11, <1>13, BecomesBytes

LEMMA ReceiveBytes ==
  ASSUME TcpInv, Bytes, NEW c \in Connections, NEW n \in Nat \ {0}, receive(c, n)
  PROVE  Bytes'
<1> DEFINE to == pcb[c].received
           new == [i \in 1 .. n |-> to + i]
           rx2 == Append(ctx[c].rx, new)
           sum == to + n
           c2 == [ctx EXCEPT ![c].rx = rx2]
           p2 == [pcb EXCEPT ![c].received = sum]
           t == [ctx |-> c2, pcb |-> p2]
<1>1. ctx' = c2 /\ pcb' = p2 /\ pcb[c].state = "established"
  BY DEF receive, Callback
<1>2. AllBound(State) /\ BytesOf(ctx[c], pcb[c])
  BY DEF TcpInv, Bytes, BytesHold, State
<1>3. /\ to \in Nat /\ pcb[c].recved \in Nat
      /\ Placed(ctx[c].rx, ctx[c].offset, ctx[c].taken, to)
      /\ ctx[c].pcb => to - pcb[c].recved = TotLen(ctx[c].rx)
  BY <1>2 DEF BytesOf
<1>4. new = Numbers(to, to + n)
  <2> HIDE DEF to
  <2>1. (to + n) - to = n
    BY <1>3
  <2> QED
    BY <2>1 DEF Numbers
<1> HIDE DEF new, to
<1>5. Placed(rx2, ctx[c].offset, ctx[c].taken, to + n)
      /\ TotLen(rx2) = TotLen(ctx[c].rx) + n
  BY <1>3, <1>4, PlacedMore
<1> HIDE DEF rx2, sum
<1>6. ASSUME NEW d \in Connections
      PROVE  /\ c2[d].rx = IF d = c THEN rx2 ELSE ctx[d].rx
             /\ c2[d].offset = ctx[d].offset /\ c2[d].taken = ctx[d].taken
             /\ c2[d].pcb = ctx[d].pcb
  BY <1>2 DEF AllBound, Shaped, IsContext, State
<1>7. ASSUME NEW d \in Connections
      PROVE  /\ p2[d].received = IF d = c THEN sum ELSE pcb[d].received
             /\ p2[d].recved = pcb[d].recved /\ p2[d].state = pcb[d].state
  BY <1>2 DEF AllBound, Shaped, IsPcb, State
<1> HIDE DEF c2, p2
<1>8. t.ctx = c2 /\ t.pcb = p2 /\ Becomes(t)
  BY <1>1 DEF Becomes
<1> HIDE DEF t
<1>9. ASSUME NEW d \in Connections PROVE BytesOf(t.ctx[d], t.pcb[d])
  <2>1. CASE d = c
    <3>1. /\ t.ctx[d].rx = rx2 /\ t.ctx[d].offset = ctx[c].offset
          /\ t.ctx[d].taken = ctx[c].taken /\ t.ctx[d].pcb = ctx[c].pcb
          /\ t.pcb[d].received = to + n /\ t.pcb[d].recved = pcb[c].recved
          /\ t.pcb[d].state = "established"
      BY <1>1, <1>6, <1>7, <1>8, <2>1 DEF sum
    <3>2. to + n \in Nat
      BY <1>3
    <3>3. ctx[c].pcb => (to + n) - pcb[c].recved = TotLen(rx2)
      BY <1>3, <1>5
    <3>4. ~Unmade(t.pcb[d])
      BY <3>1 DEF Unmade
    <3> QED
      BY <1>3, <1>5, <3>1, <3>2, <3>3, <3>4 DEF BytesOf
  <2>2. CASE d # c
    <3>1. SameSide(ctx[d], t.ctx[d]) /\ SamePcb(pcb[d], t.pcb[d])
      BY <1>6, <1>7, <1>8, <2>2 DEF SameSide, SamePcb, Unmade
    <3>2. BytesOf(ctx[d], pcb[d])
      BY DEF Bytes, BytesHold, State
    <3> QED
      BY <3>1, <3>2 DEF BytesOf, SameSide, SamePcb
  <2> QED
    BY <2>1, <2>2
<1>10. BytesHold(t)
  BY <1>9 DEF BytesHold
<1> QED
  BY <1>8, <1>10, BecomesBytes

-----------------------------------------------------------------------------
\* A connection becomes one with a context, in which there is nothing yet.
Begins(c) ==
  /\ pcb' = [pcb EXCEPT ![c].state = "established", ![c].arg = ToContext]
  /\ \A d \in Connections :
       /\ ctx'[d].pcb = IF d = c THEN TRUE ELSE ctx[d].pcb
       /\ ctx'[d].rx = IF d = c THEN << >> ELSE ctx[d].rx
       /\ ctx'[d].offset = IF d = c THEN 0 ELSE ctx[d].offset
       /\ ctx'[d].taken = IF d = c THEN << >> ELSE ctx[d].taken

LEMMA MadeBytes ==
  ASSUME TcpInv, Bytes, NEW c \in Connections, Unmade(pcb[c]), Begins(c)
  PROVE  Bytes'
<1> DEFINE p2 == [pcb EXCEPT ![c].state = "established", ![c].arg = ToContext]
           t == [ctx |-> ctx', pcb |-> p2]
<1>1. AllBound(State) /\ BytesOf(ctx[c], pcb[c])
  BY DEF TcpInv, Bytes, BytesHold, State
<1>2. pcb[c].received = 0 /\ pcb[c].recved = 0
  BY <1>1 DEF BytesOf
<1>3. ASSUME NEW d \in Connections
      PROVE  /\ p2[d].received = pcb[d].received /\ p2[d].recved = pcb[d].recved
             /\ p2[d].state = IF d = c THEN "established" ELSE pcb[d].state
  BY <1>1 DEF AllBound, Shaped, IsPcb, State
<1>4. t.ctx = ctx' /\ t.pcb = p2 /\ Becomes(t)
  BY DEF Becomes, Begins
<1> HIDE DEF t, p2
<1>5. ASSUME NEW d \in Connections PROVE BytesOf(t.ctx[d], t.pcb[d])
  <2>1. CASE d = c
    <3>1. /\ t.ctx[d].rx = << >> /\ t.ctx[d].offset = 0 /\ t.ctx[d].taken = << >>
          /\ t.pcb[d].received = 0 /\ t.pcb[d].recved = 0
      BY <1>2, <1>3, <1>4, <2>1 DEF Begins
    <3> QED
      BY <3>1, NothingYet
  <2>2. CASE d # c
    <3>1. SameSide(ctx[d], t.ctx[d]) /\ SamePcb(pcb[d], t.pcb[d])
      BY <1>3, <1>4, <2>2 DEF SameSide, SamePcb, Unmade, Begins
    <3>2. BytesOf(ctx[d], pcb[d])
      BY DEF Bytes, BytesHold, State
    <3> QED
      BY <3>1, <3>2 DEF BytesOf, SameSide, SamePcb
  <2> QED
    BY <2>1, <2>2
<1>6. BytesHold(t)
  BY <1>5 DEF BytesHold
<1> QED
  BY <1>4, <1>6, BecomesBytes

LEMMA NewContext ==
  ASSUME NEW refs
  PROVE  LET x == ClientContext(refs)
         IN  /\ x.pcb = TRUE /\ x.rx = << >> /\ x.offset = 0 /\ x.taken = << >>
             /\ DOMAIN x = DOMAIN NoContext
  BY DEF ClientContext, NoContext

LEMMA AcceptBytes ==
  ASSUME TcpInv, Bytes, accept
  PROVE  Bytes'
<1> DEFINE new == ClientContext(0)
           k == LastOf[unclaimed]
           p2(c) == [pcb EXCEPT ![c].state = "established", ![c].arg = ToContext]
<1>1. PICK c \in Fresh :
        /\ ctx' = Appended([ctx EXCEPT ![c] = new], c)
        /\ pcb' = p2(c)
  BY DEF accept
<1> DEFINE c1 == [ctx EXCEPT ![c] = new]
           c2 == [c1 EXCEPT ![k].next = c]
<1>2. c \in Connections /\ Unmade(pcb[c])
  BY <1>1 DEF Fresh, Unmade
<1>3. ctx' = IF unclaimed = Null THEN c1 ELSE c2
  BY <1>1 DEF Appended
<1>4. /\ new.pcb = TRUE /\ new.rx = << >> /\ new.offset = 0 /\ new.taken = << >>
      /\ IsContext(new)
  BY DEF ClientContext, NoContext, IsContext
<1> HIDE DEF new, k
<1>5. DOMAIN ctx = Connections /\ \A d \in Connections : IsContext(ctx[d])
  BY DEF TcpInv, AllBound, Shaped, State
<1>6. DOMAIN c1 = Connections
      /\ \A d \in Connections : c1[d] = (IF d = c THEN new ELSE ctx[d]) /\ IsContext(c1[d])
  BY <1>4, <1>5
<1> HIDE DEF c1
<1>7. ASSUME NEW d \in Connections
      PROVE  /\ c2[d].pcb = c1[d].pcb /\ c2[d].rx = c1[d].rx
             /\ c2[d].offset = c1[d].offset /\ c2[d].taken = c1[d].taken
  BY <1>6 DEF IsContext
<1> HIDE DEF c2
<1>8. ASSUME NEW d \in Connections
      PROVE  /\ ctx'[d].pcb = IF d = c THEN TRUE ELSE ctx[d].pcb
             /\ ctx'[d].rx = IF d = c THEN << >> ELSE ctx[d].rx
             /\ ctx'[d].offset = IF d = c THEN 0 ELSE ctx[d].offset
             /\ ctx'[d].taken = IF d = c THEN << >> ELSE ctx[d].taken
  BY <1>3, <1>4, <1>6, <1>7
<1> QED
  BY <1>1, <1>2, <1>8, MadeBytes DEF Begins

LEMMA ConnectedBytes ==
  ASSUME TcpInv, Bytes, NEW c \in Connections, connected(c)
  PROVE  Bytes'
<1> DEFINE new == ClientContext(1)
<1>1. /\ ctx' = [ctx EXCEPT ![c] = new] /\ Unmade(pcb[c])
      /\ pcb' = [pcb EXCEPT ![c].state = "established", ![c].arg = ToContext]
  BY DEF connected, Unmade
<1>2. new.pcb = TRUE /\ new.rx = << >> /\ new.offset = 0 /\ new.taken = << >>
  BY NewContext
<1> HIDE DEF new
<1>3. DOMAIN ctx = Connections
  BY DEF TcpInv, AllBound, Shaped, State
<1>4. ASSUME NEW d \in Connections
      PROVE  /\ ctx'[d].pcb = IF d = c THEN TRUE ELSE ctx[d].pcb
             /\ ctx'[d].rx = IF d = c THEN << >> ELSE ctx[d].rx
             /\ ctx'[d].offset = IF d = c THEN 0 ELSE ctx[d].offset
             /\ ctx'[d].taken = IF d = c THEN << >> ELSE ctx[d].taken
  BY <1>1, <1>2, <1>3
<1> QED
  BY <1>1, <1>4, MadeBytes DEF Begins

\* write, and the answers to it.
LEMMA WriteBytes ==
  ASSUME TcpInv, Bytes, NEW h \in Clients, NEW n, write(h, n),
         ~UNCHANGED tcpVars
  PROVE  Bytes'
<1> DEFINE c == handle[h]
           will == Lesser(SendBuffer - pcb[c].unacked, n)
           counted == Counted(n, will)
           both == pcb[c].unacked + will
           c2 == [ctx EXCEPT ![c].size_sent = counted, ![c].send_waiting = TRUE]
           p2 == [pcb EXCEPT ![c].unacked = both]
<1>1. AllBound(State) /\ ctx' = c2 /\ pcb' = p2
  BY Zenon DEF TcpInv, write
<1> HIDE DEF c, will, counted, both
<1>2. \A d \in Connections : SameSide(ctx[d], c2[d])
  BY <1>1 DEF AllBound, Shaped, IsContext, State, SameSide
<1>3. \A d \in Connections : SamePcb(pcb[d], p2[d])
  BY <1>1 DEF AllBound, Shaped, IsPcb, State, SamePcb, Unmade
<1> HIDE DEF c2, p2
<1> QED
  BY <1>1, <1>2, <1>3, StayBytes

LEMMA SentBytes ==
  ASSUME TcpInv, Bytes, NEW c \in Connections, NEW n, sent(c, n)
  PROVE  Bytes'
<1> DEFINE left == (ctx[c].size_sent - n) % SizeMod
           less == pcb[c].unacked - n
           c2 == [ctx EXCEPT ![c].size_sent = left]
           p2 == [pcb EXCEPT ![c].unacked = less]
<1>1. AllBound(State) /\ ctx' = c2 /\ pcb' = p2
  BY DEF TcpInv, sent
<1> HIDE DEF left, less
<1>2. \A d \in Connections : SameSide(ctx[d], c2[d])
  BY <1>1 DEF AllBound, Shaped, IsContext, State, SameSide
<1>3. \A d \in Connections : SamePcb(pcb[d], p2[d])
  BY <1>1 DEF AllBound, Shaped, IsPcb, State, SamePcb, Unmade
<1> HIDE DEF c2, p2
<1> QED
  BY <1>1, <1>2, <1>3, StayBytes

LEMMA FailedBytes ==
  ASSUME TcpInv, Bytes, NEW c \in Connections, connectFailed(c)
  PROVE  Bytes'
<1> DEFINE p2 == [pcb EXCEPT ![c].state = "closed", ![c].arg = Nobody]
<1>1. AllBound(State) /\ ctx' = ctx /\ pcb' = p2
  BY DEF TcpInv, connectFailed
<1>2. \A d \in Connections : SamePcb(pcb[d], p2[d])
  BY <1>1 DEF AllBound, Shaped, IsPcb, State, SamePcb, Unmade
<1> HIDE DEF p2
<1> QED
  BY <1>1, <1>2, StayBytes DEF SameSide

LEMMA RunsBytes ==
  ASSUME TcpInv, Bytes, pcb' = pcb,
         ctx' = IF task.at = "write"
                THEN [ctx EXCEPT ![task.conn].send_waiting = FALSE] ELSE ctx
  PROVE  Bytes'
<1> DEFINE c2 == [ctx EXCEPT ![task.conn].send_waiting = FALSE]
<1>1. AllBound(State) /\ (ctx' = c2 \/ ctx' = ctx)
  BY DEF TcpInv
<1>2. \A d \in Connections : SameSide(ctx[d], c2[d])
  BY <1>1 DEF AllBound, Shaped, IsContext, State, SameSide
<1> HIDE DEF c2
<1> QED
  BY <1>1, <1>2, StayBytes DEF SameSide, SamePcb

LEMMA BytesInit == TcpInit => Bytes
<1> SUFFICES ASSUME TcpInit, NEW c \in Connections
             PROVE  BytesOf(State.ctx[c], State.pcb[c])
  BY DEF Bytes, BytesHold
<1>1. State.ctx[c] = NoContext /\ State.pcb[c] = NoPcb
  BY DEF TcpInit, State
<1>2. NoContext.rx = << >> /\ NoContext.offset = 0 /\ NoContext.taken = << >>
      /\ NoPcb.received = 0 /\ NoPcb.recved = 0
  BY DEF NoContext, NoPcb
<1> QED
  BY <1>1, <1>2, NothingYet

LEMMA BytesStep ==
  TcpInv /\ Handles /\ Asks /\ Bytes /\ [TcpNext]_tcpVars => Bytes'
<1> SUFFICES ASSUME TcpInv, Handles, Asks, Bytes, [TcpNext]_tcpVars
             PROVE  Bytes'
  OBVIOUS
<1>1. AllBound(State) /\ BytesHold(State) /\ handle \in [Clients -> Connections \cup {Null}]
      /\ unclaimed \in Connections \cup {Null}
  BY DEF TcpInv, Bytes, Handles
<1>2. ASSUME NEW h \in Clients, startConnect(h) PROVE Bytes'
  BY <1>2, StartBytes
<1>3. CASE \E h \in Clients : available(h)
  BY <1>1, <1>3, RefBytes, BecomesBytes DEF available
<1>4. CASE \E h \in Clients : stop(h)
  BY <1>1, <1>4, UnrefBytes, BecomesBytes DEF stop
<1>5. CASE \E h, g \in Clients : assign(h, g)
  <2>1. PICK h \in Clients, g \in Clients :
          Becomes(Ref(Unref(State, handle[h]), handle[g]))
    BY <1>5 DEF assign, Assigned
  <2>2. BytesHold(Unref(State, handle[h])) /\ AllBound(Unref(State, handle[h]))
    BY <1>1, UnrefBytes, UnrefKeeps, KeptIsBound
  <2> QED
    BY <2>1, <2>2, RefBytes, BecomesBytes
<1>6. CASE \E h \in Clients : flush(h)
  <2>1. PICK h \in Clients : handle[h] # Null /\ Becomes(Flush(State, handle[h]))
    BY <1>6 DEF flush
  <2>2. BytesHold(Flush(State, handle[h]))
    BY <1>1, <2>1, FlushBytes
  <2> QED
    BY <2>1, <2>2, BecomesBytes
<1>7. CASE \E h \in Clients : connect(h)
  BY <1>2, <1>7, StillBytes DEF connect
<1>8. CASE \E h \in Clients, n \in Sizes : read(h, n)
  BY <1>8, ReadBytes, TcpAssumption
<1>9. CASE (\E h \in Clients, n \in WriteSizes : write(h, n)) /\ ~UNCHANGED tcpVars
  BY <1>9, WriteBytes
<1>10. CASE yield \/ delay \/ dnsAnswer \/ timerFires
  BY <1>10, StillBytes DEF yield, delay, dnsAnswer, timerFires
<1>11. CASE resume
  <2>1. CASE task.at = "dns" /\ startConnect(task.client)
    BY <1>2, <2>1 DEF Asks
  <2>2. CASE /\ task' = RunTask
             /\ timer' = IF task.at \in {"write", "delay"} THEN FALSE ELSE timer
             /\ ctx' = IF task.at = "write"
                       THEN [ctx EXCEPT ![task.conn].send_waiting = FALSE] ELSE ctx
             /\ UNCHANGED <<pcb, handle, unclaimed>>
    BY <2>2, RunsBytes
  <2> QED
    BY <1>11, <2>1, <2>2 DEF resume
<1>12. CASE accept
  BY <1>12, AcceptBytes
<1>13. CASE \E c \in Connections : closedByPeer(c) \/ error(c)
  <2>1. PICK c \in Connections : Becomes(Close(State, c))
    BY <1>13 DEF closedByPeer, error
  <2>2. BytesHold(Close(State, c))
    BY <1>1, CloseBytes
  <2> QED
    BY <2>1, <2>2, BecomesBytes
<1>14. CASE \E c \in Connections : connected(c) \/ connectFailed(c)
  BY <1>14, ConnectedBytes, FailedBytes
<1>15. CASE \E c \in Connections, n \in Sizes : receive(c, n) \/ sent(c, n)
  BY <1>15, ReceiveBytes, SentBytes, TcpAssumption
<1>16. CASE UNCHANGED tcpVars
  BY <1>16, StillBytes DEF tcpVars
<1> QED
  BY <1>3, <1>4, <1>5, <1>6, <1>7, <1>8, <1>9, <1>10, <1>11, <1>12, <1>13, <1>14, <1>15,
     <1>16
  DEF TcpNext, sketchStep, callback

\* What was read, and then what is unread, are the bytes received, in order and
\* without a gap; and the window lacks exactly the bytes that wait in pbufs.
THEOREM BytesInTurn == TcpSpec => []ReceivedInOrder
<1>1. Bytes => ReceivedInOrder
  <2> SUFFICES ASSUME Bytes, NEW c \in Connections
               PROVE  /\ ctx[c].taken \o Unread(c) = [i \in 1 .. pcb[c].received |-> i]
                      /\ ctx[c].pcb =>
                           pcb[c].received - pcb[c].recved = TotLen(ctx[c].rx)
    BY DEF ReceivedInOrder
  <2>1. BytesOf(ctx[c], pcb[c])
    BY DEF Bytes, BytesHold, State
  <2> DEFINE to == pcb[c].received
  <2>2. Placed(ctx[c].rx, ctx[c].offset, ctx[c].taken, to)
    BY <2>1 DEF BytesOf
  <2>3. to \in Nat /\ ctx[c].taken \o Unread(c) = Numbers(0, to)
    BY <2>2, PlacedIs DEF Unread
  <2> HIDE DEF to
  <2>4. Numbers(0, to) = [i \in 1 .. to |-> i]
    <3>1. to - 0 = to /\ \A i \in 1 .. to : 0 + i = i
      BY <2>3
    <3> QED
      BY <3>1 DEF Numbers
  <2>5. ctx[c].taken \o Unread(c) = [i \in 1 .. pcb[c].received |-> i]
    BY <2>3, <2>4, Zenon DEF to
  <2> QED
    BY <2>1, <2>5 DEF BytesOf
<1> QED
  BY <1>1, BytesInit, BytesStep, ReferencesInit, AsksStep, HandlesStep, TcpInvAlways, PTL
  DEF TcpSpec
=============================================================================
