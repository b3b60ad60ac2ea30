---------------------------- MODULE SerialPort ----------------------------
(***************************************************************************)
(* The sending half of HardwareSerial, over which the sketch prints: the   *)
(* loop task puts bytes into the FIFO of the UART or into a ring (cbuf),   *)
(* and an interrupt moves them from the ring to the FIFO.  The interrupt   *)
(* comes between any two steps of write(); its handler is one step.  Bytes *)
(* are numbered in the order in which write() accepts them.                *)
(***************************************************************************)
EXTENDS Integers, Sequences

CONSTANTS
  FifoSize,      \* UART_TX_FIFO_SIZE, 128
  Threshold,     \* below so many bytes the FIFO counts as empty, 0x20
  NearlyFull,    \* with less room than this write() arms the interrupt, 10
  TxBufferSize,  \* SERIAL_TX_BUFFER_SIZE, 256
  ByteMod        \* model bound: numbers of bytes, more than are under way

ASSUME SerialAssumption ==
  /\ FifoSize \in Nat /\ TxBufferSize \in Nat \ {0, 1}
  /\ Threshold \in 1 .. FifoSize /\ NearlyFull \in 1 .. FifoSize - Threshold
  /\ ByteMod \in Nat /\ ByteMod > FifoSize + TxBufferSize

VARIABLES
  fifo,            \* the FIFO of the UART
  cells, _begin, _end,   \* the ring _tx_buffer
  armed,           \* the interrupt for an empty FIFO is enabled
  _written,
  task,            \* where the loop task is in write() or flush()
  room,            \* room in the FIFO when write() looked
  moved,           \* history: the interrupt has moved bytes since then
  gap,             \* history: it was disarmed in the middle of a write()
  accepted, sent   \* history: the numbers of the next byte written and sent

serialVars == <<fifo, cells, _begin, _end, armed, _written, task, room, moved,
                gap, accepted, sent>>
ringVars == <<cells, _begin, _end>>

NoByte == -1    \* what a cell that has been read still holds is not modelled
-----------------------------------------------------------------------------
\* cbuf: one cell stays free, or a full ring would look empty.
getSize == IF _end >= _begin THEN _end - _begin ELSE TxBufferSize - (_begin - _end)

ringRoom == IF _end >= _begin THEN TxBufferSize - (_end - _begin) - 1
                              ELSE _begin - _end - 1
Ahead(position, n) == (position + n) % TxBufferSize
Follows(number) == (number + 1) % ByteMod
Ring(n) == [i \in 1 .. n |-> cells[Ahead(_begin, i - 1)]]

SerialInit ==
  /\ fifo = << >> /\ cells = [i \in 0 .. TxBufferSize - 1 |-> NoByte]
  /\ _begin = 0 /\ _end = 0
  /\ armed = FALSE /\ _written = FALSE /\ task = "running" /\ room = 0
  /\ moved = FALSE /\ gap = FALSE /\ accepted = 0 /\ sent = 0

\* write(c) looks how much room there is, then whether the ring is empty.
lookForRoom ==
  /\ task = "running" /\ task' = "looked"
  /\ _written' = TRUE
  /\ room' = FifoSize - Len(fifo) /\ moved' = FALSE
  /\ UNCHANGED <<fifo, ringVars, armed, gap, accepted, sent>>

\* Mutant: a byte goes into the FIFO past those in the ring.
MayTransmitPast == room > 0
\* Mutant: the room that was read is forgotten.
MayTransmitFull == _begin = _end
MayTransmit == room > 0 /\ _begin = _end

lookAtRing ==
  /\ task = "looked"
  /\ task' = IF MayTransmit THEN "transmit" ELSE "enqueue"
  /\ UNCHANGED <<fifo, ringVars, armed, _written, room, moved, gap, accepted, sent>>

\* A FIFO that is full takes no byte.
transmit ==
  /\ task = "transmit"
  /\ IF Len(fifo) < FifoSize
     THEN fifo' = Append(fifo, accepted) /\ accepted' = Follows(accepted)
     ELSE UNCHANGED <<fifo, accepted>>
  /\ task' = IF room < NearlyFull THEN "arm" ELSE "running"
  /\ UNCHANGED <<ringVars, armed, _written, room, moved, gap, sent>>

\* Mutant: the interrupt is left as it is.
armsNever == armed
arms == TRUE

arm ==
  /\ task = "arm" /\ task' = "running" /\ armed' = arms
  /\ UNCHANGED <<fifo, ringVars, _written, room, moved, gap, accepted, sent>>

\* The loop around yield() ends when the ring has room.  Nothing here arms the
\* interrupt.
enqueue ==
  /\ task = "enqueue" /\ ringRoom > 0
  /\ cells' = [cells EXCEPT ![_end] = accepted] /\ _end' = Ahead(_end, 1)
  /\ accepted' = Follows(accepted)
  /\ task' = "running"
  /\ UNCHANGED <<fifo, _begin, armed, _written, room, moved, gap, sent>>

flush ==
  /\ task = "running" /\ _written
  /\ task' = "flush"
  /\ UNCHANGED <<fifo, ringVars, armed, _written, room, moved, gap, accepted, sent>>

endFlush ==
  /\ task = "flush" /\ getSize = 0 /\ Len(fifo) = 0
  /\ task' = "running" /\ _written' = FALSE
  /\ UNCHANGED <<fifo, ringVars, armed, room, moved, gap, accepted, sent>>
-----------------------------------------------------------------------------
\* uart_interrupt_handler, _tx_empty_irq: with an empty ring the interrupt is
\* disarmed, otherwise the FIFO is filled.
disarm ==
  /\ armed /\ Len(fifo) < Threshold
  /\ getSize = 0 /\ armed' = FALSE
  /\ gap' = (gap \/ task \in {"looked", "enqueue"})
  /\ UNCHANGED <<fifo, ringVars, _written, task, room, moved, accepted, sent>>

fill ==
  /\ armed /\ Len(fifo) < Threshold
  /\ getSize > 0
  /\ LET free == FifoSize - Len(fifo)
         n == IF getSize < free THEN getSize ELSE free
     IN  /\ fifo' = fifo \o Ring(n) /\ _begin' = Ahead(_begin, n)
         /\ cells' = [p \in DOMAIN cells |->
                       IF \E i \in 1 .. n : p = Ahead(_begin, i - 1) THEN NoByte
                                                                    ELSE cells[p]]
  /\ moved' = TRUE
  /\ UNCHANGED <<_end, armed, _written, task, room, gap, accepted, sent>>

interrupt == disarm \/ fill

sendByte ==
  /\ fifo # << >>
  /\ fifo' = Tail(fifo) /\ sent' = Follows(sent)
  /\ UNCHANGED <<ringVars, armed, _written, task, room, moved, gap, accepted>>

serialTask == lookAtRing \/ transmit \/ arm \/ enqueue \/ endFlush

SerialNext == lookForRoom \/ flush \/ serialTask \/ interrupt \/ sendByte

\* The UART sends, the interrupt is taken, and the loop task runs.
SerialFairness ==
  /\ WF_serialVars(sendByte) /\ WF_serialVars(interrupt)
  /\ WF_serialVars(serialTask)

SerialSpec == SerialInit /\ [][SerialNext]_serialVars /\ SerialFairness
-----------------------------------------------------------------------------
\* Every byte that write() has put somewhere leaves once and in order, whichever
\* of the two ways it took: the FIFO and the ring together hold the numbers from
\* the next one to be sent to the next one to be accepted.
BytesInOrder ==
  LET numbers == Append(fifo \o Ring(getSize), accepted)
  IN  /\ numbers[1] = sent
      /\ \A i \in 1 .. Len(numbers) - 1 : numbers[i + 1] = Follows(numbers[i])

\* write() loses a byte in one case only: between its look at the FIFO and its
\* look at the ring the interrupt has moved the whole ring into the FIFO, and
\* exactly filled it.
LostOnlyInRace == task = "transmit" /\ Len(fifo) = FifoSize => moved

\* write() and flush() return, unless the interrupt was disarmed in the middle of
\* a write: that leaves a byte in the ring which nothing moves any more.
PortGoesOn == task # "running" ~> (task = "running" \/ gap)
=============================================================================
