--------------------------- MODULE MdnsResponder ---------------------------
(***************************************************************************)
(* MDNSResponder and the UdpContext it listens on.  update() runs as a     *)
(* callback of the network stack, once for every datagram, and looks for   *)
(* the bytes of a question for its own name anywhere in it.  A datagram is *)
(* one pbuf: lwIP is built without IP reassembly (lwipopts.h, line 519).   *)
(***************************************************************************)
EXTENDS Integers, Sequences, FiniteSets

CONSTANTS
  Names,       \* host names, sequences of character codes
  Addresses,   \* IP addresses of the station
  Datagrams    \* what arrives on port 5353, sequences of bytes

ASSUME MdnsAssumption ==
  /\ \A n \in Names : n \in Seq(0 .. 255) /\ Len(n) \in 2 .. 255 /\ Len(n) # 5
  /\ \A d \in Datagrams : d \in Seq(0 .. 255)

VARIABLES
  expected,     \* _expected: the bytes of the question, << >> before begin()
  answer,       \* the address in _response
  socket,       \* _conn: none, open, or kept although listen() failed
  rx, taken,    \* _rx_buf: the chain of pbufs held, and _first_buf_taken
  replies,      \* responses sent to the datagram heard last
  heard         \* history: that datagram and the question looked for in it

mdnsVars == <<expected, answer, socket, rx, taken, replies, heard>>

NoAddress == "none"
-----------------------------------------------------------------------------
Lower(b) == IF b \in 65 .. 90 THEN b + 32 ELSE b

\* begin: the length and the letters of the name, then "local" with its length,
\* the end of the name, and type A and class IN.
Question(name) ==
  <<Len(name)>> \o [i \in DOMAIN name |-> Lower(name[i])]
    \o <<5, 108, 111, 99, 97, 108, 0, 0, 1, 0, 1>>

\* Mutant: a byte that breaks a match is never the start of another.
ScanStepNoRestart(question, s, byte) ==
  LET ch == Lower(byte)
  IN  IF ch # question[s.index + 1] THEN [s EXCEPT !.index = 0]
      ELSE IF s.index + 1 = Len(question)
           THEN [index |-> 0, found |-> s.found + 1]
           ELSE [s EXCEPT !.index = @ + 1]

\* One turn of the loop of update().
ScanStep(question, s, byte) ==
  LET ch == Lower(byte)
  IN  CASE ch = question[s.index + 1] /\ s.index + 1 = Len(question) ->
             [index |-> 0, found |-> s.found + 1]
        [] ch = question[s.index + 1] /\ s.index + 1 # Len(question) ->
             [s EXCEPT !.index = @ + 1]
        [] ch # question[s.index + 1] /\ ch = question[1] -> [s EXCEPT !.index = 1]
        [] OTHER -> [s EXCEPT !.index = 0]

\* How often update() answers the bytes of a datagram.
Scan(question, bytes) ==
  LET after[i \in 0 .. Len(bytes)] ==
        IF i = 0 THEN [index |-> 0, found |-> 0]
                 ELSE ScanStep(question, after[i - 1], bytes[i])
  IN  after[Len(bytes)].found

\* Mutant: the datagram before is not let go.
NextBufKept(chain, first) == chain

\* UdpContext::next: the first pbuf of a new chain is taken where it is, after
\* that the head, which has been read, is freed.
NextBuf(chain, first) == IF first THEN Tail(chain) ELSE chain

MdnsInit ==
  /\ expected = << >> /\ answer = NoAddress /\ socket = "none"
  /\ rx = << >> /\ taken = FALSE /\ replies = 0 /\ heard = << << >>, << >> >>

\* begin: the socket is opened once.  When the multicast group cannot be joined
\* there is none, and the next begin tries again; when the port is taken _conn
\* stays set, and no later begin looks at it again.
begin(name, addr) ==
  /\ expected' = Question(name)
  /\ answer' = addr
  /\ IF socket = "none" THEN socket' \in {"none", "open", "deaf"}
                        ELSE socket' = socket
  /\ UNCHANGED <<rx, taken, replies, heard>>

\* _recv and the update() it calls: one datagram in, one pbuf of the chain read
\* to its end and answered.
receive(datagram) ==
  LET chain == Append(rx, datagram)
      first == rx # << >> /\ taken
      held == NextBuf(chain, first)
  IN  /\ socket = "open"
      /\ rx' = held /\ taken' = TRUE
      /\ replies' = Scan(expected, Head(held))
      /\ heard' = <<datagram, expected>>
      /\ UNCHANGED <<expected, answer, socket>>

MdnsNext ==
  \/ \E n \in Names, a \in Addresses : begin(n, a)
  \/ \E d \in Datagrams : receive(d)

MdnsSpec == MdnsInit /\ [][MdnsNext]_mdnsVars
-----------------------------------------------------------------------------
\* The first byte of a question, the length of the name, is nowhere else in it.
\* The name is an SSID of at most 14 characters, so that no letter, digit or
\* other printable character of it has that code.
NamesStandOut ==
  \A n \in Names : \A j \in 2 .. Len(Question(n)) : Question(n)[j] # Question(n)[1]

\* Where a question occurs in a datagram, letters of either case.
Occurrences(question, datagram) ==
  LET bytes == [i \in DOMAIN datagram |-> Lower(datagram[i])]
  IN  {i \in DOMAIN bytes : /\ i + Len(question) <= Len(bytes) + 1
                            /\ SubSeq(bytes, i, i + Len(question) - 1) = question}

\* A datagram is answered as it arrives, once for each question for our name it
\* holds, wherever in it: the matcher remembers one position only, and update()
\* reads whichever pbuf next() hands it.
EachQuestionAnswered ==
  rx # << >> => replies = Cardinality(Occurrences(heard[2], heard[1]))

\* UdpContext holds on to the last datagram and to no other: the chain does not
\* grow with the traffic on port 5353, which nothing else ever reads.
OneDatagramHeld ==
  /\ Len(rx) <= 1
  /\ rx # << >> => taken /\ rx[1] = heard[1]
=============================================================================
