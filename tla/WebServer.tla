----------------------------- MODULE WebServer -----------------------------
(***************************************************************************)
(* ESP8266WebServer: handleClient reads one request, calls one handler and *)
(* writes its answer, a unit at a time, over one connection.  The peer may *)
(* pause while it sends, close at any time, and acknowledge late or in     *)
(* part; TcpClient has the write of which this is what the loop sees.      *)
(***************************************************************************)
EXTENDS Integers, Sequences, SequencesExt

CONSTANTS
  Requests,     \* records with the tokens sent and what they mean
  Routes,       \* uris with a handler, for every method
  Lengths,      \* lengths of responses
  UnitSize,     \* HTTP_DOWNLOAD_UNIT_SIZE
  SendBuffer,   \* the send buffer of lwIP
  SizeMod,      \* the range of size_t, 2^32
  Parse(_)      \* what _parseRequest finds in the tokens, see WebRequest

ASSUME WebAssumption ==
  /\ UnitSize \in Nat \ {0} /\ SendBuffer \in Nat \ {0} /\ SizeMod \in Nat \ {0}
  /\ Lengths \subseteq 1 .. SizeMod - 1

VARIABLES
  pc,                     \* idle, handle, send, close, reading for ever, overrun
  asked,                  \* history: what was sent
  current,                \* what the parser found: method, uri, args, uploads
  calls,                  \* history: handlers called for this request
  open,                   \* the peer has not closed
  response,               \* the length of the response
  size_to_send, size_sent,   \* the counts of sendContent
  unacked,                \* bytes lwIP has and the peer has not acknowledged
  wire,                   \* history: the numbers of the bytes given to TCP
  stalled, refused        \* history: a write timed out, or lwIP took nothing

sendVars == <<response, size_to_send, size_sent, unacked, wire, stalled, refused>>
webVars == <<pc, asked, current, calls, open, sendVars>>

NoRequest == [whole |-> TRUE, kind |-> "none", means |-> << >>]
NotParsed == [ok |-> FALSE, spins |-> FALSE, method |-> "GET", uri |-> << >>,
              args |-> << >>, uploads |-> << >>]
-----------------------------------------------------------------------------
WebInit ==
  /\ pc = "idle" /\ asked = NoRequest /\ current = NotParsed /\ calls = << >>
  /\ open = FALSE /\ response = 0 /\ size_to_send = 0 /\ size_sent = 0
  /\ unacked = 0 /\ wire = << >> /\ stalled = FALSE /\ refused = FALSE

\* What arrives of a request: all, the tokens before the peer closes, or all with a
\* pause behind a token; for pauses inside a form see README.
Arrivals(r) ==
  {r} \cup {[r EXCEPT !.tokens = SubSeq(@, 1, i), !.whole = FALSE] : i \in DOMAIN r.tokens}
  \cup (IF r.kind = "form" THEN {}
        ELSE {[r EXCEPT !.tokens = InsertAt(@, i, "pause"), !.whole = FALSE] :
                i \in DOMAIN r.tokens})

Sent(r) == [whole |-> r.whole, kind |-> r.kind, means |-> r.means]

\* Mutant: arguments are added to those of the request before.
ArgsAdded(parsed) == current.args \o parsed.args
ArgsAfresh(parsed) == parsed.args

\* A connection is available and its request is read.  When _parseRequest fails the
\* client is dropped, and nothing is changed; the loops of _parseForm may not end.
handleClient(r) ==
  /\ LET parsed == Parse(r.tokens)
     IN  /\ pc' = IF ~parsed.ok THEN "idle"
                  ELSE IF parsed.spins THEN "forever" ELSE "handle"
         /\ current' = IF parsed.ok THEN [parsed EXCEPT !.args = ArgsAfresh(parsed)]
                       ELSE current
         /\ asked' = IF parsed.ok THEN Sent(r) ELSE asked
         /\ open' = parsed.ok
  /\ calls' = << >>
  /\ UNCHANGED sendVars

\* _handleRequest: the first handler for the uri, or the one for no uri, makes
\* one response.
handle(length) ==
  /\ pc = "handle" /\ pc' = "send"
  /\ calls' = Append(calls, IF current.uri \in Routes THEN current.uri
                            ELSE <<"not found">>)
  /\ response' = length /\ size_to_send' = length /\ size_sent' = 0
  /\ UNCHANGED <<asked, current, open, unacked, wire, stalled, refused>>

Lesser(a, b) == IF a < b THEN a ELSE b
Unit == Lesser(size_to_send, UnitSize)

\* Mutant: the loop goes on after a write of nothing.
StopsNever(sent) == FALSE
Stops(sent) == sent = 0

\* Mutant: the next unit begins where this one was to end.
SentUnit(unit, sent) == size_sent + unit
SentPart(unit, sent) == size_sent + sent

\* A write queues what there is room for and waits, for 5 s at most.  It returns what
\* has been acknowledged meanwhile, of an earlier write too: then size_to_send, which
\* is unsigned, may fall below zero, and the loop goes on behind the response, where
\* it is not followed.
writeUnit(sent) ==
  LET queued == Lesser(SendBuffer - unacked, Unit)
  IN  /\ pc = "send" /\ size_to_send # 0 /\ open
      /\ sent <= unacked + queued
      /\ wire' = wire \o [i \in 1 .. queued |-> size_sent + i]
      /\ unacked' = (unacked + queued) - sent
      /\ size_to_send' = (size_to_send - sent) % SizeMod
      /\ size_sent' = SentPart(Unit, sent)
      /\ pc' = CASE Stops(sent) -> "close"
                 [] ~Stops(sent) /\ sent > size_to_send -> "overrun"
                 [] OTHER -> pc
      /\ \/ stalled' = (stalled \/ unacked' > 0) /\ UNCHANGED open
         \/ open' = FALSE /\ UNCHANGED stalled
      /\ UNCHANGED <<asked, current, calls, response, refused>>

\* It returns nothing at once when the peer has closed or lwIP has no memory.
writeNothing ==
  /\ pc = "send" /\ size_to_send # 0
  /\ pc' = IF Stops(0) THEN "close" ELSE pc
  /\ refused' = (refused \/ open)
  /\ UNCHANGED <<asked, current, calls, open, response, size_to_send, size_sent, unacked,
                 wire, stalled>>

allSent ==
  /\ pc = "send" /\ size_to_send = 0 /\ pc' = "close"
  /\ UNCHANGED <<asked, current, calls, open, sendVars>>

\* The connection, and what is known of the request, are given up.
forget ==
  /\ asked' = NoRequest /\ open' = FALSE /\ response' = 0 /\ size_to_send' = 0
  /\ size_sent' = 0 /\ unacked' = 0 /\ wire' = << >> /\ stalled' = FALSE
  /\ refused' = FALSE

\* Until the peer closes, or for 2 s; then the client and the uri are given up, and
\* the arguments and the method stay.
closeClient ==
  /\ pc = "close" /\ pc' = "idle" /\ forget
  /\ current' = [current EXCEPT !.uri = << >>, !.uploads = << >>]
  /\ UNCHANGED calls

peerCloses ==
  /\ pc \in {"handle", "send", "close"} /\ open /\ open' = FALSE
  /\ UNCHANGED <<pc, asked, current, calls, sendVars>>

\* What ends a loop that does not: the power, or memory that cannot be read.
reset ==
  /\ pc \in {"forever", "overrun"} /\ pc' = "idle" /\ forget
  /\ current' = NotParsed /\ calls' = << >>

serverStep ==
  \/ allSent \/ closeClient \/ writeNothing
  \/ \E n \in Lengths : handle(n)
  \/ \E a \in 0 .. SendBuffer : writeUnit(a)

WebNext ==
  \/ peerCloses \/ serverStep \/ reset
  \/ pc = "idle" /\ \E r \in Requests : \E a \in Arrivals(r) : handleClient(a)

WebFairness == WF_webVars(serverStep)
WebSpec == WebInit /\ [][WebNext]_webVars /\ WebFairness
-----------------------------------------------------------------------------
\* What a handler of uploads makes of the calls for each file.
Files(uploads) ==
  [i \in DOMAIN uploads |->
    LET u == uploads[i]
        data == SelectSeq(u.calls, LAMBDA x : x.status = "WRITE")
    IN  [name |-> u.name, file |-> u.file, total |-> u.total,
         bytes |-> FlattenSeq([j \in DOMAIN data |-> data[j].bytes])]]

\* The fields before a cut, the last of them as far as it came.  The line feed of the
\* empty line belongs to the first name when it comes after a pause.
PartOf(found, fields) ==
  /\ Len(found) <= Len(fields)
  /\ \A i \in DOMAIN found :
       /\ \/ found[i].key = fields[i].key
          \/ i = 1 /\ found[i].key = <<"LF">> \o fields[i].key
       /\ IF i < Len(found) THEN found[i].value = fields[i].value
                           ELSE IsPrefix(found[i].value, fields[i].value)

\* What was found is the method, the uri, the arguments and the files of a request
\* that was sent; of a body that is cut, only fields that came before the cut.
SeenAs(found, r) ==
  /\ found.method = r.means.method /\ found.uri = r.means.uri
  /\ \/ found.args = r.means.args /\ Files(found.uploads) = r.means.files
     \/ /\ ~r.whole /\ r.means.method # "GET" /\ found.uploads = << >>
        /\ IsPrefix(r.means.query, found.args)
        /\ PartOf(SubSeq(found.args, Len(r.means.query) + 1, Len(found.args)), r.means.body)

\* The handler is called with the method, the uri, the arguments and the files of
\* the request that was sent, whatever came before it.  A GET that is cut or pauses
\* is seen whole or not at all; of a POST the query is whole, and of the body what
\* came before.  Nothing but a cut form is read for ever.
HandlerSeesRequest ==
  /\ pc = "handle" => SeenAs(current, asked)
  /\ pc = "forever" => asked.kind = "form" /\ ~asked.whole

\* Nothing behind the end of the response is given to TCP until size_to_send has
\* fallen below zero, which takes a write that timed out.  Without one each byte is
\* sent once, in its place, and all of them unless the peer closes or lwIP refuses.
ResponseSentOnce ==
  /\ \A i \in DOMAIN wire : wire[i] \in 1 .. response
  /\ ~stalled => wire = [i \in 1 .. Len(wire) |-> i] /\ pc # "overrun"
  /\ pc = "close" /\ open /\ ~stalled /\ ~refused => Len(wire) = response

\* A request that has been read is answered by one handler, and handleClient
\* returns, whatever the peer does, but for a cut form and a loop that runs behind
\* the response.
RequestEnds ==
  pc # "idle" ~> (pc = "idle" /\ Len(calls) = 1) \/ pc \in {"forever", "overrun"}
=============================================================================
