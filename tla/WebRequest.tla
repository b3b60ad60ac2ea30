----------------------------- MODULE WebRequest -----------------------------
(***************************************************************************)
(* How ESP8266WebServer reads a request (Parsing.cpp) with the functions   *)
(* of Stream.  A request is a sequence of tokens: CR, LF, the delimiters   *)
(* the parser looks for, and words for the text between them.  The token   *)
(* "pause" stands for a pause longer than the timeout of the stream; after *)
(* the last token nothing arrives any more.                                *)
(***************************************************************************)
EXTENDS Integers, Sequences, SequencesExt

CONSTANT BufferLength    \* HTTP_UPLOAD_BUFLEN

ASSUME RequestAssumption == BufferLength \in Nat \ {0}

Methods == {"GET", "POST", "DELETE", "PUT", "PATCH"}
Line == <<"CR", "LF">>
Dashes == <<"-", "-">>
-----------------------------------------------------------------------------
\* String, counted from 0 as there.

IndexOf(s, token, from) ==
  LET at == {i \in from + 1 .. Len(s) : s[i] = token}
  IN  IF at = {} THEN -1 ELSE (CHOOSE i \in at : \A j \in at : i <= j) - 1

\* A right end of -1 is the largest unsigned.
Substring(s, left, right) ==
  SubSeq(s, left + 1, IF right = -1 \/ right > Len(s) THEN Len(s) ELSE right)

\* readStringUntil: up to the token, which is taken too, or until nothing has
\* come for the length of the timeout.
ReadUntil(s, token) ==
  LET ends == {i \in DOMAIN s : s[i] \in {token, "pause"}}
      i == CHOOSE i \in ends : \A j \in ends : i <= j
  IN  IF ends = {} THEN [line |-> s, rest |-> << >>]
      ELSE [line |-> SubSeq(s, 1, i - 1), rest |-> SubSeq(s, i + 1, Len(s))]

\* A line: readStringUntil('\r'), then readStringUntil('\n').
ReadLine(s) ==
  LET r == ReadUntil(s, "CR")
  IN  [line |-> r.line, rest |-> ReadUntil(r.rest, "LF").rest]
-----------------------------------------------------------------------------
\* Mutant: an equal sign of a later argument is taken for one of this.
MissingValueAny(equal, next) == equal = -1
MissingValue(equal, next) == equal = -1 \/ (equal > next /\ next # -1)

\* _parseArguments: the array is as long as there are ampersands and may keep
\* places for arguments without a value; _currentArgCount is what it is cut to.
RECURSIVE ArgumentsFrom(_, _, _)
ArgumentsFrom(data, pos, args) ==
  LET equal == IndexOf(data, "=", pos)
      next == IndexOf(data, "&", pos)
      arg == [key |-> Substring(data, pos, equal),
              value |-> Substring(data, equal + 1, next)]
  IN  CASE MissingValue(equal, next) ->
             IF next = -1 THEN args ELSE ArgumentsFrom(data, next + 1, args)
        [] next = -1 -> Append(args, arg)
        [] OTHER -> ArgumentsFrom(data, next + 1, Append(args, arg))

ParseArguments(data) == ArgumentsFrom(data, 0, << >>)

\* arg(name), with what hasArg(name) decides about its absence.
ArgOf(args, name, otherwise) ==
  LET at == {i \in DOMAIN args : args[i].key = name}
  IN  IF at = {} THEN otherwise
      ELSE args[CHOOSE i \in at : \A j \in at : i <= j].value

\* The loop over the header lines, which ends at a line without a colon.
RECURSIVE Headers(_, _)
Headers(s, h) ==
  LET r == ReadLine(s)
      colon == IndexOf(r.line, ":", 0)
      value == Substring(r.line, colon + 2, -1)
      isForm == IsPrefix(<<"multipart/form-data">>, value)
  IN  CASE colon = -1 -> [h EXCEPT !.rest = r.rest]
        [] colon # -1 /\ Substring(r.line, 0, colon) # <<"Content-Type">> ->
             Headers(r.rest, h)
        [] OTHER ->
             Headers(r.rest,
               [h EXCEPT !.isForm = IF IsPrefix(<<"text/plain">>, value) THEN FALSE
                                    ELSE @ \/ isForm,
                         !.boundary = IF isForm
                                      THEN Substring(value, IndexOf(value, "=", 0) + 1, -1)
                                      ELSE @])
-----------------------------------------------------------------------------
\* An upload is told to the handler in calls with the bytes in the buffer.
Call(u, status) ==
  [u EXCEPT !.calls = Append(@, [status |-> status, bytes |-> u.buf])]

\* Mutant: the buffer is emptied without a call.
UploadWriteByteLost(u, b) ==
  IF Len(u.buf) = BufferLength THEN [u EXCEPT !.total = @ + Len(u.buf), !.buf = <<b>>]
  ELSE [u EXCEPT !.buf = Append(@, b)]

UploadWriteByte(u, b) ==
  IF Len(u.buf) = BufferLength
  THEN [Call(u, "WRITE") EXCEPT !.total = @ + Len(u.buf), !.buf = <<b>>]
  ELSE [u EXCEPT !.buf = Append(@, b)]
UploadWrite(u, bytes) == FoldLeft(UploadWriteByte, u, bytes)

\* From the label readfile on: CR, LF and two dashes may begin the boundary; what
\* has been read of them belongs to the file when it goes on otherwise, and so do
\* as many bytes behind them as the boundary has.
RECURSIVE ReadFile(_, _, _)
ReadFile(s, boundary, u) ==
  LET mark == Line \o Dashes
      matched == Len(LongestCommonPrefix({s, mark}))
      endBuf == SubSeq(s, 5, 4 + Len(boundary))
      k == IF matched = 0 THEN 1 ELSE IF matched < 4 THEN matched ELSE 4 + Len(boundary)
  IN  CASE Len(s) < k -> [u |-> u, rest |-> << >>, spins |-> TRUE]
        [] Len(s) >= k /\ matched = 4 /\ endBuf = boundary ->
             [u |-> u, rest |-> SubSeq(s, k + 1, Len(s)), spins |-> FALSE]
        [] OTHER -> ReadFile(SubSeq(s, k + 1, Len(s)), boundary,
                             UploadWrite(u, SubSeq(s, 1, k)))

\* The lines of a value, joined by line feeds, up to the boundary, which ends the
\* form when two dashes follow it.
RECURSIVE ReadValue(_, _, _)
ReadValue(s, boundary, value) ==
  LET r == ReadLine(s)
  IN  CASE s = << >> -> [value |-> value, line |-> << >>, rest |-> << >>, spins |-> TRUE]
        [] s # << >> /\ IsPrefix(Dashes \o boundary, r.line) ->
             [value |-> value, line |-> r.line, rest |-> r.rest, spins |-> FALSE]
        [] OTHER -> ReadValue(r.rest, boundary,
                      (IF value = << >> THEN << >> ELSE Append(value, "LF")) \o r.line)

\* Content-Disposition: the name, and the file's name if there is one.
Disposition(line) ==
  LET rest == Substring(line, IndexOf(line, "=", 0) + 2, -1)
      second == IndexOf(rest, "=", 0)
  IN  IF second = -1
      THEN [name |-> Substring(rest, 0, Len(rest) - 1), isFile |-> FALSE, file |-> << >>]
      ELSE [name |-> Substring(rest, 0, IndexOf(rest, "quote", 0)), isFile |-> TRUE,
            file |-> Substring(rest, second + 2, Len(rest) - 1)]

\* The line after it is empty, or names the type and an empty one follows.
SkipType(s) ==
  LET r == ReadLine(s)
  IN  IF IsPrefix(<<"Content-Type">>, r.line) THEN ReadLine(r.rest).rest ELSE r.rest

EndsForm(line) == line = Dashes

\* f is what has been read of a form; done ends the loop over its parts.
Field(f, name, read, boundary) ==
  [f EXCEPT !.args = Append(@, [key |-> name, value |-> read.value]), !.rest = read.rest,
            !.spins = read.spins, !.done = read.line = Dashes \o boundary \o Dashes]

NewUpload(f, part) ==
  [name |-> part.name, file |-> IF part.file = <<"blob">> THEN f.blob ELSE part.file,
   buf |-> << >>, total |-> 0, calls |-> <<[status |-> "START", bytes |-> << >>]>>]

EndOfFile(u) == Call([Call(u, "WRITE") EXCEPT !.total = @ + Len(u.buf)], "END")

File(f, read, after) ==
  IF read.spins THEN [f EXCEPT !.spins = TRUE]
  ELSE [f EXCEPT !.uploads = Append(@, EndOfFile(read.u)), !.rest = after.rest,
                 !.done = EndsForm(after.line)]

Part(f, part, body, boundary) ==
  IF part.isFile
  THEN LET read == ReadFile(body, boundary, NewUpload(f, part))
       IN  File(f, read, ReadLine(read.rest))
  ELSE Field(f, part.name, ReadValue(body, boundary, << >>), boundary)

IsDisposition(line) == IsPrefix(<<"Content-Disposition">>, line) /\ IndexOf(line, "=", 0) # -1

\* The loop of _parseForm; at the end of the stream it never ends.
RECURSIVE FormParts(_, _)
FormParts(f, boundary) ==
  LET r == ReadLine(f.rest)
  IN  CASE f.done \/ f.spins -> f
        [] ~(f.done \/ f.spins) /\ f.rest = << >> -> [f EXCEPT !.spins = TRUE]
        [] ~(f.done \/ f.spins) /\ f.rest # << >> /\ ~IsDisposition(r.line) ->
             FormParts([f EXCEPT !.rest = r.rest], boundary)
        [] OTHER -> FormParts(Part(f, Disposition(r.line), SkipType(r.rest), boundary), boundary)

\* _parseForm: the fields come before the arguments of the query, 32 in all, of
\* which the form's own are not more.
ArgsOfForm(args, query) ==
  args \o SubSeq(query, 1, IF 32 - Len(args) < Len(query) THEN 32 - Len(args) ELSE Len(query))

ParseForm(first, boundary, query) ==
  LET none == [args |-> << >>, uploads |-> << >>, spins |-> FALSE, done |-> FALSE,
               rest |-> first.rest, blob |-> ArgOf(query, <<"filename">>, <<"blob">>)]
      f == FormParts(none, boundary)
  IN  IF first.line # Dashes \o boundary THEN [none EXCEPT !.args = query]
      ELSE [f EXCEPT !.args = ArgsOfForm(@, query)]

\* _parseRequest.  A first line without two blanks is no request; a body that is
\* no form is joined to the query.
ParseRequest(s) ==
  LET r == ReadLine(s)
      req == r.line
      start == IndexOf(req, " ", 0)
      end == IndexOf(req, " ", start + 1)
      url == Substring(req, start + 1, end)
      question == IndexOf(url, "?", 0)
      search == IF question = -1 THEN << >> ELSE Substring(url, question + 1, -1)
      word == Substring(req, 0, start)
      method == IF Len(word) = 1 /\ word[1] \in Methods THEN word[1] ELSE "GET"
      h == Headers(r.rest, [isForm |-> FALSE, boundary |-> << >>, rest |-> << >>])
      joined == (IF search = << >> THEN << >> ELSE Append(search, "&"))
                  \o ReadUntil(h.rest, "CR").line
      form == ParseForm(ReadLine(h.rest), h.boundary, ParseArguments(search))
      parsed == [ok |-> TRUE, spins |-> FALSE, method |-> method,
                 uri |-> IF question = -1 THEN url ELSE Substring(url, 0, question),
                 args |-> ParseArguments(search), uploads |-> << >>]
  IN  CASE start = -1 \/ end = -1 -> [parsed EXCEPT !.ok = FALSE]
        [] start # -1 /\ end # -1 /\ method = "GET" -> parsed
        [] start # -1 /\ end # -1 /\ method # "GET" /\ ~h.isForm ->
             [parsed EXCEPT !.args = ParseArguments(joined)]
        [] OTHER -> [parsed EXCEPT !.args = form.args, !.uploads = form.uploads,
                                   !.spins = form.spins]
=============================================================================
