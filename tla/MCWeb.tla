------------------------------- MODULE MCWeb -------------------------------
(***************************************************************************)
(* Requests as a browser sends them, with what they mean.                  *)
(***************************************************************************)
EXTENDS WebRequest, WebServer

Tokens(n, set) == UNION {[1 .. k -> set] : k \in 0 .. n}

\* The fields of a query or a body: between ampersands, those with an equal sign,
\* of which the first ends the name.
FieldsOf(data) ==
  LET ends == {i \in DOMAIN data : data[i] = "&"} \cup {Len(data) + 1}
      starts == {0} \cup (ends \ {Len(data) + 1})
      EndOf(b) == CHOOSE e \in ends : e > b /\ \A d \in ends : d > b => e <= d
      piece(b) == SubSeq(data, b + 1, EndOf(b) - 1)
      Equals(p) == {i \in DOMAIN p : p[i] = "="}
      FieldIn(p) == LET e == CHOOSE e \in Equals(p) : \A d \in Equals(p) : e <= d
                  IN  [key |-> SubSeq(p, 1, e - 1), value |-> SubSeq(p, e + 1, Len(p))]
      order == SetToSortSeq({b \in starts : Equals(piece(b)) # {}}, <)
  IN  [i \in DOMAIN order |-> FieldIn(piece(order[i]))]

\* The fields of a form come before those of the query.
Means(method, uri, form, query, body, files) ==
  [method |-> method, uri |-> uri, args |-> form \o query \o body, query |-> query,
   body |-> body, files |-> files]

Target(uri, query) == IF query = << >> THEN uri ELSE uri \o <<"?">> \o query

FirstLine(method, target) == <<method, " ">> \o target \o <<" ", "HTTP/1.1">> \o Line

Get(uri, query) ==
  [tokens |-> FirstLine("GET", Target(uri, query)) \o <<"Host", ":", " ", "h">> \o Line \o Line,
   whole |-> TRUE, kind |-> "none", means |-> Means("GET", uri, << >>, FieldsOf(query), << >>, << >>)]

Post(uri, query, body) ==
  [tokens |-> FirstLine("POST", Target(uri, query))
                \o <<"Content-Type", ":", " ", "text/plain">> \o Line \o Line \o body,
   whole |-> TRUE, kind |-> "urlencoded",
   means |-> Means("POST", uri, << >>, FieldsOf(query), FieldsOf(body), << >>)]

Boundary == <<"B", "C">>
FieldPart(name, value) ==
  Dashes \o Boundary \o Line \o <<"Content-Disposition", "=", "quote", name, "quote">>
    \o Line \o Line \o value \o Line
FilePart(name, bytes) ==
  Dashes \o Boundary \o Line
    \o <<"Content-Disposition", "=", "quote", name, "quote", "filename", "=", "quote", "f",
         "quote">> \o Line
    \o <<"Content-Type", ":", " ", "x">> \o Line \o Line \o bytes \o Line

\* One field of two lines around a file.
Form(query, bytes) ==
  [tokens |-> FirstLine("POST", Target(<<"/u">>, query))
                \o <<"Content-Type", ":", " ", "multipart/form-data", "=">> \o Boundary
                \o Line \o Line
                \o FieldPart("k", <<"v">> \o Line \o <<"w">>) \o FilePart("n", bytes)
                \o FieldPart("l", <<"v">>) \o Dashes \o Boundary \o Dashes \o Line,
   whole |-> TRUE, kind |-> "form",
   means |-> Means("POST", <<"/u">>,
               <<[key |-> <<"k">>, value |-> <<"v", "LF", "w">>],
                 [key |-> <<"l">>, value |-> <<"v">>]>>, FieldsOf(query), << >>,
               <<[name |-> <<"n">>, file |-> <<"f">>, total |-> Len(bytes),
                  bytes |-> bytes]>>)]

\* A file with CR, LF and two dashes in it may be misread; see README.
HarmlessFiles ==
  Tokens(2, {"CR", "LF", "-", "x"})
    \cup {<<"CR", "LF", "-", "x">>, <<"CR", "CR", "LF", "-">>, <<"CR", "LF", "-">>, <<"x", "x", "CR", "LF", "-">>}

MCRequests ==
  {Get(<<"/r">>, q) : q \in Tokens(3, {"a", "=", "&"})}
    \cup {Post(<<"/s">>, q, <<"a", "=", "b", "&", "c", "=">>) : q \in {<< >>, <<"d", "=">>}}
    \cup {Form(<<"e", "=">>, b) : b \in HarmlessFiles}
MCRoutes == {<<"/r">>, <<"/u">>}
=============================================================================
