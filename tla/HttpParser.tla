------------------------------ MODULE HttpParser ------------------------------
(***************************************************************************)
(* How sylar reads an HTTP message: the loops of HttpSession::recvRequest()*)
(* and HttpConnection::recvResponse(), the callbacks of http_parser.cc and *)
(* what they set in the HttpRequest or HttpResponse of http.cc.            *)
(*                                                                         *)
(* The stream may be cut anywhere by the network.  The vendored parser is  *)
(* external: it consumes all it is given, and calls a data callback for    *)
(* each piece of a token it sees, which is empty when the read before it   *)
(* ended between the token's last character and the one that ends it: the  *)
(* mark is set on entry and the callback made with length 0                *)
(* (http_parser.c:682-699, 1066-1068, 1374-1376, 1475-1478).  A byte here  *)
(* stands for a few real ones.                                             *)
(***************************************************************************)
EXTENDS Integers, Sequences, SequencesExt

CONSTANTS BuffSize, MaxMessages \* bounds: bytes of one read, messages in a row

Url == <<"/a", "/b", "c">>
Name == <<"connec", "tion">>
Body == <<"x", "y">>
Value(keep) == IF keep THEN <<"keep-", "alive">> ELSE <<"close">>

VARIABLES
    kind,     \* what is read: requests, as a session, or responses
    messages, \* what the peer sends
    inbox,    \* bytes that have not been read
    pc,       \* read, execute, done, failed
    chunk,    \* bytes the parser is being given
    dead,     \* the parser has seen a message after which there is no more
    m_data,   \* the HttpRequest or HttpResponse being filled
    m_field,  \* the name of the header that is being read
    m_finished, m_error,
    cut,      \* history: tokens that were given to the parser in pieces
    merged    \* history: more than one message went into m_data

vars == <<kind, messages, inbox, pc, chunk, dead, m_data, m_field, m_finished,
          m_error, cut, merged>>

Token(tok, of, texts) == [i \in 1..Len(texts) |-> [tok |-> tok, of |-> of, text |-> texts[i]]]
Mark(tok, of) == <<[tok |-> tok, of |-> of, text |-> ""]>>

\* A token and the character that ends it, which is not of its text.
Ended(tok, of, texts) == Token(tok, of, Append(texts, ""))

\* A message without a body has no content-length either (http.cc:237, 439),
\* so that a response without one is the last of its stream.
Bytes(k, m, i) ==
    Ended(IF k = "request" THEN "url" ELSE "status", i, Url)
    \o Ended("field", i, Name) \o Ended("value", i, Value(m.keep))
    \o Mark("headers", i) \o (IF m.body THEN Token("body", i, Body) ELSE <<>>)

NoData == [path |-> <<"/">>, headers |-> [n \in {} |-> <<>>], body |-> <<>>, close |-> TRUE]

Init ==
    /\ kind \in {"request", "response"}
    /\ messages \in UNION {[1..n -> [keep : BOOLEAN, body : BOOLEAN]] : n \in 1..MaxMessages}
    /\ kind = "response" => \A i \in 1..Len(messages) - 1 : messages[i].body
    /\ inbox = FlattenSeq([i \in 1..Len(messages) |-> Bytes(kind, messages[i], i)])
    /\ pc = "read" /\ chunk = <<>>
    /\ dead = FALSE
    /\ m_data = NoData /\ m_field = <<>>
    /\ m_finished = FALSE /\ m_error = FALSE
    /\ cut = {} /\ merged = FALSE

-----------------------------------------------------------------------------
\* One read: as many bytes as have arrived, at most what the buffer holds.
Read ==
    /\ pc = "read" /\ inbox # <<>>
    /\ \E n \in 1..Len(inbox) :
        /\ n <= BuffSize
        /\ chunk' = SubSeq(inbox, 1, n)
        /\ inbox' = SubSeq(inbox, n + 1, Len(inbox))
        /\ cut' = IF n < Len(inbox) /\ inbox[n].tok = inbox[n + 1].tok
                    THEN cut \cup {inbox[n].tok} ELSE cut
    /\ pc' = "execute"
    /\ UNCHANGED <<kind, messages, dead, m_data, m_field, m_finished, m_error, merged>>

\* The peer has closed, or the time is up: close() and no message.
ReadFails ==
    /\ pc = "read"
    /\ pc' = "failed"
    /\ UNCHANGED <<kind, messages, inbox, chunk, dead, m_data, m_field, m_finished,
                   m_error, cut, merged>>

\* The next piece of a token, and its texts: none, when all there is of it is
\* the character that ends it.
RunLength == SelectInSeq(chunk, LAMBDA b : b.tok # chunk[1].tok) - 1
Piece == SubSeq(chunk, 1, IF RunLength < 0 THEN Len(chunk) ELSE RunLength)
Ends == Piece[Len(Piece)].text = ""
Texts == [i \in 1..(IF Ends THEN Len(Piece) - 1 ELSE Len(Piece)) |-> Piece[i].text]

\* http_parser_parse_url() wants a path that is not empty and begins with a
\* slash.
OnUrl ==
    /\ IF Texts # <<>> /\ Texts[1] \in {"/a", "/b"}
         THEN m_data' = [m_data EXCEPT !.path = Texts] /\ UNCHANGED m_error
         ELSE m_error' = TRUE /\ UNCHANGED m_data
    /\ UNCHANGED m_field

OnHeaderField == m_field' = Texts /\ UNCHANGED <<m_data, m_error>>

OnHeaderValue ==
    /\ m_data' = [m_data EXCEPT !.headers =
                    [n \in DOMAIN @ \cup {m_field} |-> IF n = m_field THEN Texts ELSE @[n]]]
    /\ UNCHANGED <<m_field, m_error>>

\* Mutant: the piece replaces the body.
OnBodySet == m_data' = [m_data EXCEPT !.body = Texts] /\ UNCHANGED <<m_field, m_error>>

OnBody == m_data' = [m_data EXCEPT !.body = @ \o Texts] /\ UNCHANGED <<m_field, m_error>>

\* Nothing that is modelled: the version, the method or the status.
OnOther == UNCHANGED <<m_data, m_field, m_error>>

\* What ends a message: the last byte of its body, or its headers.  A response
\* without a length only ends with the connection.
Completes(rest) ==
    LET m == messages[chunk[1].of] IN
    \/ chunk[1].tok = "headers" /\ ~m.body /\ kind = "request"
    \/ chunk[1].tok = "body" /\ (rest = <<>> \/ rest[1].of # chunk[1].of)
                             /\ (rest # <<>> \/ inbox = <<>> \/ inbox[1].of # chunk[1].of)

\* execute(): callback after callback, even when a message is complete.
Execute ==
    /\ pc = "execute" /\ chunk # <<>> /\ ~m_error
    /\ LET tok == chunk[1].tok
           rest == SubSeq(chunk, Len(Piece) + 1, Len(chunk))
       IN  IF dead
             THEN m_error' = TRUE /\ UNCHANGED <<chunk, m_data, m_field, m_finished, dead, merged>>
             ELSE /\ chunk' = rest
                  /\ merged' = (merged \/ m_finished)
                  /\ \/ tok = "url" /\ OnUrl
                     \/ tok = "field" /\ OnHeaderField
                     \/ tok = "value" /\ OnHeaderValue
                     \/ tok = "body" /\ OnBody
                     \/ tok \in {"status", "headers"} /\ OnOther
                  /\ m_finished' = (m_finished \/ Completes(rest))
                  /\ dead' = (Completes(rest) /\ ~messages[chunk[1].of].keep)
    /\ UNCHANGED <<kind, messages, inbox, pc, cut>>

\* HttpRequest::init(), which finds the header in upper or lower case.
Close(d) == IF Name \in DOMAIN d.headers THEN d.headers[Name] # Value(TRUE) ELSE d.close

\* An error closes the connection; nothing is ever left in the buffer.
Executed ==
    /\ pc = "execute" /\ (chunk = <<>> \/ m_error)
    /\ pc' = IF m_error THEN "failed" ELSE IF m_finished THEN "done" ELSE "read"
    /\ m_data' = IF pc' = "done" /\ kind = "request"
                   THEN [m_data EXCEPT !.close = Close(m_data)] ELSE m_data
    /\ chunk' = <<>>
    /\ UNCHANGED <<kind, messages, inbox, dead, m_field, m_finished, m_error, cut, merged>>

Next == Read \/ ReadFails \/ Execute \/ Executed

-----------------------------------------------------------------------------
TypeOK ==
    /\ pc \in {"read", "execute", "done", "failed"}
    /\ m_data.close \in BOOLEAN /\ Len(m_data.path) \in 1..Len(Url)
    /\ m_field \in Seq({Name[i] : i \in 1..Len(Name)})

\* Where the network cuts the stream between tokens or in a body, the message
\* that is read is the one that was sent.  The callbacks do not put together
\* again a path, a name or a value that is cut in itself or before the
\* character that ends it: the path is refused or shortened, the name or value
\* is its last piece, which may be empty (http_parser.cc:149-217).  Nor is a
\* message told apart that came in one read with the one before.  And no
\* message is refused but for such a path, or after one that announced the end.
MessageAsSent ==
    /\ pc = "done" /\ ~merged =>
        /\ m_data.body = IF messages[1].body THEN Body ELSE <<>>
        /\ kind = "request" /\ "url" \notin cut => m_data.path = Url
        /\ cut \cap {"field", "value"} = {} =>
             /\ m_data.headers = [n \in {Name} |-> Value(messages[1].keep)]
             /\ kind = "request" => m_data.close = ~messages[1].keep
    /\ m_error => "url" \in cut \/ dead
=============================================================================
