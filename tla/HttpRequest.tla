----------------------------- MODULE HttpRequest -----------------------------
(***************************************************************************)
(* The parameters and cookies of an HttpRequest (http/http.cc): the client *)
(* writes names and values as text, each encoded by StringUtil::UrlEncode()*)
(* (util.cpp); the servlet that handles the request asks for them, sets    *)
(* and deletes them.  The text is parsed when somebody asks first, once,   *)
(* into a map that the servlet may have changed already.                   *)
(*                                                                         *)
(* A text is a sequence of characters; an escape sequence %XX counts as    *)
(* one.  The maps compare names without regard to case: A stands for the   *)
(* letters that have another one.  The table of characters that are not    *)
(* escaped has an = in it that the comment above UrlEncode() does not      *)
(* (util.cpp:519-527, 566).                                                *)
(***************************************************************************)
EXTENDS Integers, Sequences, SequencesExt

CONSTANTS
    Queries, Forms, CookieLines, \* what clients send: sequences of pairs
    Names,   \* names the servlet uses
    Values,  \* values it sets
    MaxOps   \* bound: operations of the servlet

Absent == <<"absent">>

\* CaseInsensitiveLess: what the maps keep apart of a name.
Folded(n) == [i \in DOMAIN n |-> IF n[i] = "A" THEN "a" ELSE n[i]]
Keys == {Folded(n) : n \in Names}

VARIABLES
    query, form, cookie, \* what the client has sent
    isForm,   \* content-type is application/x-www-form-urlencoded
    m_parserParamFlag,   \* the texts that have been parsed
    m_params, m_cookies,
    own,      \* history: what the servlet last did to a name
    last,     \* history: what was asked for last, and the answer
    ops

sentVars == <<query, form, cookie, isForm>>
vars == <<sentVars, m_parserParamFlag, m_params, m_cookies, own, last, ops>>

NoAnswer == [of |-> "none", name |-> <<>>, value |-> Absent]
Untouched == [what |-> "nothing", value |-> Absent]

Init ==
    /\ query \in Queries /\ form \in Forms /\ cookie \in CookieLines
    /\ isForm \in BOOLEAN
    /\ m_parserParamFlag = {}
    /\ m_params = [n \in {} |-> Absent] /\ m_cookies = m_params
    /\ own = [of \in {"param", "cookie"} |-> [n \in Keys |-> Untouched]]
    /\ last = NoAnswer /\ ops = 0

-----------------------------------------------------------------------------
(* Text.                                                                   *)
Plain(c) == [escaped |-> FALSE, char |-> c]
Unreserved == {"a", "A", "b", "="}

UrlEncode(s) ==
    [i \in DOMAIN s |-> IF s[i] = " " THEN Plain("+")
                        ELSE [escaped |-> s[i] \notin Unreserved, char |-> s[i]]]

UrlDecode(s) == [i \in DOMAIN s |-> IF s[i] = Plain("+") THEN " " ELSE s[i].char]

Trim(s) ==
    LET Inside(c) == c # Plain(" ")
        first == SelectInSeq(s, Inside)
    IN  IF first = 0 THEN <<>> ELSE SubSeq(s, first, SelectLastInSeq(s, Inside))

\* A pair as the client writes it: a bare name has neither = nor value.
Written(p) ==
    UrlEncode(p.name) \o IF p.bare THEN <<>> ELSE <<Plain("=")>> \o UrlEncode(p.value)
Line(pairs, separator) ==
    FlattenSeq([i \in DOMAIN pairs |-> (IF i = 1 THEN <<>> ELSE separator) \o Written(pairs[i])])

\* PARSE_PARAM: a name reaches from the end of the last pair to the next =,
\* a value from there to the next separator.
Parsed(text, flag, trimmed) ==
    LET pairs[pos \in Nat] ==
          LET key == SelectInSubSeq(text, pos, Len(text), LAMBDA c : c = Plain("="))
              end == SelectInSubSeq(text, key, Len(text), LAMBDA c : c = Plain(flag))
              key_text == SubSeq(text, pos, key - 1)
              name == UrlDecode(IF trimmed THEN Trim(key_text) ELSE key_text)
              value == UrlDecode(SubSeq(text, key + 1, IF end = 0 THEN Len(text) ELSE end - 1))
          IN  IF key = 0 THEN <<>>
              ELSE <<<<name, value>>>> \o IF end = 0 THEN <<>> ELSE pairs[end + 1]
    IN  pairs[1]

Put(map, n, v) == [k \in DOMAIN map \cup {n} |-> IF k = n THEN v ELSE map[k]]

\* std::map::insert(): a name that is there keeps its value.
Insert(map, pairs) ==
    FoldLeft(LAMBDA m, p : IF Folded(p[1]) \in DOMAIN m THEN m ELSE Put(m, Folded(p[1]), p[2]),
             map, pairs)

-----------------------------------------------------------------------------
(* Asking.  A text that is in the flag is not parsed again.                *)
Unparsed(text) == text \notin m_parserParamFlag

QueryParams(map) ==
    IF Unparsed("query") THEN Insert(map, Parsed(Line(query, <<Plain("&")>>), "&", FALSE)) ELSE map

\* Mutant: a body is parsed every time.
BodyParamsAgain(map) ==
    IF isForm THEN Insert(map, Parsed(Line(form, <<Plain("&")>>), "&", FALSE)) ELSE map

\* initBodyParam(): only a form has parameters in its body.
BodyParams(map) ==
    IF Unparsed("body") /\ isForm
      THEN Insert(map, Parsed(Line(form, <<Plain("&")>>), "&", FALSE)) ELSE map

CookieLine(map) ==
    IF Unparsed("cookie")
      THEN Insert(map, Parsed(Line(cookie, <<Plain(";"), Plain(" ")>>), ";", TRUE)) ELSE map

Op == ops < MaxOps /\ ops' = ops + 1 /\ UNCHANGED sentVars

Answer(of, map, n) ==
    last' = [of |-> of, name |-> n, value |-> IF n \in DOMAIN map THEN map[n] ELSE Absent]

\* getParam(), hasParam() and their As forms.
GetParam(n) ==
    /\ Op
    /\ m_params' = BodyParams(QueryParams(m_params))
    /\ m_parserParamFlag' = m_parserParamFlag \cup {"query", "body"}
    /\ Answer("param", m_params', n)
    /\ UNCHANGED <<m_cookies, own>>

GetCookie(n) ==
    /\ Op
    /\ m_cookies' = CookieLine(m_cookies)
    /\ m_parserParamFlag' = m_parserParamFlag \cup {"cookie"}
    /\ Answer("cookie", m_cookies', n)
    /\ UNCHANGED <<m_params, own>>

-----------------------------------------------------------------------------
(* Setting and deleting do not parse first.                                *)
Did(of, n, what, v) ==
    /\ own' = [own EXCEPT ![of][n] = [what |-> what, value |-> v]]
    /\ last' = NoAnswer
    /\ UNCHANGED m_parserParamFlag

Without(map, n) == [k \in DOMAIN map \ {n} |-> map[k]]

SetParam(n, v) ==
    /\ Op /\ Did("param", n, "set", v)
    /\ m_params' = Put(m_params, n, v)
    /\ UNCHANGED m_cookies

DelParam(n) ==
    /\ Op /\ Did("param", n, IF Unparsed("query") THEN "deleted early" ELSE "deleted", Absent)
    /\ m_params' = Without(m_params, n)
    /\ UNCHANGED m_cookies

SetCookie(n, v) ==
    /\ Op /\ Did("cookie", n, "set", v)
    /\ m_cookies' = Put(m_cookies, n, v)
    /\ UNCHANGED m_params

DelCookie(n) ==
    /\ Op /\ Did("cookie", n, IF Unparsed("cookie") THEN "deleted early" ELSE "deleted", Absent)
    /\ m_cookies' = Without(m_cookies, n)
    /\ UNCHANGED m_params

\* A name that the servlet asks for counts as what the maps take it for.
Next ==
    \E n \in Keys :
        \/ GetParam(n) \/ GetCookie(n) \/ DelParam(n) \/ DelCookie(n)
        \/ \E v \in Values : SetParam(n, v) \/ SetCookie(n, v)

-----------------------------------------------------------------------------
TypeOK ==
    /\ m_parserParamFlag \subseteq {"query", "body", "cookie"}
    /\ own \in [{"param", "cookie"} ->
                  [Keys -> [what : {"nothing", "set", "deleted", "deleted early"},
                             value : Values \cup {Absent}]]]
    /\ last.of \in {"none", "param", "cookie"}
    /\ ops \in 0..MaxOps

\* What the client wrote for a name: the first pair of the texts in order.
Sent(of) == IF of = "cookie" THEN cookie ELSE query \o IF isForm THEN form ELSE <<>>
FirstOf(pairs, n) ==
    LET i == SelectInSeq(pairs, LAMBDA p : Folded(p.name) = n) IN
    IF i = 0 THEN Absent ELSE pairs[i].value

\* Texts the parser takes apart as the client put them together: every name
\* has a value, and none has an = in it.
Separable(pairs) ==
    \A i \in DOMAIN pairs : ~pairs[i].bare /\ "=" \notin {pairs[i].name[j] : j \in DOMAIN pairs[i].name}

\* A servlet that asks for a parameter or a cookie gets what the client sent,
\* whatever characters it is made of, in whatever case its name was written and
\* wherever it was sent, unless the servlet has set or deleted it (http.cc:69-72,
\* 96-184, 243-315).  A name deleted before anybody asked comes back with the text.
ParamsAsSent ==
    LET did == own[last.of][last.name] IN
    last.of # "none" /\ Separable(Sent(last.of)) =>
        last.value = IF did.what \in {"set", "deleted"} THEN did.value
                                                       ELSE FirstOf(Sent(last.of), last.name)
=============================================================================
