------------------------------- MODULE HttpServer -------------------------------
(***************************************************************************)
(* sylar/http: HttpServer::handleClient(), one fiber per accepted client   *)
(* (TcpServer makes them), the HttpSession it reads requests from and      *)
(* writes answers to, and the ServletDispatch that chooses who answers,    *)
(* which other threads change meanwhile.  HttpParser has the inside of     *)
(* recvRequest(); here it takes whole requests.                            *)
(***************************************************************************)
EXTENDS Integers, Sequences, SequencesExt

CONSTANTS
    Clients,
    Servlets,    \* servlets that are ever added, all for paths that match
    Keepalive,   \* m_isKeepalive
    MaxRequests, \* bound: requests of a client
    MaxEdits     \* bound: changes of the table of servlets

Default == "NotFound"
None == "none"
Patterns == {"/a*", "/*"}

VARIABLES
    at,       \* where a client's fiber is: none, recv, handle, send, done
    sent,     \* how many requests the client has sent
    inbox,    \* those that have not been read
    request,  \* the one being handled
    slt,      \* the servlet that was found for it
    answers,  \* what the client has got: requests, with servlets
    gone,     \* clients that have closed
    piped,    \* history: clients that sent one before the last was answered
    m_datas,  \* the servlet of the path itself
    m_globs,  \* patterns and servlets, in the order they are tried
    edits

sessionVars == <<at, sent, inbox, request, slt, answers, gone, piped>>
tableVars == <<m_datas, m_globs, edits>>
vars == <<sessionVars, tableVars>>

NoRequest == [id |-> 0, keep |-> FALSE]

Init ==
    /\ at = [c \in Clients |-> "none"]
    /\ sent = [c \in Clients |-> 0]
    /\ inbox = [c \in Clients |-> <<>>]
    /\ request = [c \in Clients |-> NoRequest]
    /\ slt = [c \in Clients |-> None]
    /\ answers = [c \in Clients |-> <<>>]
    /\ gone = {} /\ piped = {}
    /\ m_datas = None /\ m_globs = <<>> /\ edits = 0

-----------------------------------------------------------------------------
(* The table, changed under the write lock.                                *)
Edit(datas, globs) ==
    /\ edits < MaxEdits
    /\ edits' = edits + 1
    /\ m_datas' = datas /\ m_globs' = globs
    /\ UNCHANGED sessionVars

\* Where p stands for the first time.
First(p) ==
    {i \in 1..Len(m_globs) :
        m_globs[i].pattern = p /\ \A j \in 1..(i - 1) : m_globs[j].pattern # p}

\* erase(); a second entry of p, if there was one, would stay.
Without(p) ==
    IF First(p) = {} THEN m_globs
                     ELSE RemoveAt(m_globs, CHOOSE i \in First(p) : TRUE)

AddServlet == \E s \in Servlets : Edit(s, m_globs)
DelServlet == m_datas # None /\ Edit(None, m_globs)
\* A pattern that is there already moves to the end.
AddGlobServlet ==
    \E p \in Patterns, s \in Servlets :
        Edit(m_datas, Append(Without(p), [pattern |-> p, servlet |-> s]))
DelGlobServlet == m_globs # <<>> /\ \E p \in Patterns : Edit(m_datas, Without(p))

\* The path itself, then the first pattern that matches, then the default.
MatchedServlet ==
    IF m_datas # None THEN m_datas
    ELSE IF m_globs # <<>> THEN m_globs[1].servlet ELSE Default

-----------------------------------------------------------------------------
Session(c, l) ==
    /\ at' = [at EXCEPT ![c] = l]
    /\ UNCHANGED tableVars

\* The fiber that startAccept() has scheduled begins.
HandleClient(c) ==
    /\ at[c] = "none"
    /\ Session(c, "recv")
    /\ UNCHANGED <<sent, inbox, request, slt, answers, gone, piped>>

\* Mutant: what was read beyond a request is kept, and the connection too.
RecvKeeps(c) ==
    /\ at[c] = "recv" /\ inbox[c] # <<>>
    /\ \E n \in 1..Len(inbox[c]) : request' = [request EXCEPT ![c] = inbox[c][n]]
    /\ Session(c, "handle")
    /\ UNCHANGED <<sent, inbox, slt, answers, gone, piped>>

\* recvRequest() takes the requests that came in one read for one, of which
\* the last gives the path; after one that is not kept they are an error.
Recv(c) ==
    /\ at[c] = "recv" /\ inbox[c] # <<>>
    /\ \E n \in 1..Len(inbox[c]) :
        /\ inbox' = [inbox EXCEPT ![c] = SubSeq(@, n + 1, Len(@))]
        /\ IF \A i \in 1..n - 1 : inbox[c][i].keep
             THEN request' = [request EXCEPT ![c] = inbox[c][n]] /\ Session(c, "handle")
             ELSE UNCHANGED request /\ Session(c, "done")
    /\ UNCHANGED <<sent, slt, answers, gone, piped>>

\* The client has closed, sends no request, or nothing in time.
RecvFails(c) ==
    /\ at[c] = "recv"
    /\ Session(c, "done")
    /\ UNCHANGED <<sent, inbox, request, slt, answers, gone, piped>>

\* getMatchedServlet() under the read lock; the servlet answers without it.
Dispatch(c) ==
    /\ at[c] = "handle"
    /\ slt' = [slt EXCEPT ![c] = MatchedServlet]
    /\ Session(c, "send")
    /\ UNCHANGED <<sent, inbox, request, answers, gone, piped>>

\* Whether the answer could be sent makes no difference.
SendResponse(c) ==
    /\ at[c] = "send"
    /\ answers' = IF c \in gone THEN answers
                  ELSE [answers EXCEPT ![c] = Append(@, [id |-> request[c].id, by |-> slt[c]])]
    /\ Session(c, IF Keepalive /\ request[c].keep THEN "recv" ELSE "done")
    /\ UNCHANGED <<sent, inbox, request, slt, gone, piped>>

-----------------------------------------------------------------------------
\* The clients.
ClientSends(c) ==
    /\ c \notin gone /\ sent[c] < MaxRequests
    /\ sent' = [sent EXCEPT ![c] = @ + 1]
    /\ \E k \in BOOLEAN :
         inbox' = [inbox EXCEPT ![c] = Append(@, [id |-> sent[c] + 1, keep |-> k])]
    /\ piped' = IF Len(answers[c]) < sent[c] THEN piped \cup {c} ELSE piped
    /\ UNCHANGED <<at, request, slt, answers, gone, tableVars>>

ClientCloses(c) ==
    /\ c \notin gone
    /\ gone' = gone \cup {c}
    /\ UNCHANGED <<at, sent, inbox, request, slt, answers, piped, tableVars>>

Next ==
    \/ AddServlet \/ DelServlet \/ AddGlobServlet \/ DelGlobServlet
    \/ \E c \in Clients :
        \/ HandleClient(c) \/ Recv(c) \/ RecvFails(c) \/ Dispatch(c) \/ SendResponse(c)
        \/ ClientSends(c) \/ ClientCloses(c)

Spec == Init /\ [][Next]_vars

-----------------------------------------------------------------------------
TypeOK ==
    /\ at \in [Clients -> {"none", "recv", "handle", "send", "done"}]
    /\ sent \in [Clients -> 0..MaxRequests]
    /\ \A c \in Clients : slt[c] \in Servlets \cup {None, Default}
    /\ \A i, j \in 1..Len(m_globs) : m_globs[i].pattern = m_globs[j].pattern => i = j

\* A client gets at most one answer for a request, in the order it sent them;
\* one that waits for each answer gets exactly those, and none is skipped.
AnswersMatchRequests ==
    \A c \in Clients :
        /\ \A i, j \in 1..Len(answers[c]) : i < j => answers[c][i].id < answers[c][j].id
        /\ c \notin piped => \A i \in 1..Len(answers[c]) : answers[c][i].id = i
=============================================================================
