------------------------------ MODULE LibraryMC -----------------------------
(***************************************************************************)
(* The parts of the library that run beside the scheduler, in one instance *)
(* for TLC: HookIo and the others.  They share no state, so one behaviour  *)
(* exercises one of them: part says which.  HookIo stays at its beginning  *)
(* while another part moves, the variables of the others are off.          *)
(***************************************************************************)
EXTENDS HookIo, Sequences, TLC

CONSTANTS
    off,        \* the value of a variable whose part does not move
    PoolSize, PoolCalls, PoolRequests, PoolAlive, Now,      \* HttpConnectionPool
    Listeners, MaxLoops, MaxStops,                          \* TcpServer
    Clients, Servlets, Keepalive, MaxRequests, MaxEdits,    \* HttpServer
    MaxScopes, MaxStrays,                                   \* Locks
    broken,     \* a file that is not YAML
    Daemon, ConfTime, MaxChanges,                           \* Config
    Levels, LogTime, MaxEvents, MaxAccidents                \* Log

\* Fibers, threads or users.
Actors == Fibers

\* Configuration files: with one logger, with root (2) and other appenders of
\* the first, with another level of the first and a plain value that cannot be
\* converted, with loggers that cannot be.
Loggers == {1, 2}
Targets == {"file", "stdout"}
Def(l, files, outs) ==
    [level |-> l, appenders |-> [a \in Targets |-> IF a = "file" THEN files ELSE outs]]
NoDef == Def(-1, 0, 0)
Logs(d, e) == [l \in Loggers |-> IF l = 1 THEN d ELSE e]
Both == {"logs", "plain"}
Contents == {
    [logs |-> Logs(Def(400, 1, 1), NoDef), plain |-> 1, fine |-> Both],
    [logs |-> Logs(Def(400, 0, 1), Def(700, 1, 0)), plain |-> 2, fine |-> Both],
    [logs |-> Logs(Def(700, 1, 0), NoDef), plain |-> 1, fine |-> {"logs"}],
    [logs |-> Logs(Def(400, 0, 1), NoDef), plain |-> 1, fine |-> {"plain"}]}

\* All patterns of up to five characters over the ones that matter, and one in
\* which an unknown conversion ends the items before a second date.
LongPattern == <<"%", "d", "{", "m", "}", "%", "}", "%", "d", "{", "m", "}">>
Patterns == {LongPattern} \cup UNION {[1..n -> {"%", "d", "m", "{", "}"}] : n \in 0..5}

\* What clients send: names and values with the characters that are escaped
\* and those that separate, a name twice in different case, one without a
\* value, one with an =.
Pair(n, v) == [name |-> n, value |-> v, bare |-> FALSE]
Bare(n) == [name |-> n, value |-> <<>>, bare |-> TRUE]
Queries == {
    <<>>,
    <<Pair(<<"a">>, <<"b", " ">>)>>,
    <<Pair(<<"A">>, <<"b">>), Pair(<<"a">>, <<"a">>)>>,
    <<Pair(<<"b", "&">>, <<"&", "=">>), Pair(<<"a">>, <<"%">>)>>,
    <<Bare(<<"b">>), Pair(<<"a">>, <<"b">>)>>,
    <<Pair(<<"a", "=">>, <<"b">>)>>}
Forms == {<<>>, <<Pair(<<"a">>, <<"+">>)>>}
CookieLines == {<<>>, <<Pair(<<"b", "&">>, <<"a">>), Pair(<<"a">>, <<";">>)>>}

VARIABLES
    part,
    ba_nodes, ba_capacity, ba_m_position, ba_m_size, ba_m_cur, ba_endian,
    ba_file, ba_items, ba_last, ba_ops,
    pool_m_conns, pool_m_total, pool_state, pool_m_request, pool_peer,
    pool_wire, pool_answers, pool_pc, pool_conn, pool_pooled, pool_invalid,
    pool_request, pool_result, pool_calls,
    hp_kind, hp_messages, hp_inbox, hp_pc, hp_chunk, hp_dead, hp_m_data,
    hp_m_field, hp_m_finished, hp_m_error, hp_cut, hp_merged,
    hr_query, hr_form, hr_cookie, hr_isForm, hr_m_parserParamFlag,
    hr_m_params, hr_m_cookies, hr_own, hr_last, hr_ops,
    tcp_m_isStop, tcp_m_socks, tcp_lstate, tcp_loop, tcp_stops, tcp_queued,
    tcp_todo, tcp_at, tcp_client, tcp_aborted, tcp_restarted, tcp_dropped,
    tcp_slipped,
    web_at, web_sent, web_inbox, web_request, web_slt, web_answers, web_gone,
    web_piped, web_m_datas, web_m_globs, web_edits,
    lk_object, lk_thread, lk_m_id, lk_m_cb, lk_m_semaphore, lk_kind,
    lk_writer, lk_readers, lk_guard, lk_scopes, lk_strays, lk_misuse,
    cf_file, cf_mtime, cf_clock, cf_s_file2modifytime, cf_m_val,
    cf_registered, cf_plain, cf_m_cbs, cf_m_loggers, cf_call, cf_crashed,
    cf_changes, cf_overlap, cf_missed, cf_own, cf_given,
    lg_clock, lg_path, lg_since, lg_m_filestream, lg_m_lastTime,
    lg_m_reopenError, lg_m_level, lg_m_appenders, lg_call, lg_events,
    lg_accidents, lg_spoiled, lg_broken, lg_late,
    lf_m_pattern, lf_i, lf_tmp, lf_patterns, lf_dateformat,
    lf_parsing_string, lf_m_items, lf_m_error, lf_done

Bytes == INSTANCE ByteArray WITH
    BaseSize <- 3, MaxCapacity <- 9, MaxOps <- 4, Width <- 8,
    Fixeds <- {258}, Ints <- {-128}, Strings <- {<<>>, <<8, 9>>},
    nodes <- ba_nodes, capacity <- ba_capacity, m_position <- ba_m_position,
    m_size <- ba_m_size, m_cur <- ba_m_cur, endian <- ba_endian,
    file <- ba_file, items <- ba_items, last <- ba_last, ops <- ba_ops

\* The codec of ByteArray gives back every integer of eight bits.
ASSUME IntsDecode == \A v \in -128..127 : Bytes!Decodable(v)

Pool == INSTANCE HttpConnectionPool WITH
    Users <- Actors, MaxConns <- PoolSize, MaxCalls <- PoolCalls,
    MaxRequest <- PoolRequests, MaxAliveTime <- PoolAlive, m_conns <- pool_m_conns,
    m_total <- pool_m_total, state <- pool_state,
    m_request <- pool_m_request, peer <- pool_peer, wire <- pool_wire,
    answers <- pool_answers, pc <- pool_pc, conn <- pool_conn,
    pooled <- pool_pooled, invalid <- pool_invalid, request <- pool_request,
    result <- pool_result, calls <- pool_calls

Parser == INSTANCE HttpParser WITH
    BuffSize <- 15, MaxMessages <- 2, kind <- hp_kind,
    messages <- hp_messages, inbox <- hp_inbox, pc <- hp_pc,
    chunk <- hp_chunk, dead <- hp_dead, m_data <- hp_m_data,
    m_field <- hp_m_field, m_finished <- hp_m_finished,
    m_error <- hp_m_error, cut <- hp_cut, merged <- hp_merged

Request == INSTANCE HttpRequest WITH
    Queries <- Queries, Forms <- Forms, CookieLines <- CookieLines,
    Names <- {<<"A">>, <<"b", "&">>}, Values <- {<<"b", "b">>}, MaxOps <- 3,
    query <- hr_query, form <- hr_form, cookie <- hr_cookie,
    isForm <- hr_isForm, m_parserParamFlag <- hr_m_parserParamFlag,
    m_params <- hr_m_params, m_cookies <- hr_m_cookies, own <- hr_own,
    last <- hr_last, ops <- hr_ops

Tcp == INSTANCE TcpServer WITH
    m_isStop <- tcp_m_isStop, m_socks <- tcp_m_socks,
    lstate <- tcp_lstate, loop <- tcp_loop, stops <- tcp_stops,
    queued <- tcp_queued, todo <- tcp_todo, at <- tcp_at,
    client <- tcp_client, aborted <- tcp_aborted, restarted <- tcp_restarted,
    dropped <- tcp_dropped, slipped <- tcp_slipped

Web == INSTANCE HttpServer WITH
    at <- web_at, sent <- web_sent,
    inbox <- web_inbox, request <- web_request, slt <- web_slt,
    answers <- web_answers, gone <- web_gone, piped <- web_piped,
    m_datas <- web_m_datas, m_globs <- web_m_globs, edits <- web_edits

Lock == INSTANCE Locks WITH
    Threads <- Actors, object <- lk_object,
    thread <- lk_thread, m_id <- lk_m_id, m_cb <- lk_m_cb,
    m_semaphore <- lk_m_semaphore, kind <- lk_kind, writer <- lk_writer,
    readers <- lk_readers, guard <- lk_guard, scopes <- lk_scopes,
    strays <- lk_strays, misuse <- lk_misuse

Conf == INSTANCE Config WITH
    Threads <- Actors, Broken <- broken, Root <- 2, GivenLevels <- {500}, MaxTime <- ConfTime,
    file <- cf_file, mtime <- cf_mtime,
    clock <- cf_clock, s_file2modifytime <- cf_s_file2modifytime,
    m_val <- cf_m_val, registered <- cf_registered, plain <- cf_plain,
    m_cbs <- cf_m_cbs, m_loggers <- cf_m_loggers, call <- cf_call,
    crashed <- cf_crashed, changes <- cf_changes, overlap <- cf_overlap,
    missed <- cf_missed, own <- cf_own, given <- cf_given

Logging == INSTANCE Log WITH
    Threads <- Actors, MaxTime <- LogTime, clock <- lg_clock, path <- lg_path, since <- lg_since,
    m_filestream <- lg_m_filestream, m_lastTime <- lg_m_lastTime,
    m_reopenError <- lg_m_reopenError, m_level <- lg_m_level,
    m_appenders <- lg_m_appenders, call <- lg_call, events <- lg_events,
    accidents <- lg_accidents, spoiled <- lg_spoiled, broken <- lg_broken,
    late <- lg_late

Format == INSTANCE LogFormatter WITH
    Patterns <- Patterns, Known <- {"%", "m"}, m_pattern <- lf_m_pattern,
    i <- lf_i, tmp <- lf_tmp, patterns <- lf_patterns,
    dateformat <- lf_dateformat, parsing_string <- lf_parsing_string,
    m_items <- lf_m_items, m_error <- lf_m_error, done <- lf_done

baVars == <<ba_nodes, ba_capacity, ba_m_position, ba_m_size, ba_m_cur,
          ba_endian, ba_file, ba_items, ba_last, ba_ops>>
poolVars == <<pool_m_conns, pool_m_total, pool_state, pool_m_request,
          pool_peer, pool_wire, pool_answers, pool_pc, pool_conn,
          pool_pooled, pool_invalid, pool_request, pool_result, pool_calls>>
hpVars == <<hp_kind, hp_messages, hp_inbox, hp_pc, hp_chunk, hp_dead,
          hp_m_data, hp_m_field, hp_m_finished, hp_m_error, hp_cut, hp_merged>>
hrVars == <<hr_query, hr_form, hr_cookie, hr_isForm, hr_m_parserParamFlag,
          hr_m_params, hr_m_cookies, hr_own, hr_last, hr_ops>>
tcpVars == <<tcp_m_isStop, tcp_m_socks, tcp_lstate, tcp_loop, tcp_stops,
          tcp_queued, tcp_todo, tcp_at, tcp_client, tcp_aborted,
          tcp_restarted, tcp_dropped, tcp_slipped>>
webVars == <<web_at, web_sent, web_inbox, web_request, web_slt, web_answers,
          web_gone, web_piped, web_m_datas, web_m_globs, web_edits>>
lkVars == <<lk_object, lk_thread, lk_m_id, lk_m_cb, lk_m_semaphore, lk_kind,
          lk_writer, lk_readers, lk_guard, lk_scopes, lk_strays, lk_misuse>>
cfVars == <<cf_file, cf_mtime, cf_clock, cf_s_file2modifytime, cf_m_val,
          cf_registered, cf_plain, cf_m_cbs, cf_m_loggers, cf_call,
          cf_crashed, cf_changes, cf_overlap, cf_missed, cf_own, cf_given>>
lgVars == <<lg_clock, lg_path, lg_since, lg_m_filestream, lg_m_lastTime,
          lg_m_reopenError, lg_m_level, lg_m_appenders, lg_call, lg_events,
          lg_accidents, lg_spoiled, lg_broken, lg_late>>
lfVars == <<lf_m_pattern, lf_i, lf_tmp, lf_patterns, lf_dateformat,
          lf_parsing_string, lf_m_items, lf_m_error, lf_done>>

BytesOff ==
    /\ ba_nodes = off /\ ba_capacity = off /\ ba_m_position = off
    /\ ba_m_size = off /\ ba_m_cur = off /\ ba_endian = off /\ ba_file = off
    /\ ba_items = off /\ ba_last = off /\ ba_ops = off

PoolOff ==
    /\ pool_m_conns = off /\ pool_m_total = off /\ pool_state = off
    /\ pool_m_request = off /\ pool_peer = off /\ pool_wire = off
    /\ pool_answers = off /\ pool_pc = off /\ pool_conn = off
    /\ pool_pooled = off /\ pool_invalid = off /\ pool_request = off
    /\ pool_result = off /\ pool_calls = off

ParserOff ==
    /\ hp_kind = off /\ hp_messages = off /\ hp_inbox = off /\ hp_pc = off
    /\ hp_chunk = off /\ hp_dead = off /\ hp_m_data = off /\ hp_m_field = off
    /\ hp_m_finished = off /\ hp_m_error = off /\ hp_cut = off
    /\ hp_merged = off

RequestOff ==
    /\ hr_query = off /\ hr_form = off /\ hr_cookie = off /\ hr_isForm = off
    /\ hr_m_parserParamFlag = off /\ hr_m_params = off /\ hr_m_cookies = off
    /\ hr_own = off /\ hr_last = off /\ hr_ops = off

TcpOff ==
    /\ tcp_m_isStop = off /\ tcp_m_socks = off /\ tcp_lstate = off
    /\ tcp_loop = off /\ tcp_stops = off /\ tcp_queued = off
    /\ tcp_todo = off /\ tcp_at = off /\ tcp_client = off
    /\ tcp_aborted = off /\ tcp_restarted = off /\ tcp_dropped = off
    /\ tcp_slipped = off

WebOff ==
    /\ web_at = off /\ web_sent = off /\ web_inbox = off /\ web_request = off
    /\ web_slt = off /\ web_answers = off /\ web_gone = off
    /\ web_piped = off /\ web_m_datas = off /\ web_m_globs = off
    /\ web_edits = off

LockOff ==
    /\ lk_object = off /\ lk_thread = off /\ lk_m_id = off /\ lk_m_cb = off
    /\ lk_m_semaphore = off /\ lk_kind = off /\ lk_writer = off
    /\ lk_readers = off /\ lk_guard = off /\ lk_scopes = off
    /\ lk_strays = off /\ lk_misuse = off

ConfOff ==
    /\ cf_file = off /\ cf_mtime = off /\ cf_clock = off
    /\ cf_s_file2modifytime = off /\ cf_m_val = off /\ cf_registered = off
    /\ cf_plain = off /\ cf_m_cbs = off /\ cf_m_loggers = off
    /\ cf_call = off /\ cf_crashed = off /\ cf_changes = off
    /\ cf_overlap = off /\ cf_missed = off /\ cf_own = off
    /\ cf_given = off

LogsOff ==
    /\ lg_clock = off /\ lg_path = off /\ lg_since = off
    /\ lg_m_filestream = off /\ lg_m_lastTime = off /\ lg_m_reopenError = off
    /\ lg_m_level = off /\ lg_m_appenders = off /\ lg_call = off
    /\ lg_events = off /\ lg_accidents = off /\ lg_spoiled = off
    /\ lg_broken = off /\ lg_late = off

FormatOff ==
    /\ lf_m_pattern = off /\ lf_i = off /\ lf_tmp = off /\ lf_patterns = off
    /\ lf_dateformat = off /\ lf_parsing_string = off /\ lf_m_items = off
    /\ lf_m_error = off /\ lf_done = off

Parts == {"hook", "ba", "pool", "hp", "hr", "tcp", "web", "lk", "cf", "lg", "lf"}

LibraryInit ==
    /\ Init
    /\ part \in Parts
    /\ IF part = "ba" THEN Bytes!Init ELSE BytesOff
    /\ IF part = "pool" THEN Pool!Init ELSE PoolOff
    /\ IF part = "hp" THEN Parser!Init ELSE ParserOff
    /\ IF part = "hr" THEN Request!Init ELSE RequestOff
    /\ IF part = "tcp" THEN Tcp!Init ELSE TcpOff
    /\ IF part = "web" THEN Web!Init ELSE WebOff
    /\ IF part = "lk" THEN Lock!Init ELSE LockOff
    /\ IF part = "cf" THEN Conf!Init ELSE ConfOff
    /\ IF part = "lg" THEN Logging!Init ELSE LogsOff
    /\ IF part = "lf" THEN Format!Init ELSE FormatOff

LibraryNext ==
    /\ UNCHANGED part
    /\ IF part = "hook" THEN Next ELSE UNCHANGED vars
    /\ IF part = "ba" THEN Bytes!Next ELSE UNCHANGED baVars
    /\ IF part = "pool" THEN Pool!Next ELSE UNCHANGED poolVars
    /\ IF part = "hp" THEN Parser!Next ELSE UNCHANGED hpVars
    /\ IF part = "hr" THEN Request!Next ELSE UNCHANGED hrVars
    /\ IF part = "tcp" THEN Tcp!Next ELSE UNCHANGED tcpVars
    /\ IF part = "web" THEN Web!Next ELSE UNCHANGED webVars
    /\ IF part = "lk" THEN Lock!Next ELSE UNCHANGED lkVars
    /\ IF part = "cf" THEN Conf!Next ELSE UNCHANGED cfVars
    /\ IF part = "lg" THEN Logging!Next ELSE UNCHANGED lgVars
    /\ IF part = "lf" THEN Format!Next ELSE UNCHANGED lfVars

allVars == <<part, vars, ba_nodes, ba_capacity, ba_m_position, ba_m_size, ba_m_cur,
          ba_endian, ba_file, ba_items, ba_last, ba_ops, pool_m_conns,
          pool_m_total, pool_state, pool_m_request, pool_peer, pool_wire,
          pool_answers, pool_pc, pool_conn, pool_pooled, pool_invalid,
          pool_request, pool_result, pool_calls, hp_kind, hp_messages,
          hp_inbox, hp_pc, hp_chunk, hp_dead, hp_m_data, hp_m_field,
          hp_m_finished, hp_m_error, hp_cut, hp_merged, hr_query, hr_form,
          hr_cookie, hr_isForm, hr_m_parserParamFlag, hr_m_params,
          hr_m_cookies, hr_own, hr_last, hr_ops, tcp_m_isStop, tcp_m_socks,
          tcp_lstate, tcp_loop, tcp_stops, tcp_queued, tcp_todo, tcp_at,
          tcp_client, tcp_aborted, tcp_restarted, tcp_dropped, tcp_slipped,
          web_at, web_sent, web_inbox, web_request, web_slt, web_answers,
          web_gone, web_piped, web_m_datas, web_m_globs, web_edits,
          lk_object, lk_thread, lk_m_id, lk_m_cb, lk_m_semaphore, lk_kind,
          lk_writer, lk_readers, lk_guard, lk_scopes, lk_strays, lk_misuse,
          cf_file, cf_mtime, cf_clock, cf_s_file2modifytime, cf_m_val,
          cf_registered, cf_plain, cf_m_cbs, cf_m_loggers, cf_call,
          cf_crashed, cf_changes, cf_overlap, cf_missed, cf_own, cf_given, lg_clock,
          lg_path, lg_since, lg_m_filestream, lg_m_lastTime,
          lg_m_reopenError, lg_m_level, lg_m_appenders, lg_call, lg_events,
          lg_accidents, lg_spoiled, lg_broken, lg_late, lf_m_pattern, lf_i,
          lf_tmp, lf_patterns, lf_dateformat, lf_parsing_string, lf_m_items,
          lf_m_error, lf_done>>

LibrarySpec == LibraryInit /\ [][LibraryNext]_allVars

Symmetry == Permutations(Actors)

-----------------------------------------------------------------------------
\* Every variable of the part that moves has its type.
LibraryTypes ==
    /\ part \in Parts
    /\ TypeOK
    /\ part = "ba" => Bytes!TypeOK
    /\ part = "pool" => Pool!TypeOK
    /\ part = "hp" => Parser!TypeOK
    /\ part = "hr" => Request!TypeOK
    /\ part = "tcp" => Tcp!TypeOK
    /\ part = "web" => Web!TypeOK
    /\ part = "lk" => Lock!TypeOK
    /\ part = "cf" => Conf!TypeOK
    /\ part = "lg" => Logging!TypeOK
    /\ part = "lf" => Format!TypeOK

\* What is written to a byte array is what is read (bytearray.cc).
RoundTrip == part = "ba" => Bytes!RoundTrip

\* A pooled connection gives a request its own answer
\* (http_connection.cc:262-314, 515-554).
AnswerIsOwn == part = "pool" => Pool!AnswerIsOwn

\* The pool counts the connections it has made and not deleted
\* (http_connection.cc:331-407).
PoolCounts == part = "pool" => Pool!PoolCounts

\* The HttpRequest or HttpResponse holds what the peer sent, and the
\* servlet that asks for a parameter or a cookie gets it (http_parser.cc, http.cc).
MessageAsSent ==
    /\ part = "hp" => Parser!MessageAsSent
    /\ part = "hr" => Request!ParamsAsSent

\* stop() ends every accept loop (tcp_server.cc:98-146).
StopReachesEveryLoop == part = "tcp" => Tcp!StopReachesEveryLoop

\* A session answers the requests of its client, each once and in their order
\* (http_server.cc, servlet.cc).
AnswersMatchRequests == part = "web" => Web!AnswersMatchRequests

\* Scoped locks exclude and a constructed Thread has started
\* (mutex.h, thread.cc).
GuardedIsExclusive == part = "lk" => Lock!GuardedIsExclusive

\* The loggers are what the configuration file says, and those it never
\* defined what the program made them (config.cc, config.h, log.cpp).
LoggersFollowFile == part = "cf" => Conf!LoggersFollowFile

\* Events reach the file that has the name (log.cpp:535-584).
LogReachesFile == part = "lg" => Logging!LogReachesFile

\* A formatter prints what its pattern means (log.cpp:288-450).
ItemsMatchPattern == part = "lf" => Format!ItemsMatchPattern

=============================================================================
