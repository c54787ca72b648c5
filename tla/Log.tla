-------------------------------- MODULE Log --------------------------------
(***************************************************************************)
(* Loggers and the file appender (log.cpp, log.h): the two tests of the    *)
(* level, the walk over the appenders without the logger's lock, and       *)
(* FileLogAppender, which opens its file again when an event is three      *)
(* seconds later than the last such event, so that a file that has been    *)
(* renamed or could not be opened is followed.                             *)
(*                                                                         *)
(* reopen() closes the stream only if it is good (log.cpp:571).  After a   *)
(* failed write the old file stays open, open() fails on the open stream,  *)
(* and the appender never writes again.                                    *)
(***************************************************************************)
EXTENDS Integers, FiniteSets

CONSTANTS
    Threads,    \* threads that log
    Levels,     \* levels of events and of the logger
    MaxTime,    \* bound: the clock, from StartTime on
    MaxEvents,  \* bound: events
    MaxAccidents \* bound: changes of the file and of the logger

VARIABLES
    clock,      \* time(0)
    path,       \* the file under its name: [gen, writable, full]
    since,      \* when the name came to mean the writable file it means
    m_filestream, \* [open, gen, failed]
    m_lastTime, \* the time of the event that opened the file last
    m_reopenError,
    m_level,    \* of the logger
    m_appenders,\* the file appender is among the logger's
    call,       \* Threads -> the event a thread is logging
    events, accidents, \* bound counters
    spoiled,    \* a write to the open file has failed
    broken,     \* a list node went away under a walking thread
    late        \* an event did not reach the file although it should have

outside == <<clock, path, since>>
appender == <<m_filestream, m_lastTime, m_reopenError>>
logger == <<m_level, m_appenders>>
ghosts == <<spoiled, broken, late>>
vars == <<outside, appender, logger, call, events, accidents, ghosts>>

(* A time so far from zero that the first event opens the file again.      *)
StartTime == 4
Period == 3
INFO == 600

NoEvent == [at |-> "none", time |-> 0, level |-> 0]

TypeOK ==
    /\ clock \in StartTime..MaxTime /\ since \in StartTime..MaxTime
    /\ path \in [gen : 0..MaxAccidents, writable : BOOLEAN, full : BOOLEAN]
    /\ m_filestream \in [open : BOOLEAN, gen : 0..MaxAccidents, failed : BOOLEAN]
    /\ m_lastTime \in 0..MaxTime
    /\ m_reopenError \in BOOLEAN
    /\ m_level \in Levels /\ m_appenders \in BOOLEAN
    /\ \A t \in Threads :
          /\ call[t].at \in {"none", "logger", "check", "reopen", "stamp", "test",
                             "write"}
          /\ call[t].time \in 0..MaxTime
    /\ events \in 0..MaxEvents /\ accidents \in 0..MaxAccidents
    /\ spoiled \in BOOLEAN /\ broken \in BOOLEAN /\ late \in BOOLEAN

OpenedOnce(stream) ==
    IF stream.open THEN stream
    ELSE IF path.writable THEN [open |-> TRUE, gen |-> path.gen, failed |-> FALSE]
                          ELSE [stream EXCEPT !.failed = TRUE]

(* reopen(): close if good, open, and keep what open() says.               *)
Opened(stream) ==
    LET closed == IF stream.failed THEN stream ELSE [stream EXCEPT !.open = FALSE]
    IN IF closed.open \/ ~path.writable
       THEN [closed EXCEPT !.failed = TRUE]
       ELSE [open |-> TRUE, gen |-> path.gen, failed |-> FALSE]

(* The constructor of the appender has opened the file once.               *)
Init ==
    /\ clock = StartTime /\ since = StartTime
    /\ path \in [gen : {0}, writable : BOOLEAN, full : {FALSE}]
    /\ m_filestream = [open |-> path.writable, gen |-> 0, failed |-> ~path.writable]
    /\ m_reopenError = ~path.writable
    /\ m_lastTime = 0
    /\ m_level = INFO /\ m_appenders = TRUE
    /\ call = [t \in Threads |-> NoEvent]
    /\ events = 0 /\ accidents = 0
    /\ spoiled = FALSE /\ broken = FALSE /\ late = FALSE

-----------------------------------------------------------------------------
(* The outside.                                                            *)

Tick ==
    /\ clock < MaxTime
    /\ clock' = clock + 1
    /\ UNCHANGED <<path, since, appender, logger, call, events, accidents, ghosts>>

Accident ==
    /\ accidents < MaxAccidents
    /\ accidents' = accidents + 1
    /\ UNCHANGED <<clock, appender, call, events, spoiled, late>>

(* The file is renamed, or becomes writable, or ceases to be.              *)
Rotate ==
    /\ Accident
    /\ \/ path' = [path EXCEPT !.gen = @ + 1]
       \/ path' = [path EXCEPT !.writable = ~@]
    /\ since' = clock
    /\ UNCHANGED <<logger, broken>>

(* The disk fills up or is cleared.                                        *)
Fill ==
    /\ Accident
    /\ path' = [path EXCEPT !.full = ~@]
    /\ UNCHANGED <<since, logger, broken>>

SetLevel(level) ==
    /\ Accident /\ level # m_level
    /\ m_level' = level
    /\ UNCHANGED <<path, since, m_appenders, broken>>

(* delAppender() and clearAppenders() take the lock, the walk does not.    *)
DelAppender ==
    /\ Accident /\ m_appenders
    /\ m_appenders' = FALSE
    /\ broken' = (broken \/ \E t \in Threads : call[t].at \notin {"none", "logger"})
    /\ UNCHANGED <<path, since, m_level>>

AddAppender ==
    /\ Accident /\ ~m_appenders
    /\ m_appenders' = TRUE
    /\ UNCHANGED <<path, since, m_level, broken>>

-----------------------------------------------------------------------------
(* One event.                                                              *)

To(t, at) == call' = [call EXCEPT ![t].at = at]

Done(t) == call' = [call EXCEPT ![t] = NoEvent]

(* The macro tests the level and makes the event with the time.            *)
Make(t, level) ==
    /\ call[t].at = "none" /\ events < MaxEvents
    /\ level <= m_level
    /\ events' = events + 1
    /\ call' = [call EXCEPT ![t] = [at |-> "logger", time |-> clock, level |-> level]]
    /\ UNCHANGED <<outside, appender, logger, accidents, ghosts>>

(* ~LogEventWrap() calls Logger::log(), which tests it again.              *)
Walk(t) ==
    /\ call[t].at = "logger"
    /\ call' = [call EXCEPT ![t] = IF @.level <= m_level /\ m_appenders
                                   THEN [@ EXCEPT !.at = "check", !.level = 0]
                                   ELSE NoEvent]
    /\ UNCHANGED <<outside, appender, logger, events, accidents, ghosts>>

Check(t) ==
    /\ call[t].at = "check"
    /\ To(t, IF call[t].time >= m_lastTime + Period THEN "reopen" ELSE "test")
    /\ UNCHANGED <<outside, appender, logger, events, accidents, ghosts>>

Reopen(t) ==
    /\ call[t].at = "reopen"
    /\ m_filestream' = Opened(m_filestream)
    /\ m_reopenError' = m_filestream'.failed
    /\ To(t, "stamp")
    /\ UNCHANGED <<outside, m_lastTime, logger, events, accidents, ghosts>>

Stamp(t) ==
    /\ call[t].at = "stamp"
    /\ m_lastTime' = call[t].time
    /\ To(t, "test")
    /\ UNCHANGED <<outside, m_filestream, m_reopenError, logger, events,
                   accidents, ghosts>>

(* The event should be in the file: it came three seconds after the last   *)
(* change, and nothing has failed on the way.                              *)
Due(t) == call[t].time >= since + Period /\ path.writable /\ ~path.full /\ ~spoiled

Test(t) ==
    /\ call[t].at = "test"
    /\ IF m_reopenError THEN Done(t) ELSE To(t, "write")
    /\ late' = (late \/ (m_reopenError /\ Due(t)))
    /\ UNCHANGED <<outside, appender, logger, events, accidents, spoiled, broken>>

Write(t) ==
    /\ call[t].at = "write"
    /\ LET s == m_filestream
           fails == ~s.failed /\ (path.full \/ ~s.open)
           written == ~s.failed /\ ~fails /\ s.gen = path.gen
       IN /\ m_filestream' = [s EXCEPT !.failed = s.failed \/ fails]
          /\ spoiled' = (spoiled \/ (fails /\ s.open))
          /\ late' = (late \/ (~written /\ Due(t)))
    /\ Done(t)
    /\ UNCHANGED <<outside, m_lastTime, m_reopenError, logger, events,
                   accidents, broken>>

LogEvent(t) ==
    \/ \E level \in Levels : Make(t, level)
    \/ Walk(t) \/ Check(t) \/ Reopen(t) \/ Stamp(t) \/ Test(t) \/ Write(t)

(* Once a thread walks over freed nodes anything may happen; the model     *)
(* ends there.                                                             *)
Next ==
    /\ ~broken
    /\ \/ Tick \/ Rotate \/ Fill \/ DelAppender \/ AddAppender
       \/ \E level \in Levels : SetLevel(level)
       \/ \E t \in Threads : LogEvent(t)

Spec == Init /\ [][Next]_vars

-----------------------------------------------------------------------------
(* Three seconds after the file was renamed or could be written again      *)
(* every event is written to the file that has the name, unless a write    *)
(* failed before: then the stream is never opened again                    *)
(* (log.cpp:535-581).                                                      *)
LogReachesFile == ~late
=============================================================================
