------------------------------- MODULE Config -------------------------------
(***************************************************************************)
(* The configuration and what logging takes from it: LoadFromConfDir(),    *)
(* LoadFromYaml() and ConfigVar::setValue() (config.cc, config.h), and the *)
(* listener of the variable "logs" that rebuilds the loggers (log.cpp).    *)
(* A file is what its YAML says: the loggers it defines, the value of one  *)
(* plain variable and which of the two can be converted, or nothing that   *)
(* can be parsed.  The program may give a logger a level and appenders of  *)
(* its own, as tests/test_log.cpp does; root is made with one appender.    *)
(*                                                                         *)
(* setValue() compares and runs the listeners under the read lock, so two  *)
(* threads may do it at once; it gives the lock up and assigns under the   *)
(* write lock.  A modified definition makes the listener compare where it  *)
(* should assign (log.cpp:886) and use a null pointer: the process ends.   *)
(***************************************************************************)
EXTENDS Integers

CONSTANTS
    Threads,    \* threads that load files or set the variable
    Contents,   \* what a file may hold: [logs, plain, fine] or Broken
    Broken,     \* a file that YAML::LoadFile() refuses
    Loggers,    \* the names, numbers in the order of std::set
    Root,       \* the one among them that exists from the start
    GivenLevels, \* levels that the program sets by itself
    Targets,    \* appenders a definition may name, each so many times
    Daemon,     \* the process runs with the argument d
    MaxTime,    \* bound: seconds of the file system's clock
    MaxChanges  \* bound: edits of the file, and what the program sets

VARIABLES
    file,       \* what the file holds
    mtime,      \* its modification time
    clock,      \* the time in seconds
    s_file2modifytime, \* the time recorded at the last load, 0 at first
    m_val,      \* the variable "logs": name -> definition or NoDef
    registered, \* the plain variable has been looked up
    plain,      \* its value, 0 by default
    m_cbs,      \* the listener of log.cpp is registered
    m_loggers,  \* name -> the logger, NoLogger before it is asked for
    call,       \* Threads -> the call in progress
    crashed,    \* the listener used a null logger
    changes,    \* bound counter
    overlap,    \* a call read its value before another, earlier one had
                \* stored its own
    missed,     \* the file was written in the second of the recorded time,
                \* or the variable looked up after it had been read
    own,        \* the program has set a value by itself
    given       \* name -> the level and the appenders that the program has
                \* given the logger since a definition last set it

disk == <<file, mtime, clock>>
loaded == <<s_file2modifytime, plain>>
ghosts == <<overlap, missed, own, given>>
vars == <<disk, loaded, m_val, registered, m_cbs, m_loggers, call, crashed,
          changes, ghosts>>

INFO == 600
NOTSET == 800
NoAppenders == [a \in Targets |-> 0]
NoDef == [level |-> -1, appenders |-> NoAppenders]
NoLogger == NoDef
NoGifts == NoDef
NoLogs == [l \in Loggers |-> NoDef]
NoCall == [at |-> "none", v |-> NoLogs, todo |-> {}, gone |-> {}]

One(target) == [a \in Targets |-> IF a = target THEN 1 ELSE 0]
Plus(x, y) == [a \in Targets |-> x[a] + y[a]]

\* The Logger that is constructed for a name.
NewLogger(l) ==
    [level |-> INFO, appenders |-> IF l = Root THEN One("stdout") ELSE NoAppenders]

Definitions == [level : Nat \cup {-1}, appenders : [Targets -> Nat]]

TypeOK ==
    /\ file \in Contents \cup {Broken}
    /\ mtime \in 1..MaxTime /\ clock \in 1..MaxTime
    /\ s_file2modifytime \in 0..MaxTime
    /\ m_val \in [Loggers -> Definitions] /\ m_loggers \in [Loggers -> Definitions]
    /\ registered \in BOOLEAN /\ m_cbs \in BOOLEAN /\ crashed \in BOOLEAN
    /\ plain \in Nat
    /\ \A t \in Threads :
          /\ call[t].at \in {"none", "read", "set", "listen", "fill", "store"}
          /\ call[t].todo \subseteq Loggers /\ call[t].gone \subseteq Loggers
    /\ changes \in 0..MaxChanges
    /\ overlap \in BOOLEAN /\ missed \in BOOLEAN /\ own \in BOOLEAN
    /\ given \in [Loggers -> Definitions]

Init ==
    /\ file \in Contents \cup {Broken}
    /\ mtime = 1 /\ clock = 1
    /\ s_file2modifytime = 0
    /\ m_val = NoLogs
    /\ registered = FALSE /\ plain = 0
    /\ m_cbs = TRUE
    /\ m_loggers = [l \in Loggers |-> IF l = Root THEN NewLogger(l) ELSE NoLogger]
    /\ given = [l \in Loggers |-> NewLogger(l)]
    /\ call = [t \in Threads |-> NoCall]
    /\ crashed = FALSE /\ changes = 0
    /\ overlap = FALSE /\ missed = FALSE /\ own = FALSE

-----------------------------------------------------------------------------
(* The outside.                                                            *)

Tick ==
    /\ clock < MaxTime
    /\ clock' = clock + 1
    /\ UNCHANGED <<file, mtime, loaded, m_val, registered, m_cbs,
                   m_loggers, call, crashed, changes, ghosts>>

Edit(c) ==
    /\ changes < MaxChanges
    /\ changes' = changes + 1
    /\ file' = c
    /\ mtime' = clock
    /\ missed' = (missed \/ s_file2modifytime = clock)
    /\ UNCHANGED <<clock, loaded, m_val, registered, m_cbs, m_loggers, call,
                   crashed, overlap, own, given>>

(* Lookup() with a default creates the plain variable; what has been read  *)
(* from a file before is not remembered for it.                            *)
Lookup ==
    /\ ~registered
    /\ registered' = TRUE
    /\ missed' = (missed \/ s_file2modifytime # 0)
    /\ UNCHANGED <<disk, loaded, m_val, m_cbs, m_loggers, call, crashed,
                   changes, overlap, own, given>>

(* SYLAR_LOG_NAME: a name that is asked for first gets a logger.           *)
GetLogger(l) == IF m_loggers[l] = NoLogger THEN NewLogger(l) ELSE m_loggers[l]

UseLogger(l) ==
    /\ m_loggers' = [m_loggers EXCEPT ![l] = GetLogger(l)]
    /\ m_loggers' # m_loggers
    /\ UNCHANGED <<disk, loaded, m_val, registered, m_cbs, call, crashed,
                   changes, ghosts>>

(* The program sets up a logger that it has got.                           *)
Give(l) ==
    /\ m_loggers[l] # NoLogger /\ changes < MaxChanges
    /\ changes' = changes + 1
    /\ UNCHANGED <<disk, loaded, m_val, registered, m_cbs, call, crashed,
                   overlap, missed, own>>

SetLevel(l, v) ==
    /\ Give(l)
    /\ m_loggers' = [m_loggers EXCEPT ![l].level = v]
    /\ given' = [given EXCEPT ![l].level = v]

AddAppender(l, a) ==
    /\ Give(l)
    /\ m_loggers' = [m_loggers EXCEPT ![l].appenders = Plus(@, One(a))]
    /\ given' = [given EXCEPT ![l].appenders = Plus(@, One(a))]

(* The write lock waits for the calls that run listeners.                  *)
Listening == {"listen", "fill"}
NobodyReads == \A t \in Threads : call[t].at \notin Listening

Others(t, places) == \E u \in Threads \ {t} : call[u].at \in places

ClearListener ==
    /\ m_cbs /\ NobodyReads
    /\ m_cbs' = FALSE
    /\ UNCHANGED <<disk, loaded, m_val, registered, m_loggers, call, crashed,
                   changes, ghosts>>

-----------------------------------------------------------------------------
(* LoadFromConfDir().                                                      *)

(* The time is compared and stored before the file is read.  lstat() comes *)
(* before the lock; a time that another thread has replaced by then only   *)
(* makes the next load read the file again.                                *)
SeeFile(t, force) ==
    /\ call[t].at = "none"
    /\ force \/ s_file2modifytime # mtime
    /\ s_file2modifytime' = mtime
    /\ missed' = (missed /\ ~force)
    /\ call' = [call EXCEPT ![t].at = "read"]
    /\ UNCHANGED <<disk, plain, m_val, registered, m_cbs, m_loggers, crashed,
                   changes, overlap, own, given>>

(* A file that cannot be parsed throws and is given up.  LoadFromYaml()    *)
(* sets the plain variable at once and goes on to "logs"; fromString()     *)
(* leaves a variable alone whose text cannot be converted.                 *)
LoadFile(t) ==
    /\ call[t].at = "read"
    /\ IF file = Broken
       THEN /\ call' = [call EXCEPT ![t] = NoCall]
            /\ UNCHANGED plain
       ELSE /\ plain' = IF registered /\ "plain" \in file.fine THEN file.plain ELSE plain
            /\ call' = IF "logs" \in file.fine
                       THEN [call EXCEPT ![t].at = "set", ![t].v = file.logs]
                       ELSE [call EXCEPT ![t] = NoCall]
    /\ overlap' = (overlap \/ Others(t, Listening \cup {"set", "store"}))
    /\ UNCHANGED <<disk, s_file2modifytime, m_val, registered, m_cbs,
                   m_loggers, crashed, changes, missed, own, given>>

(* The program sets the variable itself.                                   *)
SetByProgram(t, c) ==
    /\ call[t].at = "none" /\ changes < MaxChanges
    /\ changes' = changes + 1
    /\ own' = TRUE
    /\ call' = [call EXCEPT ![t].at = "set", ![t].v = c.logs]
    /\ UNCHANGED <<disk, loaded, m_val, registered, m_cbs, m_loggers, crashed,
                   overlap, missed, given>>

-----------------------------------------------------------------------------
(* setValue().                                                             *)

(* LogDefine::operator== compares the appenders with themselves.           *)
Same(d, e) == d.level = e.level

SameLogs(v, w) == \A l \in Loggers : Same(v[l], w[l])

(* What the listener has to do: define the loggers that are new or changed, *)
(* then disable those that are gone.                                       *)
Defined(old, new) == {l \in Loggers : new[l] # NoDef /\ ~Same(new[l], old[l])}

\* Mutant of Disabled: every logger without a definition, as the comment above
\* the second loop says.
DisabledAll(old, new) == {l \in Loggers : new[l] = NoDef}
Disabled(old, new) == {l \in Loggers : new[l] = NoDef /\ old[l] # NoDef}

Compare(t) ==
    /\ call[t].at = "set"
    /\ IF SameLogs(call[t].v, m_val)
       THEN /\ call' = [call EXCEPT ![t] = NoCall]
            /\ UNCHANGED overlap
       ELSE /\ call' = [call EXCEPT
                  ![t] = [@ EXCEPT
                     !.at = "listen",
                     !.todo = IF m_cbs THEN Defined(m_val, call[t].v) ELSE {},
                     !.gone = IF m_cbs THEN Disabled(m_val, call[t].v) ELSE {}]]
            /\ overlap' = (overlap \/ Others(t, Listening \cup {"store"}))
    /\ UNCHANGED <<disk, loaded, m_val, registered, m_cbs, m_loggers, crashed,
                   changes, missed, own, given>>

IsFirst(l, S) == l \in S /\ \A m \in S : l <= m

(* A definition that is changed and not new leaves logger null.  Level and *)
(* clearing are one step, for what the program gives in between is a step  *)
(* before for the appenders and after for the level ...                    *)
Define(t) ==
    /\ call[t].at = "listen"
    /\ \E l \in Loggers :
          /\ IsFirst(l, call[t].todo)
          /\ IF m_val[l] # NoDef
             THEN crashed' = TRUE /\ UNCHANGED <<m_loggers, call, given>>
             ELSE /\ m_loggers' = [m_loggers EXCEPT ![l] =
                         [level |-> call[t].v[l].level, appenders |-> NoAppenders]]
                  /\ given' = [given EXCEPT ![l] = NoGifts]
                  /\ call' = [call EXCEPT ![t].at = "fill"]
                  /\ UNCHANGED crashed
    /\ UNCHANGED <<disk, loaded, m_val, registered, m_cbs, changes, overlap,
                   missed, own>>

Shown(d) == [a \in Targets |-> IF Daemon /\ a = "stdout" THEN 0 ELSE d.appenders[a]]

(* ... and the new appenders the next.                                     *)
Fill(t) ==
    /\ call[t].at = "fill"
    /\ \E l \in Loggers :
          /\ IsFirst(l, call[t].todo)
          /\ m_loggers' = [m_loggers EXCEPT ![l].appenders = Plus(@, Shown(call[t].v[l]))]
          /\ call' = [call EXCEPT ![t].at = "listen", ![t].todo = @ \ {l}]
    /\ UNCHANGED <<disk, loaded, m_val, registered, m_cbs, crashed, changes, ghosts>>

Disable(t) ==
    /\ call[t].at = "listen" /\ call[t].todo = {}
    /\ \E l \in Loggers :
          /\ IsFirst(l, call[t].gone)
          /\ m_loggers' = [m_loggers EXCEPT ![l] =
                [level |-> NOTSET, appenders |-> NoAppenders]]
          /\ given' = IF m_val[l] = NoDef THEN given ELSE [given EXCEPT ![l] = NoGifts]
          /\ call' = [call EXCEPT ![t].gone = @ \ {l}]
    /\ UNCHANGED <<disk, loaded, m_val, registered, m_cbs, crashed, changes, overlap,
                   missed, own>>

(* The read lock is given up ...                                           *)
Unlock(t) ==
    /\ call[t].at = "listen" /\ call[t].todo = {} /\ call[t].gone = {}
    /\ call' = [call EXCEPT ![t].at = "store"]
    /\ UNCHANGED <<disk, loaded, m_val, registered, m_cbs, m_loggers, crashed,
                   changes, ghosts>>

(* ... and the value assigned under the write lock.                        *)
Store(t) ==
    /\ call[t].at = "store" /\ NobodyReads
    /\ m_val' = call[t].v
    /\ call' = [call EXCEPT ![t] = NoCall]
    /\ UNCHANGED <<disk, loaded, registered, m_cbs, m_loggers, crashed, changes,
                   ghosts>>

Listen(t) == Define(t) \/ Fill(t) \/ Disable(t)

SetValue(t) == Compare(t) \/ Listen(t) \/ Unlock(t) \/ Store(t)

Next ==
    /\ ~crashed
    /\ \/ Tick \/ Lookup \/ ClearListener
       \/ \E c \in Contents \cup {Broken} : Edit(c)
       \/ \E l \in Loggers :
             \/ UseLogger(l)
             \/ \E v \in GivenLevels : SetLevel(l, v)
             \/ \E a \in Targets : AddAppender(l, a)
       \/ \E t \in Threads :
             \/ \E force \in BOOLEAN : SeeFile(t, force)
             \/ LoadFile(t)
             \/ \E c \in Contents : SetByProgram(t, c)
             \/ SetValue(t)

Spec == Init /\ [][Next]_vars

-----------------------------------------------------------------------------
Quiet == ~crashed /\ \A t \in Threads : call[t].at = "none"

(* What a logger is follows its definition d: the level, and the appenders *)
(* of this definition or of another with the level, for a change of the    *)
(* appenders alone is not seen.  A logger whose definition is gone logs    *)
(* nowhere, and one that never had any is what the program made it.  The   *)
(* gifts g of the program since then come on top.                          *)
Follows(lg, l, d, g) ==
    /\ lg.level = IF g.level # NoGifts.level THEN g.level
                  ELSE IF d # NoDef THEN d.level ELSE NOTSET
    /\ IF d # NoDef
       THEN \E c \in Contents : Same(c.logs[l], d)
                               /\ lg.appenders = Plus(Shown(c.logs[l]), g.appenders)
       ELSE lg.appenders = g.appenders

LoggersFollowValue ==
    Quiet /\ m_cbs /\ ~overlap =>
        \A l \in Loggers :
            m_loggers[l] # NoLogger \/ m_val[l] # NoDef =>
                Follows(m_loggers[l], l, m_val[l], given[l])

(* The variables follow the file whose time has been recorded.             *)
ValueFollowsFile ==
    Quiet /\ ~overlap /\ ~missed /\ ~own
          /\ s_file2modifytime = mtime /\ file # Broken =>
        /\ "logs" \in file.fine => SameLogs(m_val, file.logs)
        /\ registered /\ "plain" \in file.fine => plain = file.plain

(* When no call is in progress, the loggers that the file defines or has   *)
(* defined are what it says, the others what the program made them, unlike *)
(* the comment at log.cpp:928 says (config.cc:98-133, config.h:399-447,    *)
(* log.cpp:866-939), unless two calls of setValue() overlapped, the file   *)
(* changed again in the recorded second, a value could not be converted,   *)
(* the plain variable came too late, or the program set a value by itself. *)
LoggersFollowFile == LoggersFollowValue /\ ValueFollowsFile
=============================================================================
