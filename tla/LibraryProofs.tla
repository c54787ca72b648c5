--------------------------- MODULE LibraryProofs ----------------------------
(***************************************************************************)
(* What ServerProofs, SupportProofs and HttpConnectionPoolProofs show of   *)
(* the parts of LibraryMC, as theorems about the instance that TLC runs.   *)
(* First, that LibraryMC behaves as the part that moves; then, for each    *)
(* part, that its module is the one that is proved about.                  *)
(***************************************************************************)
EXTENDS LibraryMC, TLAPS

\* What the constants are: descriptors are numbers and nobody is a fiber.
Params ==
    /\ NoFiber \notin Fibers /\ Fds \subseteq Nat
    /\ MaxSockets \in Nat /\ MaxCalls \in Nat

\* A behaviour of LibraryMC is one of the part that moves in it.
LEMMA LockRuns ==
    LibrarySpec => \/ [](part # "lk")
                   \/ [](part = "lk") /\ Lock!Spec
<1>1. LibraryInit /\ part = "lk" => Lock!Init
  BY DEF LibraryInit
<1>2. part = "lk" /\ [LibraryNext]_allVars => [Lock!Next]_(Lock!vars)
  BY DEF LibraryNext, allVars, Lock!starting, Lock!locking, Lock!vars
<1>3. part = "lk" /\ [LibraryNext]_allVars => (part = "lk")'
  BY DEF LibraryNext, allVars
<1>4. part # "lk" /\ [LibraryNext]_allVars => (part # "lk")'
  BY DEF LibraryNext, allVars
<1>5. ~(part = "lk") <=> part # "lk"
  OBVIOUS
<1>6. QED
  BY <1>1, <1>2, <1>3, <1>4, <1>5, PTL DEF LibrarySpec, Lock!Spec

LEMMA ConfRuns ==
    LibrarySpec => \/ [](part # "cf")
                   \/ [](part = "cf") /\ Conf!Spec
<1>1. LibraryInit /\ part = "cf" => Conf!Init
  BY DEF LibraryInit
<1>2. part = "cf" /\ [LibraryNext]_allVars => [Conf!Next]_(Conf!vars)
  BY DEF LibraryNext, allVars, Conf!disk, Conf!loaded, Conf!ghosts, Conf!vars
<1>3. part = "cf" /\ [LibraryNext]_allVars => (part = "cf")'
  BY DEF LibraryNext, allVars
<1>4. part # "cf" /\ [LibraryNext]_allVars => (part # "cf")'
  BY DEF LibraryNext, allVars
<1>5. ~(part = "cf") <=> part # "cf"
  OBVIOUS
<1>6. QED
  BY <1>1, <1>2, <1>3, <1>4, <1>5, PTL DEF LibrarySpec, Conf!Spec

LEMMA FormatRuns ==
    LibrarySpec => \/ [](part # "lf")
                   \/ [](part = "lf") /\ (Format!Init /\ [][Format!Next]_(Format!vars))
<1>1. LibraryInit /\ part = "lf" => Format!Init
  BY DEF LibraryInit
<1>2. part = "lf" /\ [LibraryNext]_allVars => [Format!Next]_(Format!vars)
  BY DEF LibraryNext, allVars, Format!vars
<1>3. part = "lf" /\ [LibraryNext]_allVars => (part = "lf")'
  BY DEF LibraryNext, allVars
<1>4. part # "lf" /\ [LibraryNext]_allVars => (part # "lf")'
  BY DEF LibraryNext, allVars
<1>5. ~(part = "lf") <=> part # "lf"
  OBVIOUS
<1>6. QED
  BY <1>1, <1>2, <1>3, <1>4, <1>5, PTL DEF LibrarySpec

LEMMA LogRuns ==
    LibrarySpec => \/ [](part # "lg")
                   \/ [](part = "lg") /\ Logging!Spec
<1>1. LibraryInit /\ part = "lg" => Logging!Init
  BY DEF LibraryInit
<1>2. part = "lg" /\ [LibraryNext]_allVars => [Logging!Next]_(Logging!vars)
  BY DEF LibraryNext, allVars, Logging!outside, Logging!appender, Logging!logger, Logging!ghosts, Logging!vars
<1>3. part = "lg" /\ [LibraryNext]_allVars => (part = "lg")'
  BY DEF LibraryNext, allVars
<1>4. part # "lg" /\ [LibraryNext]_allVars => (part # "lg")'
  BY DEF LibraryNext, allVars
<1>5. ~(part = "lg") <=> part # "lg"
  OBVIOUS
<1>6. QED
  BY <1>1, <1>2, <1>3, <1>4, <1>5, PTL DEF LibrarySpec, Logging!Spec

LEMMA TcpRuns ==
    LibrarySpec => \/ [](part # "tcp")
                   \/ [](part = "tcp") /\ Tcp!Spec
<1>1. LibraryInit /\ part = "tcp" => Tcp!Init
  BY DEF LibraryInit
<1>2. part = "tcp" /\ [LibraryNext]_allVars => [Tcp!Next]_(Tcp!vars)
  BY DEF LibraryNext, allVars, Tcp!vars
<1>3. part = "tcp" /\ [LibraryNext]_allVars => (part = "tcp")'
  BY DEF LibraryNext, allVars
<1>4. part # "tcp" /\ [LibraryNext]_allVars => (part # "tcp")'
  BY DEF LibraryNext, allVars
<1>5. ~(part = "tcp") <=> part # "tcp"
  OBVIOUS
<1>6. QED
  BY <1>1, <1>2, <1>3, <1>4, <1>5, PTL DEF LibrarySpec, Tcp!Spec

LEMMA WebRuns ==
    LibrarySpec => \/ [](part # "web")
                   \/ [](part = "web") /\ Web!Spec
<1>1. LibraryInit /\ part = "web" => Web!Init
  BY DEF LibraryInit
<1>2. part = "web" /\ [LibraryNext]_allVars => [Web!Next]_(Web!vars)
  BY DEF LibraryNext, allVars, Web!sessionVars, Web!tableVars, Web!vars
<1>3. part = "web" /\ [LibraryNext]_allVars => (part = "web")'
  BY DEF LibraryNext, allVars
<1>4. part # "web" /\ [LibraryNext]_allVars => (part # "web")'
  BY DEF LibraryNext, allVars
<1>5. ~(part = "web") <=> part # "web"
  OBVIOUS
<1>6. QED
  BY <1>1, <1>2, <1>3, <1>4, <1>5, PTL DEF LibrarySpec, Web!Spec

LEMMA BytesRun ==
    LibrarySpec => \/ [](part # "ba")
                   \/ [](part = "ba") /\ (Bytes!Init /\ [][Bytes!Next]_(Bytes!vars))
<1>1. LibraryInit /\ part = "ba" => Bytes!Init
  BY DEF LibraryInit
<1>2. part = "ba" /\ [LibraryNext]_allVars => [Bytes!Next]_(Bytes!vars)
  BY DEF LibraryNext, allVars, Bytes!bufVars, Bytes!vars
<1>3. part = "ba" /\ [LibraryNext]_allVars => (part = "ba")'
  BY DEF LibraryNext, allVars
<1>4. part # "ba" /\ [LibraryNext]_allVars => (part # "ba")'
  BY DEF LibraryNext, allVars
<1>5. ~(part = "ba") <=> part # "ba"
  OBVIOUS
<1>6. QED
  BY <1>1, <1>2, <1>3, <1>4, <1>5, PTL DEF LibrarySpec

LEMMA PoolRuns ==
    LibrarySpec => \/ [](part # "pool")
                   \/ [](part = "pool") /\ Pool!Spec
<1>1. LibraryInit /\ part = "pool" => Pool!Init
  BY DEF LibraryInit
<1>2. part = "pool" /\ [LibraryNext]_allVars => [Pool!Next]_(Pool!vars)
  BY DEF LibraryNext, allVars, Pool!poolVars, Pool!netVars, Pool!userVars, Pool!vars
<1>3. part = "pool" /\ [LibraryNext]_allVars => (part = "pool")'
  BY DEF LibraryNext, allVars
<1>4. part # "pool" /\ [LibraryNext]_allVars => (part # "pool")'
  BY DEF LibraryNext, allVars
<1>5. ~(part = "pool") <=> part # "pool"
  OBVIOUS
<1>6. QED
  BY <1>1, <1>2, <1>3, <1>4, <1>5, PTL DEF LibrarySpec, Pool!Spec

LEMMA ParserRuns ==
    LibrarySpec => \/ [](part # "hp")
                   \/ [](part = "hp") /\ (Parser!Init /\ [][Parser!Next]_(Parser!vars))
<1>1. LibraryInit /\ part = "hp" => Parser!Init
  BY DEF LibraryInit
<1>2. part = "hp" /\ [LibraryNext]_allVars => [Parser!Next]_(Parser!vars)
  BY DEF LibraryNext, allVars, Parser!vars
<1>3. part = "hp" /\ [LibraryNext]_allVars => (part = "hp")'
  BY DEF LibraryNext, allVars
<1>4. part # "hp" /\ [LibraryNext]_allVars => (part # "hp")'
  BY DEF LibraryNext, allVars
<1>5. ~(part = "hp") <=> part # "hp"
  OBVIOUS
<1>6. QED
  BY <1>1, <1>2, <1>3, <1>4, <1>5, PTL DEF LibrarySpec

LEMMA RequestRuns ==
    LibrarySpec => \/ [](part # "hr")
                   \/ [](part = "hr") /\ (Request!Init /\ [][Request!Next]_(Request!vars))
<1>1. LibraryInit /\ part = "hr" => Request!Init
  BY DEF LibraryInit
<1>2. part = "hr" /\ [LibraryNext]_allVars => [Request!Next]_(Request!vars)
  BY DEF LibraryNext, allVars, Request!sentVars, Request!vars
<1>3. part = "hr" /\ [LibraryNext]_allVars => (part = "hr")'
  BY DEF LibraryNext, allVars
<1>4. part # "hr" /\ [LibraryNext]_allVars => (part # "hr")'
  BY DEF LibraryNext, allVars
<1>5. ~(part = "hr") <=> part # "hr"
  OBVIOUS
<1>6. QED
  BY <1>1, <1>2, <1>3, <1>4, <1>5, PTL DEF LibrarySpec

\* SupportProofs has one clock, one bound of it and one set of calls for Config
\* and Log, so each has an instance of its own.
SupportProof == INSTANCE SupportProofs WITH
    MaxTime <- ConfTime, clock <- cf_clock, call <- cf_call, Threads <- Actors, object
    <- lk_object, thread <- lk_thread, m_id <- lk_m_id, m_cb <- lk_m_cb, m_semaphore <-
    lk_m_semaphore, kind <- lk_kind, writer <- lk_writer, readers <- lk_readers, guard
    <- lk_guard, scopes <- lk_scopes, strays <- lk_strays, misuse <- lk_misuse, Broken
    <- broken, file <- cf_file, mtime <- cf_mtime, s_file2modifytime <-
    cf_s_file2modifytime, m_val <- cf_m_val, registered <- cf_registered, plain <-
    cf_plain, m_cbs <- cf_m_cbs, m_loggers <- cf_m_loggers, crashed <- cf_crashed,
    changes <- cf_changes, overlap <- cf_overlap, missed <- cf_missed, own <- cf_own,
    path <- lg_path, since <- lg_since, m_filestream <- lg_m_filestream, m_lastTime <-
    lg_m_lastTime, m_reopenError <- lg_m_reopenError, m_level <- lg_m_level, m_appenders
    <- lg_m_appenders, events <- lg_events, accidents <- lg_accidents, spoiled <-
    lg_spoiled, broken <- lg_broken, late <- lg_late, Characters <- {"%", "d", "m", "{",
    "}"}, Patterns <- Patterns, Known <- {"%", "m"}, m_pattern <- lf_m_pattern, scan <-
    lf_i, tmp <- lf_tmp, patterns <- lf_patterns, dateformat <- lf_dateformat,
    parsing_string <- lf_parsing_string, m_items <- lf_m_items, m_error <- lf_m_error,
    formatted <- lf_done,
    Root <- 2, GivenLevels <- {500}, given <- cf_given

\* The module Locks in LibraryMC is the one that is proved about.
LEMMA LocksAreSame ==
    /\ SupportProof!Spec <=> Lock!Spec
    /\ SupportProof!TypeOK <=> Lock!TypeOK
    /\ SupportProof!GuardedIsExclusive <=> Lock!GuardedIsExclusive
<1>1. SupportProof!Spec <=> Lock!Spec
  BY
     DEF Lock!starting, SupportProof!starting, Lock!locking, SupportProof!locking,
       Lock!vars, SupportProof!vars, Lock!NoGuard, SupportProof!NoGuard, Lock!Init,
       SupportProof!Init, Lock!Construct, SupportProof!Construct, Lock!Touch,
       SupportProof!Touch, Lock!StoreId, SupportProof!StoreId, Lock!TakeCallback,
       SupportProof!TakeCallback, Lock!Notify, SupportProof!Notify, Lock!Wait,
       SupportProof!Wait, Lock!SetName, SupportProof!SetName, Lock!End, SupportProof!End,
       Lock!Join, SupportProof!Join, Lock!Destroy, SupportProof!Destroy, Lock!Modes,
       SupportProof!Modes, Lock!Enter, SupportProof!Enter, Lock!Acquire,
       SupportProof!Acquire, Lock!Lock, SupportProof!Lock, Lock!Release,
       SupportProof!Release, Lock!GiveBack, SupportProof!GiveBack, Lock!Unlock,
       SupportProof!Unlock, Lock!LockAgain, SupportProof!LockAgain, Lock!Leave,
       SupportProof!Leave, Lock!Guard, SupportProof!Guard, Lock!Start, SupportProof!Start,
       Lock!Next, SupportProof!Next, Lock!Spec, SupportProof!Spec
<1>2. SupportProof!TypeOK <=> Lock!TypeOK
  BY Zenon
     DEF Lock!TypeOK, SupportProof!TypeOK, Lock!Cardinality, SupportProof!Cardinality
<1>3. SupportProof!GuardedIsExclusive <=> Lock!GuardedIsExclusive
  BY Zenon
     DEF Lock!WritersAreAlone, SupportProof!WritersAreAlone, Lock!StartIsOrdered,
       SupportProof!StartIsOrdered, Lock!GuardedIsExclusive,
       SupportProof!GuardedIsExclusive
<1>4. QED
  BY <1>1, <1>2, <1>3

\* The guards of mutex.h and the start of a Thread, thread.cc: a writer is alone
\* in its section, and a constructed Thread has its id and callback.
THEOREM Exclusion ==
    ASSUME MaxScopes \in Nat, MaxStrays \in Nat
    PROVE  LibrarySpec => []GuardedIsExclusive
<1>1. SupportProof!Spec => []SupportProof!GuardedIsExclusive
  BY SupportProof!Exclusion
<1>2. /\ part # "lk" => GuardedIsExclusive
      /\ Lock!GuardedIsExclusive => GuardedIsExclusive
  BY DEF GuardedIsExclusive
<1>3. QED
  BY <1>1, <1>2, LocksAreSame, LockRuns, PTL

\* The module Config in LibraryMC is the one that is proved about.
LEMMA ConfIsSame ==
    /\ SupportProof!Conf!Spec <=> Conf!Spec
    /\ SupportProof!Conf!TypeOK <=> Conf!TypeOK
    /\ SupportProof!Conf!LoggersFollowFile <=> Conf!LoggersFollowFile
<1>1. SupportProof!Conf!Spec <=> Conf!Spec
  BY
     DEF Conf!disk, SupportProof!Conf!disk, Conf!loaded, SupportProof!Conf!loaded,
       Conf!ghosts, SupportProof!Conf!ghosts, Conf!vars, SupportProof!Conf!vars,
       Conf!INFO, SupportProof!Conf!INFO, Conf!NOTSET, SupportProof!Conf!NOTSET,
       Conf!NoAppenders, SupportProof!Conf!NoAppenders, Conf!NoDef,
       SupportProof!Conf!NoDef, Conf!NoLogger, SupportProof!Conf!NoLogger, Conf!NoGifts,
       SupportProof!Conf!NoGifts, Conf!NoLogs, SupportProof!Conf!NoLogs, Conf!NoCall,
       SupportProof!Conf!NoCall, Conf!One, SupportProof!Conf!One, Conf!Plus,
       SupportProof!Conf!Plus, Conf!NewLogger, SupportProof!Conf!NewLogger, Conf!Init,
       SupportProof!Conf!Init, Conf!Tick, SupportProof!Conf!Tick, Conf!Edit,
       SupportProof!Conf!Edit, Conf!Lookup, SupportProof!Conf!Lookup, Conf!GetLogger,
       SupportProof!Conf!GetLogger, Conf!UseLogger, SupportProof!Conf!UseLogger,
       Conf!Give, SupportProof!Conf!Give, Conf!SetLevel, SupportProof!Conf!SetLevel,
       Conf!AddAppender, SupportProof!Conf!AddAppender, Conf!Listening,
       SupportProof!Conf!Listening, Conf!NobodyReads, SupportProof!Conf!NobodyReads,
       Conf!Others, SupportProof!Conf!Others, Conf!ClearListener,
       SupportProof!Conf!ClearListener, Conf!SeeFile, SupportProof!Conf!SeeFile,
       Conf!LoadFile, SupportProof!Conf!LoadFile, Conf!SetByProgram,
       SupportProof!Conf!SetByProgram, Conf!Same, SupportProof!Conf!Same, Conf!SameLogs,
       SupportProof!Conf!SameLogs, Conf!Defined, SupportProof!Conf!Defined, Conf!Disabled,
       SupportProof!Conf!Disabled, Conf!Compare, SupportProof!Conf!Compare, Conf!IsFirst,
       SupportProof!Conf!IsFirst, Conf!Define, SupportProof!Conf!Define, Conf!Shown,
       SupportProof!Conf!Shown, Conf!Fill, SupportProof!Conf!Fill, Conf!Disable,
       SupportProof!Conf!Disable, Conf!Unlock, SupportProof!Conf!Unlock, Conf!Store,
       SupportProof!Conf!Store, Conf!Listen, SupportProof!Conf!Listen, Conf!SetValue,
       SupportProof!Conf!SetValue, Conf!Next, SupportProof!Conf!Next, Conf!Spec,
       SupportProof!Conf!Spec
<1>2. SupportProof!Conf!TypeOK <=> Conf!TypeOK
  BY Zenon
     DEF Conf!Definitions, SupportProof!Conf!Definitions, Conf!TypeOK,
       SupportProof!Conf!TypeOK
<1>3. SupportProof!Conf!LoggersFollowFile <=> Conf!LoggersFollowFile
  BY Zenon
     DEF Conf!NOTSET, SupportProof!Conf!NOTSET, Conf!NoAppenders,
       SupportProof!Conf!NoAppenders, Conf!NoDef, SupportProof!Conf!NoDef, Conf!NoLogger,
       SupportProof!Conf!NoLogger, Conf!NoGifts, SupportProof!Conf!NoGifts, Conf!Plus,
       SupportProof!Conf!Plus, Conf!Same, SupportProof!Conf!Same, Conf!SameLogs,
       SupportProof!Conf!SameLogs, Conf!Shown, SupportProof!Conf!Shown, Conf!Quiet,
       SupportProof!Conf!Quiet, Conf!Follows, SupportProof!Conf!Follows,
       Conf!LoggersFollowValue, SupportProof!Conf!LoggersFollowValue,
       Conf!ValueFollowsFile, SupportProof!Conf!ValueFollowsFile, Conf!LoggersFollowFile,
       SupportProof!Conf!LoggersFollowFile
<1>4. QED
  BY <1>1, <1>2, <1>3

\* The files of LibraryMC define loggers.
LEMMA ContentsAreLogs == SupportProof!ContentsAssumption
BY DEF SupportProof!ContentsAssumption, Contents, Both, Logs, Def, NoDef, Loggers, Targets,
       SupportProof!Conf!Definitions, SupportProof!Conf!NoDef, SupportProof!Conf!NoAppenders,
       SupportProof!Conf!NOTSET

\* LoadFromConfDir(), setValue() and the listener of "logs" (config.cc:98,
\* config.h:429, log.cpp:866): when no call is in progress the loggers are what
\* the file says, and those it never defined what the program made them.
THEOREM LoggersFollow == LibrarySpec => []LoggersFollowFile
<1>1. SupportProof!Conf!Spec => []SupportProof!Conf!LoggersFollowFile
  BY ContentsAreLogs, SupportProof!LoggersFollow
<1>2. /\ part # "cf" => LoggersFollowFile
      /\ Conf!LoggersFollowFile => LoggersFollowFile
  BY DEF LoggersFollowFile
<1>3. QED
  BY <1>1, <1>2, ConfIsSame, ConfRuns, PTL

\* The LogFormatter in LibraryMC is the one that is proved about.
LEMMA FormatIsSame ==
    /\ SupportProof!FormatSpec <=> Format!Init /\ [][Format!Next]_(Format!vars)
    /\ SupportProof!Format!TypeOK <=> Format!TypeOK
    /\ SupportProof!Format!ItemsMatchPattern <=> Format!ItemsMatchPattern
<1>1. SupportProof!FormatSpec <=> Format!Init /\ [][Format!Next]_(Format!vars)
  BY Zenon
     DEF SupportProof!FormatSpec, Format!vars, SupportProof!Format!vars, Format!Text,
       SupportProof!Format!Text, Format!Conversion, SupportProof!Format!Conversion,
       Format!Dated, SupportProof!Format!Dated, Format!Init, SupportProof!Format!Init,
       Format!At, SupportProof!Format!At, Format!Scanning, SupportProof!Format!Scanning,
       Format!Literal, SupportProof!Format!Literal, Format!Percent,
       SupportProof!Format!Percent, Format!Convert, SupportProof!Format!Convert,
       Format!PlainDate, SupportProof!Format!PlainDate, Format!Upto,
       SupportProof!Format!Upto, Format!Closing, SupportProof!Format!Closing, Format!Date,
       SupportProof!Format!Date, Format!DateAtEnd, SupportProof!Format!DateAtEnd,
       Format!Item, SupportProof!Format!Item, Format!Unknown, SupportProof!Format!Unknown,
       Format!Make, SupportProof!Format!Make, Format!Next, SupportProof!Format!Next
<1>2. SupportProof!Format!TypeOK <=> Format!TypeOK
  BY Zenon
     DEF Format!TypeOK, SupportProof!Format!TypeOK, Format!ToSet,
       SupportProof!Format!ToSet
<1>3. SupportProof!Format!ItemsMatchPattern <=> Format!ItemsMatchPattern
  BY Zenon
     DEF Format!Text, SupportProof!Format!Text, Format!Conversion,
       SupportProof!Format!Conversion, Format!Dated, SupportProof!Format!Dated, Format!At,
       SupportProof!Format!At, Format!Upto, SupportProof!Format!Upto, Format!Meaning,
       SupportProof!Format!Meaning, Format!OneDate, SupportProof!Format!OneDate,
       Format!ItemsMatchPattern, SupportProof!Format!ItemsMatchPattern, Format!IsPrefix,
       SupportProof!Format!IsPrefix
<1>4. QED
  BY <1>1, <1>2, <1>3

\* The patterns of LibraryMC are sequences of characters.
LEMMA PatternsAreText == SupportProof!PatternsAssumption
<1> DEFINE chars == {"%", "d", "m", "{", "}"}
<1>1. "end" \notin chars
  BY Zenon
<1>2. LongPattern \in [1..12 -> chars]
  <2>1. ASSUME NEW S, NEW p \in S, NEW d \in S, NEW o \in S, NEW m \in S, NEW c \in S
        PROVE  <<p, d, o, m, c, p, c, p, d, o, m, c>> \in [1..12 -> S]
    OBVIOUS
  <2>2. "%" \in chars /\ "d" \in chars /\ "{" \in chars /\ "m" \in chars /\ "}" \in chars
    BY Zenon
  <2> HIDE DEF chars
  <2>3. QED
    BY Zenon, <2>1, <2>2 DEF LongPattern
<1>3. \A p \in Patterns : \E n \in Nat : p \in [1..n -> chars]
  <2>1. \A n \in 0..5 : n \in Nat
    OBVIOUS
  <2>2. 12 \in Nat
    OBVIOUS
  <2>3. QED
    BY Zenon, <1>2, <2>1, <2>2 DEF Patterns
<1> HIDE DEF chars
<1>4. ASSUME NEW n \in Nat, NEW p \in [1..n -> chars]
      PROVE  p \in Seq(chars) /\ \A k \in 1..Len(p) : p[k] # "end"
  <2>1. /\ p = [k \in 1..n |-> p[k]]
        /\ \A k \in 1..n : p[k] \in chars
    OBVIOUS
  <2>2. \A k \in 1..n : p[k] # "end"
    BY Zenon, <1>1, <2>1
  <2>3. p \in Seq(chars) /\ Len(p) = n
    BY <2>1, <2>2
  <2>4. QED
    BY <2>2, <2>3 
<1>5. QED
  BY Zenon, <1>3, <1>4 DEF SupportProof!PatternsAssumption, chars

\* LogFormatter::init(), log.cpp:288-450: the items are what the pattern means, and
\* with an unknown conversion the beginning of it.
THEOREM ItemsAreMeant == LibrarySpec => []ItemsMatchPattern
<1>1. SupportProof!FormatSpec => []SupportProof!Format!ItemsMatchPattern
  BY PatternsAreText, SupportProof!ItemsMatch
<1>2. /\ part # "lf" => ItemsMatchPattern
      /\ Format!ItemsMatchPattern => ItemsMatchPattern
  BY DEF ItemsMatchPattern
<1>3. QED
  BY <1>1, <1>2, FormatIsSame, FormatRuns, PTL

LogProof == INSTANCE SupportProofs WITH
    MaxTime <- LogTime, clock <- lg_clock, call <- lg_call, Threads <- Actors, object <-
    lk_object, thread <- lk_thread, m_id <- lk_m_id, m_cb <- lk_m_cb, m_semaphore <-
    lk_m_semaphore, kind <- lk_kind, writer <- lk_writer, readers <- lk_readers, guard
    <- lk_guard, scopes <- lk_scopes, strays <- lk_strays, misuse <- lk_misuse, Broken
    <- broken, file <- cf_file, mtime <- cf_mtime, s_file2modifytime <-
    cf_s_file2modifytime, m_val <- cf_m_val, registered <- cf_registered, plain <-
    cf_plain, m_cbs <- cf_m_cbs, m_loggers <- cf_m_loggers, crashed <- cf_crashed,
    changes <- cf_changes, overlap <- cf_overlap, missed <- cf_missed, own <- cf_own,
    path <- lg_path, since <- lg_since, m_filestream <- lg_m_filestream, m_lastTime <-
    lg_m_lastTime, m_reopenError <- lg_m_reopenError, m_level <- lg_m_level, m_appenders
    <- lg_m_appenders, events <- lg_events, accidents <- lg_accidents, spoiled <-
    lg_spoiled, broken <- lg_broken, late <- lg_late, Characters <- {"%", "d", "m", "{",
    "}"}, Patterns <- Patterns, Known <- {"%", "m"}, m_pattern <- lf_m_pattern, scan <-
    lf_i, tmp <- lf_tmp, patterns <- lf_patterns, dateformat <- lf_dateformat,
    parsing_string <- lf_parsing_string, m_items <- lf_m_items, m_error <- lf_m_error,
    formatted <- lf_done,
    Root <- 2, GivenLevels <- {500}, given <- cf_given

\* The module Log in LibraryMC is the one that is proved about.
LEMMA LogIsSame ==
    /\ LogProof!Logging!Spec <=> Logging!Spec
    /\ LogProof!Logging!TypeOK <=> Logging!TypeOK
    /\ LogProof!Logging!LogReachesFile <=> Logging!LogReachesFile
<1>1. LogProof!Logging!Spec <=> Logging!Spec
  BY
     DEF Logging!outside, LogProof!Logging!outside, Logging!appender,
       LogProof!Logging!appender, Logging!logger, LogProof!Logging!logger, Logging!ghosts,
       LogProof!Logging!ghosts, Logging!vars, LogProof!Logging!vars, Logging!StartTime,
       LogProof!Logging!StartTime, Logging!Period, LogProof!Logging!Period, Logging!INFO,
       LogProof!Logging!INFO, Logging!NoEvent, LogProof!Logging!NoEvent, Logging!Opened,
       LogProof!Logging!Opened, Logging!Init, LogProof!Logging!Init, Logging!Tick,
       LogProof!Logging!Tick, Logging!Accident, LogProof!Logging!Accident, Logging!Rotate,
       LogProof!Logging!Rotate, Logging!Fill, LogProof!Logging!Fill, Logging!SetLevel,
       LogProof!Logging!SetLevel, Logging!DelAppender, LogProof!Logging!DelAppender,
       Logging!AddAppender, LogProof!Logging!AddAppender, Logging!To, LogProof!Logging!To,
       Logging!Done, LogProof!Logging!Done, Logging!Make, LogProof!Logging!Make,
       Logging!Walk, LogProof!Logging!Walk, Logging!Check, LogProof!Logging!Check,
       Logging!Reopen, LogProof!Logging!Reopen, Logging!Stamp, LogProof!Logging!Stamp,
       Logging!Due, LogProof!Logging!Due, Logging!Test, LogProof!Logging!Test,
       Logging!Write, LogProof!Logging!Write, Logging!LogEvent, LogProof!Logging!LogEvent,
       Logging!Next, LogProof!Logging!Next, Logging!Spec, LogProof!Logging!Spec
<1>2. LogProof!Logging!TypeOK <=> Logging!TypeOK
  BY Zenon
     DEF Logging!StartTime, LogProof!Logging!StartTime, Logging!TypeOK,
       LogProof!Logging!TypeOK
<1>3. LogProof!Logging!LogReachesFile <=> Logging!LogReachesFile
  BY Zenon
     DEF Logging!LogReachesFile, LogProof!Logging!LogReachesFile
<1>4. QED
  BY <1>1, <1>2, <1>3

\* FileLogAppender::log(), log.cpp:535: an event reaches the file that has the
\* name, three seconds after the last change of it.
THEOREM EventsReachFile == LibrarySpec => []LogReachesFile
<1>1. LogProof!Logging!Spec => []LogProof!Logging!LogReachesFile
  BY LogProof!EventsReachFile
<1>2. /\ part # "lg" => LogReachesFile
      /\ Logging!LogReachesFile => LogReachesFile
  BY DEF LogReachesFile
<1>3. QED
  BY <1>1, <1>2, LogIsSame, LogRuns, PTL

ServerProof == INSTANCE ServerProofs WITH
    m_isStop <- tcp_m_isStop, m_socks <- tcp_m_socks, lstate <- tcp_lstate, loop <-
    tcp_loop, stops <- tcp_stops, queued <- tcp_queued, todo <- tcp_todo, at <- tcp_at,
    client <- tcp_client, aborted <- tcp_aborted, restarted <- tcp_restarted, dropped <-
    tcp_dropped, slipped <- tcp_slipped, fiber <- web_at, sent <- web_sent, inbox <-
    web_inbox, request <- web_request, slt <- web_slt, answers <- web_answers, gone <-
    web_gone, piped <- web_piped, m_datas <- web_m_datas, m_globs <- web_m_globs, edits
    <- web_edits, BaseSize <- 3, MaxCapacity <- 9, MaxOps <- 4, Width <- 8, Fixeds <-
    {258}, Ints <- {-128}, Strings <- {<<>>, <<8, 9>>}, nodes <- ba_nodes, capacity <-
    ba_capacity, m_position <- ba_m_position, m_size <- ba_m_size, m_cur <- ba_m_cur,
    endian <- ba_endian, saved <- ba_file, items <- ba_items, last <- ba_last, ops <-
    ba_ops,
    contexts <- m_datas, table_size <- size

\* The TcpServer in LibraryMC is the one that is proved about.
LEMMA TcpIsSame ==
    /\ ServerProof!Spec <=> Tcp!Spec
    /\ ServerProof!TypeOK <=> Tcp!TypeOK
    /\ ServerProof!StopReachesEveryLoop <=> Tcp!StopReachesEveryLoop
<1>1. ServerProof!Spec <=> Tcp!Spec
  BY
     DEF Tcp!Loops, ServerProof!Loops, Tcp!Nothing, ServerProof!Nothing, Tcp!vars,
       ServerProof!vars, Tcp!Init, ServerProof!Init, Tcp!Alive, ServerProof!Alive,
       Tcp!Held, ServerProof!Held, Tcp!Reset, ServerProof!Reset, Tcp!Bind,
       ServerProof!Bind, Tcp!Start, ServerProof!Start, Tcp!Stop, ServerProof!Stop,
       Tcp!Closing, ServerProof!Closing, Tcp!BeginClosing, ServerProof!BeginClosing,
       Tcp!Cancelled, ServerProof!Cancelled, Tcp!Target, ServerProof!Target,
       Tcp!CancelAll, ServerProof!CancelAll, Tcp!CloseFd, ServerProof!CloseFd,
       Tcp!EndClosing, ServerProof!EndClosing, Tcp!LoopStep, ServerProof!LoopStep,
       Tcp!LoopEnds, ServerProof!LoopEnds, Tcp!LoopTest, ServerProof!LoopTest,
       Tcp!Waiting, ServerProof!Waiting, Tcp!Accept, ServerProof!Accept, Tcp!AddEvent,
       ServerProof!AddEvent, Tcp!Report, ServerProof!Report, Tcp!Connect,
       ServerProof!Connect, Tcp!Next, ServerProof!Next, Tcp!Spec, ServerProof!Spec,
       Tcp!Cardinality, ServerProof!Cardinality
<1>2. ServerProof!TypeOK <=> Tcp!TypeOK
  BY Zenon
     DEF Tcp!Loops, ServerProof!Loops, Tcp!TypeOK, ServerProof!TypeOK
<1>3. ServerProof!StopReachesEveryLoop <=> Tcp!StopReachesEveryLoop
  BY Zenon
     DEF Tcp!Loops, ServerProof!Loops, Tcp!Alive, ServerProof!Alive,
       Tcp!StopReachesEveryLoop, ServerProof!StopReachesEveryLoop
<1>4. QED
  BY <1>1, <1>2, <1>3

\* TcpServer::stop(), tcp_server.cc:134: it reaches every accept loop but those
\* that a failed bind() has dropped or that were being registered.
THEOREM StopReaches ==
    ASSUME MaxLoops \in Nat
    PROVE  LibrarySpec => []StopReachesEveryLoop
<1>1. ServerProof!Spec => []ServerProof!StopReachesEveryLoop
  BY ServerProof!StopReaches
<1>2. /\ part # "tcp" => StopReachesEveryLoop
      /\ Tcp!StopReachesEveryLoop => StopReachesEveryLoop
  BY DEF StopReachesEveryLoop
<1>3. QED
  BY <1>1, <1>2, TcpIsSame, TcpRuns, PTL

\* The HttpServer in LibraryMC is the one that is proved about.
LEMMA WebIsSame ==
    /\ ServerProof!Http!Spec <=> Web!Spec
    /\ ServerProof!Http!TypeOK <=> Web!TypeOK
    /\ ServerProof!Http!AnswersMatchRequests <=> Web!AnswersMatchRequests
<1>1. ServerProof!Http!Spec <=> Web!Spec
  BY
     DEF Web!Default, ServerProof!Http!Default, Web!None, ServerProof!Http!None,
       Web!Patterns, ServerProof!Http!Patterns, Web!sessionVars,
       ServerProof!Http!sessionVars, Web!tableVars, ServerProof!Http!tableVars, Web!vars,
       ServerProof!Http!vars, Web!NoRequest, ServerProof!Http!NoRequest, Web!Init,
       ServerProof!Http!Init, Web!Edit, ServerProof!Http!Edit, Web!First,
       ServerProof!Http!First, Web!Without, ServerProof!Http!Without, Web!AddServlet,
       ServerProof!Http!AddServlet, Web!DelServlet, ServerProof!Http!DelServlet,
       Web!AddGlobServlet, ServerProof!Http!AddGlobServlet, Web!DelGlobServlet,
       ServerProof!Http!DelGlobServlet, Web!MatchedServlet,
       ServerProof!Http!MatchedServlet, Web!Session, ServerProof!Http!Session,
       Web!HandleClient, ServerProof!Http!HandleClient, Web!Recv, ServerProof!Http!Recv,
       Web!RecvFails, ServerProof!Http!RecvFails, Web!Dispatch, ServerProof!Http!Dispatch,
       Web!SendResponse, ServerProof!Http!SendResponse, Web!ClientSends,
       ServerProof!Http!ClientSends, Web!ClientCloses, ServerProof!Http!ClientCloses,
       Web!Next, ServerProof!Http!Next, Web!Spec, ServerProof!Http!Spec, Web!RemoveAt,
       ServerProof!Http!RemoveAt
<1>2. ServerProof!Http!TypeOK <=> Web!TypeOK
  BY Zenon
     DEF Web!Default, ServerProof!Http!Default, Web!None, ServerProof!Http!None,
       Web!TypeOK, ServerProof!Http!TypeOK
<1>3. ServerProof!Http!AnswersMatchRequests <=> Web!AnswersMatchRequests
  BY Zenon
     DEF Web!AnswersMatchRequests, ServerProof!Http!AnswersMatchRequests
<1>4. QED
  BY <1>1, <1>2, <1>3

\* HttpServer::handleClient(), http_server.cc:31: a session answers the requests
\* of its client in their order, and a client that waits misses none.
THEOREM AnswersMatch == LibrarySpec => []AnswersMatchRequests
<1>1. ServerProof!Http!Spec => []ServerProof!Http!AnswersMatchRequests
  BY ServerProof!AnswersMatch
<1>2. /\ part # "web" => AnswersMatchRequests
      /\ Web!AnswersMatchRequests => AnswersMatchRequests
  BY DEF AnswersMatchRequests
<1>3. QED
  BY <1>1, <1>2, WebIsSame, WebRuns, PTL

\* The ByteArray in LibraryMC is the one that is proved about.
LEMMA BytesAreSame ==
    /\ ServerProof!BufferSpec <=> Bytes!Init /\ [][Bytes!Next]_(Bytes!vars)
    /\ ServerProof!Buffer!TypeOK <=> Bytes!TypeOK
    /\ ServerProof!Buffer!RoundTrip <=> Bytes!RoundTrip
<1>1. ServerProof!BufferSpec <=> Bytes!Init /\ [][Bytes!Next]_(Bytes!vars)
  BY Zenon
     DEF ServerProof!BufferSpec, Bytes!Null, ServerProof!Buffer!Null, Bytes!Junk,
       ServerProof!Buffer!Junk, Bytes!Crash, ServerProof!Buffer!Crash, Bytes!bufVars,
       ServerProof!Buffer!bufVars, Bytes!vars, ServerProof!Buffer!vars, Bytes!Fresh,
       ServerProof!Buffer!Fresh, Bytes!NoRead, ServerProof!Buffer!NoRead, Bytes!Init,
       ServerProof!Buffer!Init, Bytes!Digits, ServerProof!Buffer!Digits, Bytes!Fixed,
       ServerProof!Buffer!Fixed, Bytes!FromFixed, ServerProof!Buffer!FromFixed,
       Bytes!EncodeZigzag, ServerProof!Buffer!EncodeZigzag, Bytes!DecodeZigzag,
       ServerProof!Buffer!DecodeZigzag, Bytes!MaxVarint, ServerProof!Buffer!MaxVarint,
       Bytes!Varint, ServerProof!Buffer!Varint, Bytes!FromVarint,
       ServerProof!Buffer!FromVarint, Bytes!CodeOf, ServerProof!Buffer!CodeOf,
       Bytes!After, ServerProof!Buffer!After, Bytes!Walk, ServerProof!Buffer!Walk,
       Bytes!AddCapacity, ServerProof!Buffer!AddCapacity, Bytes!Stored,
       ServerProof!Buffer!Stored, Bytes!Moved, ServerProof!Buffer!Moved, Bytes!Intact,
       ServerProof!Buffer!Intact, Bytes!Op, ServerProof!Buffer!Op, Bytes!Write,
       ServerProof!Buffer!Write, Bytes!WriteFixed, ServerProof!Buffer!WriteFixed,
       Bytes!WriteInt, ServerProof!Buffer!WriteInt, Bytes!WriteString,
       ServerProof!Buffer!WriteString, Bytes!ReadSize, ServerProof!Buffer!ReadSize,
       Bytes!Written, ServerProof!Buffer!Written, Bytes!Took, ServerProof!Buffer!Took,
       Bytes!Reading, ServerProof!Buffer!Reading, Bytes!ReadFixed,
       ServerProof!Buffer!ReadFixed, Bytes!ReadInt, ServerProof!Buffer!ReadInt,
       Bytes!ReadString, ServerProof!Buffer!ReadString, Bytes!Peek,
       ServerProof!Buffer!Peek, Bytes!Seek, ServerProof!Buffer!Seek, Bytes!SetPosition,
       ServerProof!Buffer!SetPosition, Bytes!Clear, ServerProof!Buffer!Clear,
       Bytes!SetIsLittleEndian, ServerProof!Buffer!SetIsLittleEndian, Bytes!Place,
       ServerProof!Buffer!Place, Bytes!Saved, ServerProof!Buffer!Saved, Bytes!WriteToFile,
       ServerProof!Buffer!WriteToFile, Bytes!ReadFromFile,
       ServerProof!Buffer!ReadFromFile, Bytes!Receive, ServerProof!Buffer!Receive,
       Bytes!Send, ServerProof!Buffer!Send, Bytes!Next, ServerProof!Buffer!Next,
       Bytes!Min, ServerProof!Buffer!Min, Bytes!FoldRight, ServerProof!Buffer!FoldRight,
       Bytes!MapThenFoldSet, ServerProof!Buffer!MapThenFoldSet, Bytes!Reverse,
       ServerProof!Buffer!Reverse
<1>2. ServerProof!Buffer!TypeOK <=> Bytes!TypeOK
  BY Zenon
     DEF Bytes!Junk, ServerProof!Buffer!Junk, Bytes!TypeOK, ServerProof!Buffer!TypeOK
<1>3. ServerProof!Buffer!RoundTrip <=> Bytes!RoundTrip
  BY Zenon
     DEF Bytes!Null, ServerProof!Buffer!Null, Bytes!CursorFollowsPosition,
       ServerProof!Buffer!CursorFollowsPosition, Bytes!EmptyAtTheEnd,
       ServerProof!Buffer!EmptyAtTheEnd, Bytes!ReadsWhatWasWritten,
       ServerProof!Buffer!ReadsWhatWasWritten, Bytes!RoundTrip,
       ServerProof!Buffer!RoundTrip
<1>4. QED
  BY <1>1, <1>2, <1>3

\* The codec LibraryMC checks on every integer of eight bits is the one that is
\* assumed of ByteArray's values.
LEMMA SameCodec ==
    ASSUME NEW v
    PROVE  Bytes!Decodable(v) <=> ServerProof!Buffer!Decodable(v)
<1>1. Bytes!CodeOf(v) = ServerProof!Buffer!CodeOf(v)
  BY Zenon
     DEF Bytes!EncodeZigzag, ServerProof!Buffer!EncodeZigzag, Bytes!MaxVarint,
       ServerProof!Buffer!MaxVarint, Bytes!Varint, ServerProof!Buffer!Varint, Bytes!CodeOf,
       ServerProof!Buffer!CodeOf
<1> DEFINE code == Bytes!CodeOf(v)
<1>2. Bytes!DecodeZigzag(Bytes!FromVarint(code))
        = ServerProof!Buffer!DecodeZigzag(ServerProof!Buffer!FromVarint(code))
  BY Zenon
     DEF Bytes!DecodeZigzag, ServerProof!Buffer!DecodeZigzag, Bytes!FromVarint,
       ServerProof!Buffer!FromVarint, Bytes!FoldRight, ServerProof!Buffer!FoldRight,
       Bytes!MapThenFoldSet, ServerProof!Buffer!MapThenFoldSet, Bytes!Min,
       ServerProof!Buffer!Min
<1>3. Bytes!MaxVarint = ServerProof!Buffer!MaxVarint
  BY Zenon DEF Bytes!MaxVarint, ServerProof!Buffer!MaxVarint
<1>4. QED
  BY Zenon, <1>1, <1>2, <1>3 DEF Bytes!Decodable, ServerProof!Buffer!Decodable

\* What LibraryMC takes for the sizes and the values of ByteArray is as it has to
\* be.
LEMMA BytesConstants == ServerProof!Sizes /\ ServerProof!Values
<1>1. ServerProof!Sizes
  BY DEF ServerProof!Sizes
<1>2. -128 \in -128..127
  OBVIOUS
<1>3. ServerProof!Buffer!Decodable(-128)
  BY <1>2, IntsDecode, SameCodec
<1>4. 258 \in ServerProof!Word /\ 0 \in ServerProof!Word /\ 2 \in ServerProof!Word
  BY DEF ServerProof!Word
<1>5. 8 \in ServerProof!Octet /\ 9 \in ServerProof!Octet
  BY DEF ServerProof!Octet
<1>6. <<8, 9>> \in Seq(ServerProof!Octet) /\ Len(<<8, 9>>) = 2
  BY <1>5
<1>7. <<>> \in Seq(ServerProof!Octet) /\ Len(<<>>) = 0
  OBVIOUS
<1>8. \A s \in {<<>>, <<8, 9>>} : s \in Seq(ServerProof!Octet) /\ Len(s) \in ServerProof!Word
  BY Zenon, <1>4, <1>6, <1>7
<1>9. QED
  BY <1>1, <1>3, <1>4, <1>8 DEF ServerProof!Values

\* ByteArray, bytearray.cc:97-540: what is written is what is read, whatever blocks
\* it lies in, but for an empty string at the very end of the chain, and the two cursors of the array never part.
THEOREM BytesComeBack == LibrarySpec => []RoundTrip
<1>1. ServerProof!BufferSpec => []ServerProof!Buffer!RoundTrip
  BY BytesConstants, ServerProof!RoundTrips
<1>2. /\ part # "ba" => RoundTrip
      /\ Bytes!RoundTrip => RoundTrip
  BY DEF RoundTrip
<1>3. QED
  BY <1>1, <1>2, BytesAreSame, BytesRun, PTL

\* The hook layer in LibraryMC is the one that is proved about.
LEMMA HookIsSame ==
    /\ ServerProof!Hook!Spec <=> Spec
    /\ ServerProof!Hook!TypeOK <=> TypeOK
    /\ ServerProof!Hook!TimeoutIsOwn <=> TimeoutIsOwn
    /\ ServerProof!Hook!OnlyEarlyTimersStrand <=> OnlyEarlyTimersStrand
    /\ ServerProof!Hook!ConnectReportsTheTruth <=> ConnectReportsTheTruth
    /\ ServerProof!Hook!ContextIsOfSocket <=> ContextIsOfSocket
<1>1. ServerProof!Hook!Spec <=> Spec
  BY
     DEF Event, ServerProof!Hook!Event, Sockets, ServerProof!Hook!Sockets, Closed,
       ServerProof!Hook!Closed, NoCtx, ServerProof!Hook!NoCtx, Nobody,
       ServerProof!Hook!Nobody, sockVars, ServerProof!Hook!sockVars, tableVars,
       ServerProof!Hook!tableVars, waitVars, ServerProof!Hook!waitVars, timerVars,
       ServerProof!Hook!timerVars, fiberVars, ServerProof!Hook!fiberVars, vars,
       ServerProof!Hook!vars, NoCall, ServerProof!Hook!NoCall, Init,
       ServerProof!Hook!Init, Goto, ServerProof!Hook!Goto, Get, ServerProof!Hook!Get,
       Enter, ServerProof!Hook!Enter, Return, ServerProof!Hook!Return, Step,
       ServerProof!Hook!Step, Using, ServerProof!Hook!Using, Exclusive,
       ServerProof!Hook!Exclusive, Socket, ServerProof!Hook!Socket, LookUp,
       ServerProof!Hook!LookUp, Create, ServerProof!Hook!Create, Watched,
       ServerProof!Hook!Watched, Wake, ServerProof!Hook!Wake, Close,
       ServerProof!Hook!Close, Del, ServerProof!Hook!Del, CloseSocket,
       ServerProof!Hook!CloseSocket, CloseUnhooked, ServerProof!Hook!CloseUnhooked,
       Options, ServerProof!Hook!Options, Fcntl, ServerProof!Hook!Fcntl, Ioctl,
       ServerProof!Hook!Ioctl, SetTimeout, ServerProof!Hook!SetTimeout, DoIo,
       ServerProof!Hook!DoIo, Try, ServerProof!Hook!Try, TimerOf,
       ServerProof!Hook!TimerOf, Arm, ServerProof!Hook!Arm, Cancelling,
       ServerProof!Hook!Cancelling, Registrable, ServerProof!Hook!Registrable, AddEvent,
       ServerProof!Hook!AddEvent, AddEventFails, ServerProof!Hook!AddEventFails,
       AddEventAborts, ServerProof!Hook!AddEventAborts, Resume, ServerProof!Hook!Resume,
       Connect, ServerProof!Hook!Connect, SockOpt, ServerProof!Hook!SockOpt, TimerExpires,
       ServerProof!Hook!TimerExpires, TinfoLives, ServerProof!Hook!TinfoLives, Callback,
       ServerProof!Hook!Callback, CancelEvent, ServerProof!Hook!CancelEvent, ConnectEnds,
       ServerProof!Hook!ConnectEnds, Report, ServerProof!Hook!Report, Call,
       ServerProof!Hook!Call, Next, ServerProof!Hook!Next, Spec, ServerProof!Hook!Spec,
       Cardinality, ServerProof!Hook!Cardinality
<1>2. ServerProof!Hook!TypeOK <=> TypeOK
  BY Zenon
     DEF Event, ServerProof!Hook!Event, Sockets, ServerProof!Hook!Sockets, Closed,
       ServerProof!Hook!Closed, TypeOK, ServerProof!Hook!TypeOK
<1>3. ServerProof!Hook!TimeoutIsOwn <=> TimeoutIsOwn
  BY Zenon
     DEF TimeoutIsOwn, ServerProof!Hook!TimeoutIsOwn
<1>4. ServerProof!Hook!OnlyEarlyTimersStrand <=> OnlyEarlyTimersStrand
  BY Zenon
     DEF Cancelling, ServerProof!Hook!Cancelling, Overdue, ServerProof!Hook!Overdue,
       OnlyEarlyTimersStrand, ServerProof!Hook!OnlyEarlyTimersStrand
<1>5. ServerProof!Hook!ConnectReportsTheTruth <=> ConnectReportsTheTruth
  BY Zenon
     DEF ConnectReportsTheTruth, ServerProof!Hook!ConnectReportsTheTruth
<1>6. ServerProof!Hook!ContextIsOfSocket <=> ContextIsOfSocket
  BY Zenon
     DEF Closed, ServerProof!Hook!Closed, NoCtx, ServerProof!Hook!NoCtx, Get,
       ServerProof!Hook!Get, ContextIsOfSocket, ServerProof!Hook!ContextIsOfSocket
<1>7. QED
  BY <1>1, <1>2, <1>3, <1>4, <1>5, <1>6

\* TypeOK: the variables keep their types, and only a parked fiber is
\* registered with the IOManager or scheduled by it.
THEOREM TypeCorrect ==
    ASSUME Params
    PROVE  Spec => []TypeOK
<1>1. ServerProof!Params
  BY DEF Params, ServerProof!Params
<1>2. ServerProof!Hook!Spec => []ServerProof!Hook!TypeOK
  BY <1>1, ServerProof!HookTypeCorrect
<1>3. QED
  BY <1>2, HookIsSame, PTL

\* TimeoutIsOwn: do_io() and connect_with_timeout() return ETIMEDOUT only when
\* a timer of the very call has expired, however late the callbacks of earlier
\* calls run and whatever other fibers do with the descriptor.
THEOREM TimeoutsAreOwn ==
    ASSUME Params
    PROVE  Spec => []TimeoutIsOwn
<1>1. ServerProof!Params
  BY DEF Params, ServerProof!Params
<1>2. ServerProof!Hook!Spec => []ServerProof!Hook!TimeoutIsOwn
  BY <1>1, ServerProof!TimeoutsAreOwn
<1>3. QED
  BY <1>2, HookIsSame, PTL

\* OnlyEarlyTimersStrand: a fiber whose timeout has passed stays parked only
\* if the callback was through before its event was registered, or close() was
\* called for its descriptor.
THEOREM TimeoutsResume ==
    ASSUME Params
    PROVE  Spec => []OnlyEarlyTimersStrand
<1>1. ServerProof!Params
  BY DEF Params, ServerProof!Params
<1>2. ServerProof!Hook!Spec => []ServerProof!Hook!OnlyEarlyTimersStrand
  BY <1>1, ServerProof!TimeoutsResume
<1>3. QED
  BY <1>2, HookIsSame, PTL

\* ConnectReportsTheTruth: connect() returns success for a connection that is
\* not established only after close(), a cancelled wait or an addEvent() that
\* failed, as it does on a number whose last socket left its events behind.
THEOREM ConnectIsTrue ==
    ASSUME Params
    PROVE  Spec => []ConnectReportsTheTruth
<1>1. ServerProof!Params
  BY DEF Params, ServerProof!Params
<1>2. ServerProof!Hook!Spec => []ServerProof!Hook!ConnectReportsTheTruth
  BY <1>1, ServerProof!ConnectIsTrue
<1>3. QED
  BY <1>2, HookIsSame, PTL

\* ContextIsOfSocket: FdManager never hands out the context of a socket that
\* had the descriptor before, however numbers are reused and however the table
\* grows, unless the number was closed on a thread without hooks.
THEOREM TableIsCurrent ==
    ASSUME Params
    PROVE  Spec => []ContextIsOfSocket
<1>1. ServerProof!Params
  BY DEF Params, ServerProof!Params
<1>2. ServerProof!Hook!Spec => []ServerProof!Hook!ContextIsOfSocket
  BY <1>1, ServerProof!TableIsCurrent
<1>3. QED
  BY <1>2, HookIsSame, PTL

PoolProof == INSTANCE HttpConnectionPoolProofs WITH
    Users <- Actors, MaxConns <- PoolSize, MaxCalls <- PoolCalls, MaxRequest <-
    PoolRequests, MaxAliveTime <- PoolAlive, m_conns <- pool_m_conns, m_total <-
    pool_m_total, state <- pool_state, m_request <- pool_m_request, peer <- pool_peer,
    wire <- pool_wire, answers <- pool_answers, pc <- pool_pc, conn <- pool_conn, pooled
    <- pool_pooled, invalid <- pool_invalid, request <- pool_request, result <-
    pool_result, calls <- pool_calls, BuffSize <- 15, MaxMessages <- 2, kind <- hp_kind,
    messages <- hp_messages, unread <- hp_inbox, stage <- hp_pc, chunk <- hp_chunk, dead
    <- hp_dead, m_data <- hp_m_data, m_field <- hp_m_field, m_finished <- hp_m_finished,
    m_error <- hp_m_error, cut <- hp_cut, merged <- hp_merged, Letters <- {"a", "A", "b",
    " ", "&", "=", "%", "+", ";"}, Queries <- Queries, Forms <- Forms, CookieLines <-
    CookieLines, Names <- {<<"A">>, <<"b", "&">>}, Values <- {<<"b", "b">>}, MaxOps <-
    3, query <- hr_query, form <- hr_form, cookie <- hr_cookie, isForm <- hr_isForm,
    m_parserParamFlag <- hr_m_parserParamFlag, m_params <- hr_m_params, m_cookies <-
    hr_m_cookies, own <- hr_own, last <- hr_last, ops <- hr_ops

\* The HttpConnectionPool in LibraryMC is the one that is proved about.
LEMMA PoolIsSame ==
    /\ PoolProof!Spec <=> Pool!Spec
    /\ PoolProof!TypeOK <=> Pool!TypeOK
    /\ PoolProof!AnswerIsOwn <=> Pool!AnswerIsOwn
    /\ PoolProof!PoolCounts <=> Pool!PoolCounts
<1>1. PoolProof!Spec <=> Pool!Spec
  BY
     DEF Pool!Conns, PoolProof!Conns, Pool!NoConn, PoolProof!NoConn, Pool!CreateTime,
       PoolProof!CreateTime, Pool!poolVars, PoolProof!poolVars, Pool!netVars,
       PoolProof!netVars, Pool!userVars, PoolProof!userVars, Pool!vars, PoolProof!vars,
       Pool!NoResult, PoolProof!NoResult, Pool!NoRequest, PoolProof!NoRequest, Pool!Init,
       PoolProof!Init, Pool!Goto, PoolProof!Goto, Pool!DoRequest, PoolProof!DoRequest,
       Pool!Expired, PoolProof!Expired, Pool!GetConnection, PoolProof!GetConnection,
       Pool!Purge, PoolProof!Purge, Pool!Open, PoolProof!Open, Pool!Send, PoolProof!Send,
       Pool!RecvResponse, PoolProof!RecvResponse, Pool!RecvFails, PoolProof!RecvFails,
       Pool!TooOld, PoolProof!TooOld, Pool!Release, PoolProof!Release, Pool!Answer,
       PoolProof!Answer, Pool!PeerCloses, PoolProof!PeerCloses, Pool!Next, PoolProof!Next,
       Pool!Spec, PoolProof!Spec, Pool!Min, PoolProof!Min, Pool!Cardinality,
       PoolProof!Cardinality
<1>2. PoolProof!TypeOK <=> Pool!TypeOK
  BY Zenon
     DEF Pool!Conns, PoolProof!Conns, Pool!NoConn, PoolProof!NoConn, Pool!TypeOK,
       PoolProof!TypeOK
<1>3. PoolProof!AnswerIsOwn <=> Pool!AnswerIsOwn
  BY Zenon
     DEF Pool!AnswerIsOwn, PoolProof!AnswerIsOwn
<1>4. PoolProof!PoolCounts <=> Pool!PoolCounts
  BY Zenon
     DEF Pool!NoConn, PoolProof!NoConn, Pool!Pool, PoolProof!Pool, Pool!InUse,
       PoolProof!InUse, Pool!PoolCounts, PoolProof!PoolCounts, Pool!Cardinality,
       PoolProof!Cardinality
<1>5. QED
  BY <1>1, <1>2, <1>3, <1>4

\* HttpConnectionPool, http_connection.cc:262-314, 515-554: a request through the
\* pool is answered with its own answer, whatever was left on the connection.
THEOREM AnswersAreOwn ==
    ASSUME PoolSize \in Nat
    PROVE  LibrarySpec => []AnswerIsOwn
<1>1. PoolProof!Spec => []PoolProof!AnswerIsOwn
  BY PoolProof!AnswersAreOwn
<1>2. /\ part # "pool" => AnswerIsOwn
      /\ Pool!AnswerIsOwn => AnswerIsOwn
  BY DEF AnswerIsOwn
<1>3. QED
  BY <1>1, <1>2, PoolIsSame, PoolRuns, PTL

\* HttpConnectionPool, http_connection.cc:331-407: m_total is the number of
\* connections made and not deleted, and the pool keeps each of them once.
THEOREM PoolIsCounted ==
    ASSUME PoolSize \in Nat
    PROVE  LibrarySpec => []PoolCounts
<1>1. PoolProof!Spec => []PoolProof!PoolCounts
  BY PoolProof!PoolIsCounted
<1>2. /\ part # "pool" => PoolCounts
      /\ Pool!PoolCounts => PoolCounts
  BY DEF PoolCounts
<1>3. QED
  BY <1>1, <1>2, PoolIsSame, PoolRuns, PTL

\* The HttpParser in LibraryMC is the one that is proved about.
LEMMA ParserIsSame ==
    /\ PoolProof!ReaderSpec <=> Parser!Init /\ [][Parser!Next]_(Parser!vars)
    /\ PoolProof!Reader!TypeOK <=> Parser!TypeOK
    /\ PoolProof!Reader!MessageAsSent <=> Parser!MessageAsSent
<1>1. PoolProof!ReaderSpec <=> Parser!Init /\ [][Parser!Next]_(Parser!vars)
  BY Zenon
     DEF PoolProof!ReaderSpec, Parser!Url, PoolProof!Reader!Url, Parser!Name,
       PoolProof!Reader!Name, Parser!Body, PoolProof!Reader!Body, Parser!Value,
       PoolProof!Reader!Value, Parser!vars, PoolProof!Reader!vars, Parser!Token,
       PoolProof!Reader!Token, Parser!Mark, PoolProof!Reader!Mark, Parser!Ended,
       PoolProof!Reader!Ended, Parser!Bytes, PoolProof!Reader!Bytes, Parser!NoData,
       PoolProof!Reader!NoData, Parser!Init, PoolProof!Reader!Init, Parser!Read,
       PoolProof!Reader!Read, Parser!ReadFails, PoolProof!Reader!ReadFails,
       Parser!RunLength, PoolProof!Reader!RunLength, Parser!Piece, PoolProof!Reader!Piece,
       Parser!Ends, PoolProof!Reader!Ends, Parser!Texts, PoolProof!Reader!Texts,
       Parser!OnUrl, PoolProof!Reader!OnUrl, Parser!OnHeaderField,
       PoolProof!Reader!OnHeaderField, Parser!OnHeaderValue,
       PoolProof!Reader!OnHeaderValue, Parser!OnBody, PoolProof!Reader!OnBody,
       Parser!OnOther, PoolProof!Reader!OnOther, Parser!Completes,
       PoolProof!Reader!Completes, Parser!Execute, PoolProof!Reader!Execute, Parser!Close,
       PoolProof!Reader!Close, Parser!Executed, PoolProof!Reader!Executed, Parser!Next,
       PoolProof!Reader!Next, Parser!Min, PoolProof!Reader!Min, Parser!SelectInSeq,
       PoolProof!Reader!SelectInSeq, Parser!FlattenSeq, PoolProof!Reader!FlattenSeq
<1>2. PoolProof!Reader!TypeOK <=> Parser!TypeOK
  BY Zenon
     DEF Parser!Url, PoolProof!Reader!Url, Parser!Name, PoolProof!Reader!Name,
       Parser!TypeOK, PoolProof!Reader!TypeOK
<1>3. PoolProof!Reader!MessageAsSent <=> Parser!MessageAsSent
  BY Zenon
     DEF Parser!Url, PoolProof!Reader!Url, Parser!Name, PoolProof!Reader!Name,
       Parser!Body, PoolProof!Reader!Body, Parser!Value, PoolProof!Reader!Value,
       Parser!MessageAsSent, PoolProof!Reader!MessageAsSent
<1>4. QED
  BY <1>1, <1>2, <1>3

\* The HttpRequest in LibraryMC is the one that is proved about.
LEMMA RequestIsSame ==
    /\ PoolProof!QuerySpec <=> Request!Init /\ [][Request!Next]_(Request!vars)
    /\ PoolProof!Query!TypeOK <=> Request!TypeOK
    /\ PoolProof!Query!ParamsAsSent <=> Request!ParamsAsSent
<1>1. PoolProof!QuerySpec <=> Request!Init /\ [][Request!Next]_(Request!vars)
  <2>1. \A pairs, s : PoolProof!Query!Line(pairs, s) = Request!Line(pairs, s)
    BY Zenon
         DEF Request!Line, PoolProof!Query!Line, Request!Written,
           PoolProof!Query!Written, Request!UrlEncode, PoolProof!Query!UrlEncode,
           Request!Plain, PoolProof!Query!Plain, Request!Unreserved,
           PoolProof!Query!Unreserved, Request!FlattenSeq, PoolProof!Query!FlattenSeq
  <2>2. ASSUME NEW text, NEW flag, NEW trimmed
        PROVE  PoolProof!Query!Parsed(text, flag, trimmed) = Request!Parsed(text, flag, trimmed)
    <3>1. PoolProof!Query!Parsed(text, flag, trimmed)
            = (CHOOSE f : PoolProof!IsParse(f, text, PoolProof!Query!Plain(flag), trimmed))[1]
      BY Zenon, PoolProof!ParsedBy
    <3>2. Request!Parsed(text, flag, trimmed)
            = (CHOOSE f : PoolProof!IsParse(f, text, PoolProof!Query!Plain(flag), trimmed))[1]
      BY Zenon
         DEF Request!Parsed, PoolProof!IsParse, PoolProof!Key, PoolProof!End,
           PoolProof!KeyText, PoolProof!NameOf, PoolProof!ValueOf, PoolProof!Search,
           PoolProof!Trimmed, PoolProof!Equals, PoolProof!Space, Request!Plain,
           PoolProof!Query!Plain, Request!UrlDecode, PoolProof!Query!UrlDecode,
           Request!Trim, PoolProof!Query!Trim, Request!SelectInSubSeq,
           PoolProof!Query!SelectInSubSeq, Request!SelectInSeq,
           PoolProof!Query!SelectInSeq, Request!SelectLastInSeq,
           PoolProof!Query!SelectLastInSeq, Request!Min, PoolProof!Query!Min,
           Request!Max, PoolProof!Query!Max
    <3>3. QED
      BY Zenon, <3>1, <3>2
  <2>3. \A map, pairs : PoolProof!Query!Insert(map, pairs) = Request!Insert(map, pairs)
    BY Zenon
         DEF Request!Insert, PoolProof!Query!Insert, Request!Folded,
           PoolProof!Query!Folded, Request!Put, PoolProof!Query!Put, Request!FoldLeft,
           PoolProof!Query!FoldLeft, Request!MapThenFoldSet,
           PoolProof!Query!MapThenFoldSet, Request!Max, PoolProof!Query!Max
  <2>4. \A map : /\ PoolProof!Query!QueryParams(map) = Request!QueryParams(map)
                /\ PoolProof!Query!BodyParams(map) = Request!BodyParams(map)
                /\ PoolProof!Query!CookieLine(map) = Request!CookieLine(map)
    BY Zenon, <2>1, <2>2, <2>3
         DEF Request!QueryParams, PoolProof!Query!QueryParams, Request!BodyParams,
           PoolProof!Query!BodyParams, Request!CookieLine, PoolProof!Query!CookieLine,
           Request!Unparsed, PoolProof!Query!Unparsed, Request!Plain,
           PoolProof!Query!Plain
  <2>5. PoolProof!Query!Next <=> Request!Next
    <3> DEFINE names == Request!Keys
               values == {<<"b", "b">>}
               r(n) == \/ Request!GetParam(n) \/ Request!GetCookie(n)
                         \/ Request!DelParam(n) \/ Request!DelCookie(n)
                       \/ \E v \in values : Request!SetParam(n, v) \/ Request!SetCookie(n, v)
               q(n) == \/ PoolProof!Query!GetParam(n) \/ PoolProof!Query!GetCookie(n)
                         \/ PoolProof!Query!DelParam(n) \/ PoolProof!Query!DelCookie(n)
                       \/ \E v \in values :
                            PoolProof!Query!SetParam(n, v) \/ PoolProof!Query!SetCookie(n, v)
    <3>1. Request!Next <=> \E n \in names : r(n)
      BY Zenon DEF Request!Next
    <3>2. PoolProof!Query!Next <=> \E n \in names : q(n)
      BY Zenon
         DEF PoolProof!Query!Next, Request!Keys, PoolProof!Query!Keys, Request!Folded,
           PoolProof!Query!Folded
    <3> HIDE DEF names, values
    <3>3. ASSUME NEW n
          PROVE  q(n) <=> r(n)
      <4>1. /\ PoolProof!Query!GetParam(n) <=> Request!GetParam(n)
            /\ PoolProof!Query!GetCookie(n) <=> Request!GetCookie(n)
        BY Zenon, <2>4
             DEF Request!GetParam, PoolProof!Query!GetParam, Request!GetCookie,
               PoolProof!Query!GetCookie, Request!Op, PoolProof!Query!Op, Request!sentVars,
               PoolProof!Query!sentVars, Request!Answer, PoolProof!Query!Answer,
               Request!Absent, PoolProof!Query!Absent
      <4>2. /\ PoolProof!Query!DelParam(n) <=> Request!DelParam(n)
            /\ PoolProof!Query!DelCookie(n) <=> Request!DelCookie(n)
        BY Zenon
             DEF Request!DelParam, PoolProof!Query!DelParam, Request!DelCookie,
               PoolProof!Query!DelCookie, Request!Op, PoolProof!Query!Op, Request!sentVars,
               PoolProof!Query!sentVars, Request!Did, PoolProof!Query!Did, Request!NoAnswer,
               PoolProof!Query!NoAnswer, Request!Without, PoolProof!Query!Without,
               Request!Unparsed, PoolProof!Query!Unparsed, Request!Absent,
               PoolProof!Query!Absent
      <4>3. (\E v \in values : PoolProof!Query!SetParam(n, v) \/ PoolProof!Query!SetCookie(n, v))
              <=> \E v \in values : Request!SetParam(n, v) \/ Request!SetCookie(n, v)
        BY Zenon
             DEF Request!SetParam, PoolProof!Query!SetParam, Request!SetCookie,
               PoolProof!Query!SetCookie, Request!Op, PoolProof!Query!Op, Request!sentVars,
               PoolProof!Query!sentVars, Request!Did, PoolProof!Query!Did, Request!NoAnswer,
               PoolProof!Query!NoAnswer, Request!Put, PoolProof!Query!Put, Request!Absent,
               PoolProof!Query!Absent
      <4>4. QED
        BY Zenon, <4>1, <4>2, <4>3
    <3> HIDE DEF q, r
    <3>4. QED
      BY Zenon, <3>1, <3>2, <3>3
  <2>6. PoolProof!Query!Init <=> Request!Init
    BY Zenon
         DEF Request!Init, PoolProof!Query!Init, Request!Keys, PoolProof!Query!Keys,
           Request!Folded, PoolProof!Query!Folded, Request!NoAnswer,
           PoolProof!Query!NoAnswer, Request!Untouched, PoolProof!Query!Untouched,
           Request!Absent, PoolProof!Query!Absent
  <2>7. (UNCHANGED PoolProof!Query!vars) <=> UNCHANGED Request!vars
    BY Zenon
         DEF Request!vars, PoolProof!Query!vars, Request!sentVars,
           PoolProof!Query!sentVars
  <2>8. [PoolProof!Query!Next]_(PoolProof!Query!vars) <=> [Request!Next]_(Request!vars)
    BY Zenon, <2>5, <2>7
  <2>9. QED
    BY <2>6, <2>8, PTL DEF PoolProof!QuerySpec
<1>2. PoolProof!Query!TypeOK <=> Request!TypeOK
  BY Zenon
     DEF Request!Absent, PoolProof!Query!Absent, Request!Folded, PoolProof!Query!Folded,
       Request!Keys, PoolProof!Query!Keys, Request!TypeOK, PoolProof!Query!TypeOK
<1>3. PoolProof!Query!ParamsAsSent <=> Request!ParamsAsSent
  BY Zenon
     DEF Request!Absent, PoolProof!Query!Absent, Request!Folded, PoolProof!Query!Folded,
       Request!Sent, PoolProof!Query!Sent, Request!FirstOf, PoolProof!Query!FirstOf,
       Request!Separable, PoolProof!Query!Separable, Request!ParamsAsSent,
       PoolProof!Query!ParamsAsSent, Request!Min, PoolProof!Query!Min,
       Request!SelectInSeq, PoolProof!Query!SelectInSeq
<1>4. QED
  BY <1>1, <1>2, <1>3

\* What clients send in LibraryMC is text.
LEMMA LinesAreText == PoolProof!Lines
<1> DEFINE letters == {"a", "A", "b", " ", "&", "=", "%", "+", ";"}
           pairs == [name : Seq(letters), value : Seq(letters), bare : BOOLEAN]
<1>1. ASSUME NEW S
      PROVE  /\ <<>> \in Seq(S)
             /\ \A x \in S : <<x>> \in Seq(S)
             /\ \A x, y \in S : <<x, y>> \in Seq(S)
  OBVIOUS
<1>2. /\ "a" \in letters /\ "A" \in letters /\ "b" \in letters /\ " " \in letters /\ "&" \in letters
      /\ "=" \in letters /\ "%" \in letters /\ "+" \in letters /\ ";" \in letters
  BY Zenon
<1> HIDE DEF letters
<1>3. /\ <<>> \in Seq(letters) /\ <<"a">> \in Seq(letters) /\ <<"A">> \in Seq(letters)
      /\ <<"b">> \in Seq(letters)
      /\ <<"%">> \in Seq(letters) /\ <<"+">> \in Seq(letters) /\ <<";">> \in Seq(letters)
      /\ <<"b", " ">> \in Seq(letters) /\ <<"b", "&">> \in Seq(letters)
      /\ <<"&", "=">> \in Seq(letters) /\ <<"a", "=">> \in Seq(letters)
  BY Zenon, <1>1, <1>2
<1>4. ASSUME NEW n \in Seq(letters)
      PROVE  /\ Bare(n) \in pairs
             /\ \A v \in Seq(letters) : Pair(n, v) \in pairs
  BY Zenon, <1>3 DEF Bare, Pair
<1> HIDE DEF pairs
<1>5. Queries \subseteq Seq(pairs)
  <2>1. /\ Pair(<<"a">>, <<"b", " ">>) \in pairs /\ Pair(<<"a">>, <<"b">>) \in pairs
        /\ Pair(<<"A">>, <<"b">>) \in pairs
        /\ Pair(<<"a">>, <<"a">>) \in pairs /\ Pair(<<"b", "&">>, <<"&", "=">>) \in pairs
        /\ Pair(<<"a">>, <<"%">>) \in pairs /\ Bare(<<"b">>) \in pairs
        /\ Pair(<<"a", "=">>, <<"b">>) \in pairs
    BY Zenon, <1>3, <1>4
  <2>2. QED
    BY Zenon, <1>1, <2>1 DEF Queries
<1>6. Forms \subseteq Seq(pairs)
  <2>1. Pair(<<"a">>, <<"+">>) \in pairs
    BY Zenon, <1>3, <1>4
  <2>2. QED
    BY Zenon, <1>1, <2>1 DEF Forms
<1>7. CookieLines \subseteq Seq(pairs)
  <2>1. Pair(<<"b", "&">>, <<"a">>) \in pairs /\ Pair(<<"a">>, <<";">>) \in pairs
    BY Zenon, <1>3, <1>4
  <2>2. QED
    BY Zenon, <1>1, <2>1 DEF CookieLines
<1>8. PoolProof!Pairs = pairs
  BY Zenon DEF PoolProof!Pairs, pairs, letters
<1>9. 3 \in Nat
  OBVIOUS
<1>10. QED
  BY Zenon, <1>5, <1>6, <1>7, <1>8, <1>9 DEF PoolProof!Lines

\* HttpSession::recvRequest() and HttpConnection::recvResponse(), http_parser.cc
\* and HttpRequest, http.cc:96-315: the message is the one that was sent, but for
\* what is cut inside a path, a name or a value, and a servlet gets the parameters
\* and cookies in it, in whatever case their names were written.
THEOREM MessagesAreAsSent == LibrarySpec => []MessageAsSent
<1>1. PoolProof!ReaderSpec => []PoolProof!Reader!MessageAsSent
  <2>1. 2 \in Nat
    OBVIOUS
  <2>2. QED
    BY <2>1, PoolProof!MessagesAsSent
<1>2. PoolProof!QuerySpec => []PoolProof!Query!ParamsAsSent
  BY LinesAreText, PoolProof!ParamsCorrect
<1>3. /\ part # "hp" /\ part # "hr" => MessageAsSent
      /\ Parser!MessageAsSent /\ part # "hr" => MessageAsSent
      /\ Request!ParamsAsSent /\ part # "hp" => MessageAsSent
      /\ ~(part = "hp" /\ part = "hr")
      /\ part = "hp" => part # "hr"
      /\ part = "hr" => part # "hp"
  BY DEF MessageAsSent
<1>4. QED
  BY <1>1, <1>2, <1>3, ParserIsSame, ParserRuns, RequestIsSame, RequestRuns, PTL

\* What the bounds and the sets of LibraryMC have to be for the variables to have
\* their types.
Bounds ==
    /\ Params /\ IsFiniteSet(Fibers)
    /\ PoolSize \in Nat /\ MaxLoops \in Nat /\ MaxRequests \in Nat
    /\ MaxScopes \in Nat /\ MaxStrays \in Nat
    /\ ConfTime \in Nat \ {0} /\ MaxChanges \in Nat
    /\ LogTime \in Nat /\ LogTime >= Logging!StartTime
    /\ MaxEvents \in Nat /\ MaxAccidents \in Nat /\ Logging!INFO \in Levels

\* Every variable of every part has the type LibraryTypes states.
THEOREM TypesHold ==
    ASSUME Bounds
    PROVE  LibrarySpec => []LibraryTypes
<1> USE DEF Bounds
<1>1. Spec => []TypeOK
  BY TypeCorrect
<1>2. PoolProof!Spec => []PoolProof!TypeOK
  BY PoolProof!TypeCorrect
<1>3. ServerProof!Spec => []ServerProof!TypeOK
  BY ServerProof!TypeCorrect
<1>4. ServerProof!Http!Spec => []ServerProof!Http!TypeOK
  BY ServerProof!HttpTypeCorrect
<1>5. SupportProof!Spec => []SupportProof!TypeOK
  <2>1. IsFiniteSet(Actors)
    BY DEF Actors
  <2>2. QED
    BY <2>1, SupportProof!TypeCorrect DEF IsFiniteSet, SupportProof!IsFiniteSet
<1>6. LogProof!Logging!Spec => []LogProof!Logging!TypeOK
  BY LogProof!LogTypeCorrect DEF Logging!StartTime, LogProof!Logging!StartTime,
     Logging!INFO, LogProof!Logging!INFO
<1>7. SupportProof!Conf!Spec => []SupportProof!Conf!TypeOK
  BY ContentsAreLogs, SupportProof!ConfTypeCorrect
<1>8. ServerProof!BufferSpec => []ServerProof!Buffer!TypeOK
  BY BytesConstants, ServerProof!BufferTypeCorrect
<1>9. SupportProof!FormatSpec => []SupportProof!Format!TypeOK
  BY PatternsAreText, SupportProof!FormatTypeCorrect
<1>10. PoolProof!ReaderSpec => []PoolProof!Reader!TypeOK
  <2>1. 2 \in Nat
    OBVIOUS
  <2>2. QED
    BY <2>1, PoolProof!ReaderTypeCorrect
<1>11. PoolProof!QuerySpec => []PoolProof!Query!TypeOK
  BY LinesAreText, PoolProof!QueryTypeCorrect
<1>12. LibrarySpec => Spec
  <2>1. LibraryInit => Init
    BY DEF LibraryInit
  <2>2. [LibraryNext]_allVars => [Next]_vars
    BY DEF LibraryNext, allVars
  <2>3. QED
    BY <2>1, <2>2, PTL DEF LibrarySpec, Spec
<1>13. LibrarySpec => [](part \in Parts)
  <2>1. LibraryInit => part \in Parts
    BY DEF LibraryInit
  <2>2. part \in Parts /\ [LibraryNext]_allVars => (part \in Parts)'
    BY DEF LibraryNext, allVars
  <2>3. QED
    BY <2>1, <2>2, PTL DEF LibrarySpec
<1>14. /\ part \in Parts /\ TypeOK
       /\ part # "ba" \/ Bytes!TypeOK
       /\ part # "pool" \/ Pool!TypeOK
       /\ part # "hp" \/ Parser!TypeOK
       /\ part # "hr" \/ Request!TypeOK
       /\ part # "tcp" \/ Tcp!TypeOK
       /\ part # "web" \/ Web!TypeOK
       /\ part # "lk" \/ Lock!TypeOK
       /\ part # "cf" \/ Conf!TypeOK
       /\ part # "lg" \/ Logging!TypeOK
       /\ part # "lf" \/ Format!TypeOK
       => LibraryTypes
  BY Zenon DEF LibraryTypes
<1>15. LibrarySpec => [](part # "ba" \/ Bytes!TypeOK)
  BY <1>8, BytesAreSame, BytesRun, PTL
<1>16. LibrarySpec => [](part # "pool" \/ Pool!TypeOK)
  BY <1>2, PoolIsSame, PoolRuns, PTL
<1>17. LibrarySpec => [](part # "hp" \/ Parser!TypeOK)
  BY <1>10, ParserIsSame, ParserRuns, PTL
<1>18. LibrarySpec => [](part # "hr" \/ Request!TypeOK)
  BY <1>11, RequestIsSame, RequestRuns, PTL
<1>19. LibrarySpec => [](part # "tcp" \/ Tcp!TypeOK)
  BY <1>3, TcpIsSame, TcpRuns, PTL
<1>20. LibrarySpec => [](part # "web" \/ Web!TypeOK)
  BY <1>4, WebIsSame, WebRuns, PTL
<1>21. LibrarySpec => [](part # "lk" \/ Lock!TypeOK)
  BY <1>5, LocksAreSame, LockRuns, PTL
<1>22. LibrarySpec => [](part # "cf" \/ Conf!TypeOK)
  BY <1>7, ConfIsSame, ConfRuns, PTL
<1>23. LibrarySpec => [](part # "lg" \/ Logging!TypeOK)
  BY <1>6, LogIsSame, LogRuns, PTL
<1>24. LibrarySpec => [](part # "lf" \/ Format!TypeOK)
  BY <1>9, FormatIsSame, FormatRuns, PTL
<1>25. QED
  BY <1>1, <1>12, <1>13, <1>14, <1>15, <1>16, <1>17, <1>18, <1>19, <1>20, <1>21, <1>22,
     <1>23, <1>24, PTL
=============================================================================
