------------------------------ MODULE SerialLog ------------------------------
(***************************************************************************)
(* Log entries and messages on the serial port, as --automatic writes      *)
(* them: LoggerSinkSerial::setLogEntry holds serial_mutex around           *)
(* SynchronizedSerial::write, which holds lock_query around its loop of    *)
(* write(2); handle_automatic calls SynchronizedSerial::write directly.    *)
(* The threads are those of one invocation.                                *)
(***************************************************************************)
EXTENDS Naturals

CONSTANTS
    Threads,    \* the threads that log or write a message
    NoThread,   \* holds a mutex that is free
    LineLength, \* bytes of a line
    Faults      \* what may fail: "open", "port"

ASSUME SerialAssumption ==
    /\ NoThread \notin Threads
    /\ LineLength \in Nat \ {0}
    /\ Faults \subseteq {"open", "port"}

EntryLevels == {"DEBUG", "WARNING", "ERROR", "other"}
SinkLevels == {"DEBUG", "WARNING"}

VARIABLES
    log_level,    \* what --debug has chosen
    serial_fd,    \* "open", "closed" (-1) or "broken"
    serial_mutex, \* the thread that holds it
    lock_query,   \* the thread that holds it
    pc,           \* per thread: where it is
    entry,        \* per thread: the level of the entry it logs
    sent,         \* per thread: the bytes of its line it has written
    last,         \* the line the port has got its last bytes of, and how many
    cut           \* has that line ended early?

locks == <<serial_mutex, lock_query>>
port == <<last, cut>>
vars == <<log_level, serial_fd, serial_mutex, lock_query, pc, entry, sent, last, cut>>

Labels == {"idle", "entry", "serial_mutex", "fd", "lock_query", "writing",
           "unlock_query", "unlock_serial"}

\* No byte beyond the end of a line is written.
TypeOK ==
    /\ log_level \in SinkLevels
    /\ serial_fd \in {"open", "closed", "broken"}
    /\ serial_mutex \in Threads \cup {NoThread}
    /\ lock_query \in Threads \cup {NoThread}
    /\ pc \in [Threads -> Labels]
    /\ entry \in [Threads -> EntryLevels \cup {"none"}]
    /\ sent \in [Threads -> 0..LineLength]
    /\ last \in [thread : Threads \cup {NoThread}, at : 0..LineLength]
    /\ cut \in BOOLEAN

\* setup_logging opens the port; without it every write is dropped.
Init ==
    /\ log_level \in SinkLevels
    /\ serial_fd = "open" \/ (serial_fd = "closed" /\ "open" \in Faults)
    /\ serial_mutex = NoThread
    /\ lock_query = NoThread
    /\ pc = [t \in Threads |-> "idle"]
    /\ entry = [t \in Threads |-> "none"]
    /\ sent = [t \in Threads |-> 0]
    /\ last = [thread |-> NoThread, at |-> LineLength]
    /\ cut = FALSE

Goto(t, label) == pc' = [pc EXCEPT ![t] = label]

-----------------------------------------------------------------------------
(* LoggerSinkSerial::setLogEntry.                                          *)

LogEntry(t) == \E level \in EntryLevels :
    /\ pc[t] = "idle"
    /\ Goto(t, "entry")
    /\ entry' = [entry EXCEPT ![t] = level]
    /\ UNCHANGED <<log_level, serial_fd, locks, sent, port>>

\* Mutant: only entries of the very level of the sink.
ShownExactly(level, sink) == level = sink

\* Errors always, warnings at both levels, the rest of it only to debug.
Shown(level, sink) ==
    \/ level = "ERROR"
    \/ level = "WARNING" /\ sink \in {"DEBUG", "WARNING"}
    \/ level = "DEBUG" /\ sink = "DEBUG"

Filter(t) ==
    /\ pc[t] = "entry"
    /\ \/ /\ Shown(entry[t], log_level)
          /\ Goto(t, "serial_mutex")
          /\ UNCHANGED entry
       \/ /\ ~Shown(entry[t], log_level)
          /\ Goto(t, "idle")
          /\ entry' = [entry EXCEPT ![t] = "none"]
    /\ UNCHANGED <<log_level, serial_fd, locks, sent, port>>

LockSerial(t) ==
    /\ pc[t] = "serial_mutex"
    /\ serial_mutex = NoThread
    /\ serial_mutex' = t
    /\ Goto(t, "fd")
    /\ UNCHANGED <<log_level, serial_fd, lock_query, entry, sent, port>>

UnlockSerial(t) ==
    /\ pc[t] = "unlock_serial"
    /\ serial_mutex' = NoThread
    /\ Goto(t, "idle")
    /\ entry' = [entry EXCEPT ![t] = "none"]
    /\ UNCHANGED <<log_level, serial_fd, lock_query, sent, port>>

-----------------------------------------------------------------------------
(* SynchronizedSerial::write.                                              *)

\* handle_automatic says that an environment variable is missing.
Message(t) ==
    /\ pc[t] = "idle"
    /\ Goto(t, "fd")
    /\ UNCHANGED <<log_level, serial_fd, locks, entry, sent, port>>

\* Mutant: serial_mutex is not released where the port is missing.
CheckFdLocked(t) ==
    /\ pc[t] = "fd"
    /\ Goto(t, IF serial_fd = "closed" THEN "idle" ELSE "lock_query")
    /\ UNCHANGED <<log_level, serial_fd, locks, entry, sent, port>>

\* Where a return from write leads: out of setLogEntry, or of the handler.
Return(t) ==
    Goto(t, IF serial_mutex = t THEN "unlock_serial" ELSE "idle")

CheckFd(t) ==
    /\ pc[t] = "fd"
    /\ IF serial_fd = "closed" THEN Return(t) ELSE Goto(t, "lock_query")
    /\ UNCHANGED <<log_level, serial_fd, locks, entry, sent, port>>

\* Mutant: the lock of a thread does not keep another one out.
LockQueryShared(t) ==
    /\ pc[t] = "lock_query"
    /\ lock_query' = t
    /\ Goto(t, "writing")
    /\ UNCHANGED <<log_level, serial_fd, serial_mutex, entry, sent, port>>

LockQuery(t) ==
    /\ pc[t] = "lock_query"
    /\ lock_query = NoThread
    /\ lock_query' = t
    /\ Goto(t, "writing")
    /\ UNCHANGED <<log_level, serial_fd, serial_mutex, entry, sent, port>>

\* Mutant: the count of the remaining bytes is not reduced.
WriteSomeOver(t) ==
    /\ pc[t] = "writing"
    /\ serial_fd = "open"
    /\ \E n \in 1..LineLength :
          /\ sent' = [sent EXCEPT ![t] = @ + n]
          /\ last' = [thread |-> t, at |-> sent[t] + n]
          /\ Goto(t, IF n = LineLength THEN "unlock_query" ELSE "writing")
    /\ cut' = FALSE
    /\ UNCHANGED <<log_level, serial_fd, locks, entry>>

\* write(2) takes some of the bytes that remain.
WriteSome(t) ==
    /\ pc[t] = "writing"
    /\ serial_fd = "open"
    /\ \E n \in 1..LineLength - sent[t] :
          /\ sent' = [sent EXCEPT ![t] = @ + n]
          /\ last' = [thread |-> t, at |-> sent[t] + n]
          /\ Goto(t, IF sent[t] + n = LineLength THEN "unlock_query" ELSE "writing")
    /\ cut' = FALSE
    /\ UNCHANGED <<log_level, serial_fd, locks, entry>>

\* It fails, or is interrupted: the rest of the line is given up.
WriteFails(t) ==
    /\ pc[t] = "writing"
    /\ \/ serial_fd = "broken"
       \/ "port" \in Faults
    /\ Goto(t, "unlock_query")
    /\ cut' = (cut \/ sent[t] > 0)
    /\ UNCHANGED <<log_level, serial_fd, locks, entry, sent, last>>

UnlockQuery(t) ==
    /\ pc[t] = "unlock_query"
    /\ lock_query' = NoThread
    /\ sent' = [sent EXCEPT ![t] = 0]
    /\ Return(t)
    /\ UNCHANGED <<log_level, serial_fd, serial_mutex, entry, port>>

\* The port itself fails for good.
Break ==
    /\ "port" \in Faults
    /\ serial_fd = "open"
    /\ serial_fd' = "broken"
    /\ UNCHANGED <<log_level, locks, pc, entry, sent, port>>

-----------------------------------------------------------------------------
Works(t) ==
    \/ Filter(t) \/ CheckFd(t) \/ WriteSome(t) \/ WriteFails(t)
    \/ UnlockQuery(t) \/ UnlockSerial(t)

Next ==
    \/ \E t \in Threads :
          LogEntry(t) \/ Message(t) \/ LockSerial(t) \/ LockQuery(t) \/ Works(t)
    \/ Break

(***************************************************************************)
(* Assumed of the environment, enforced by nothing in the code: write(2)   *)
(* returns, although the tty is opened without O_NONBLOCK and may block    *)
(* under flow control (SynchronizedSerial.cpp:11), and whoever waits for a *)
(* mutex that is released again and again gets it some day.                *)
(***************************************************************************)
Fairness == \A t \in Threads :
    WF_vars(Works(t)) /\ SF_vars(LockSerial(t)) /\ SF_vars(LockQuery(t))

Spec == Init /\ [][Next]_vars /\ Fairness

-----------------------------------------------------------------------------
(***************************************************************************)
(* No line is torn: bytes that reach the port either go on where the same  *)
(* line stopped, or begin a line after one that is complete or given up.   *)
(***************************************************************************)
LinesWhole ==
    [][\A t \in Threads : sent'[t] > sent[t] =>
          IF sent[t] > 0 THEN last = [thread |-> t, at |-> sent[t]]
                         ELSE last.at = LineLength \/ cut]_vars

(***************************************************************************)
(* The two mutexes are taken in one order: whoever waits for lock_query    *)
(* waits for a thread that needs no mutex any more, and whoever waits for  *)
(* serial_mutex for one that is on its way to release it and needs at most *)
(* lock_query for that.                                                    *)
(***************************************************************************)
NoCircularWait == \A t \in Threads :
    /\ pc[t] = "lock_query" /\ lock_query # NoThread =>
          pc[lock_query] \in {"writing", "unlock_query"}
    /\ pc[t] = "serial_mutex" /\ serial_mutex # NoThread =>
          pc[serial_mutex] \notin {"idle", "entry", "serial_mutex"}

(***************************************************************************)
(* An error is never filtered, at no level of the sink: on a port that     *)
(* could be opened its line gets to write(2), behind whatever is before    *)
(* it, as long as the writes before it return.                             *)
(***************************************************************************)
ErrorsGetOut == \A t \in Threads :
    pc[t] = "entry" /\ entry[t] = "ERROR" /\ serial_fd # "closed" ~> pc[t] = "writing"
=============================================================================
