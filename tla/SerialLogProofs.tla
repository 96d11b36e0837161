-------------------------- MODULE SerialLogProofs --------------------------
(***************************************************************************)
(* Lines on the port for any number of threads and any length of a line.   *)
(***************************************************************************)
EXTENDS SerialLog, TLAPS

\* Where a thread holds lock_query.
Inside == {"writing", "unlock_query"}

MutexHeld == \A t \in Threads : pc[t] \in Inside <=> lock_query = t

\* A thread is in its line only while it holds the mutex.
CountIsOwn == \A t \in Threads : sent[t] > 0 => pc[t] \in Inside

InLine(t) == pc[t] = "writing" /\ sent[t] > 0

LastIsMine == \A t \in Threads : InLine(t) => last = [thread |-> t, at |-> sent[t]]

LastHasEnded == (\A t \in Threads : ~InLine(t)) => last.at = LineLength \/ cut

LineInv == MutexHeld /\ CountIsOwn /\ LastIsMine /\ LastHasEnded

Inv == TypeOK /\ LineInv

-----------------------------------------------------------------------------
(***************************************************************************)
(* No value is outside its type; no count goes beyond the end of a line.   *)
(***************************************************************************)
THEOREM SerialTypes == Spec => []TypeOK
<1>1. Init => TypeOK
  <2>1. 0 \in 0..LineLength /\ LineLength \in 0..LineLength
    BY SerialAssumption
  <2>2. [thread |-> NoThread, at |-> LineLength]
          \in [thread : Threads \cup {NoThread}, at : 0..LineLength]
    BY <2>1
  <2> QED
    BY <2>1, <2>2 DEF Init, TypeOK, Labels
<1>2. ASSUME TypeOK, [Next]_vars
      PROVE  TypeOK'
  <2>1. ASSUME NEW t \in Threads, LogEntry(t) PROVE TypeOK'
    BY <1>2, <2>1 DEF LogEntry, Goto, locks, port, TypeOK, Labels
  <2>2. ASSUME NEW t \in Threads, Filter(t) PROVE TypeOK'
    BY <1>2, <2>2 DEF Filter, Goto, locks, port, TypeOK, Labels
  <2>3. ASSUME NEW t \in Threads, LockSerial(t) \/ UnlockSerial(t) PROVE TypeOK'
    BY <1>2, <2>3 DEF LockSerial, UnlockSerial, Goto, port, TypeOK, Labels
  <2>4. ASSUME NEW t \in Threads, Message(t) \/ CheckFd(t) PROVE TypeOK'
    BY <1>2, <2>4 DEF Message, CheckFd, Return, Goto, locks, port, TypeOK, Labels
  <2>5. ASSUME NEW t \in Threads, LockQuery(t) PROVE TypeOK'
    BY <1>2, <2>5 DEF LockQuery, Goto, port, TypeOK, Labels
  <2>6. ASSUME NEW t \in Threads, WriteSome(t) PROVE TypeOK'
    <3>1. PICK n \in 1..LineLength - sent[t] :
            /\ sent' = [sent EXCEPT ![t] = @ + n]
            /\ last' = [thread |-> t, at |-> sent[t] + n]
            /\ Goto(t, IF sent[t] + n = LineLength THEN "unlock_query" ELSE "writing")
      BY <2>6 DEF WriteSome
    <3>2. sent[t] + n \in 0..LineLength
      BY <1>2, <3>1, SerialAssumption DEF TypeOK
    <3>3. sent' \in [Threads -> 0..LineLength]
      BY <1>2, <3>1, <3>2 DEF TypeOK
    <3>4. last' \in [thread : Threads \cup {NoThread}, at : 0..LineLength]
      BY <3>1, <3>2
    <3> QED
      BY <1>2, <2>6, <3>1, <3>3, <3>4 DEF WriteSome, Goto, locks, TypeOK, Labels
  <2>7. ASSUME NEW t \in Threads, WriteFails(t) PROVE TypeOK'
    <3>1. cut' \in BOOLEAN
      BY <2>7 DEF WriteFails
    <3> QED
      BY <1>2, <2>7, <3>1 DEF WriteFails, Goto, locks, TypeOK, Labels
  <2>8. ASSUME NEW t \in Threads, UnlockQuery(t) PROVE TypeOK'
    BY <1>2, <2>8, SerialAssumption DEF UnlockQuery, Return, Goto, port, TypeOK, Labels
  <2>9. CASE Break \/ UNCHANGED vars
    BY <1>2, <2>9 DEF Break, vars, locks, port, TypeOK
  <2> QED
    BY <1>2, <2>1, <2>2, <2>3, <2>4, <2>5, <2>6, <2>7, <2>8, <2>9 DEF Next, Works
<1> QED
  BY <1>1, <1>2, PTL DEF Spec

-----------------------------------------------------------------------------
\* A step of a thread that is outside the mutex before and after it.
LEMMA OutsideKeeps ==
    ASSUME TypeOK, LineInv, NEW t \in Threads, NEW label, Goto(t, label),
           pc[t] \notin Inside, label \notin Inside,
           UNCHANGED <<lock_query, sent, port>>
    PROVE  LineInv'
<1>1. /\ \A q \in Threads : pc'[q] \in Inside <=> pc[q] \in Inside
      /\ \A q \in Threads : InLine(q)' <=> InLine(q)
  BY DEF Goto, TypeOK, InLine, Inside
<1> QED
  BY <1>1 DEF LineInv, MutexHeld, CountIsOwn, LastIsMine, LastHasEnded, port

LEMMA LineKept ==
    ASSUME Inv, [Next]_vars
    PROVE  LineInv'
<1>1. ASSUME NEW t \in Threads,
             \/ LogEntry(t) \/ Filter(t) \/ LockSerial(t) \/ UnlockSerial(t)
             \/ Message(t) \/ CheckFd(t)
      PROVE  LineInv'
  BY <1>1, OutsideKeeps DEF Inv, LogEntry, Filter, LockSerial, UnlockSerial, Message,
                            CheckFd, Return, Goto, locks, port, Inside
<1>2. ASSUME NEW t \in Threads, LockQuery(t) PROVE LineInv'
  <2>1. /\ pc' = [pc EXCEPT ![t] = "writing"]
        /\ lock_query = NoThread /\ lock_query' = t
        /\ UNCHANGED <<sent, last, cut>>
    BY <1>2 DEF LockQuery, Goto, port
  <2>2. \A q \in Threads : pc[q] \notin Inside /\ sent[q] = 0
    BY <2>1, SerialAssumption DEF Inv, TypeOK, LineInv, MutexHeld, CountIsOwn
  <2>3. \A q \in Threads : ~InLine(q) /\ ~InLine(q)'
    BY <2>1, <2>2 DEF InLine
  <2>4. MutexHeld' /\ CountIsOwn'
    BY <2>1, <2>2 DEF MutexHeld, CountIsOwn, Inside, Inv, TypeOK
  <2>5. LastIsMine' /\ LastHasEnded'
    BY <2>1, <2>3 DEF LastIsMine, LastHasEnded, Inv, LineInv
  <2> QED
    BY <2>4, <2>5 DEF LineInv
<1>3. ASSUME NEW t \in Threads, WriteSome(t) PROVE LineInv'
  <2>1. PICK n \in 1..LineLength - sent[t] :
          /\ sent' = [sent EXCEPT ![t] = @ + n]
          /\ last' = [thread |-> t, at |-> sent[t] + n]
          /\ Goto(t, IF sent[t] + n = LineLength THEN "unlock_query" ELSE "writing")
    BY <1>3 DEF WriteSome
  <2>2. /\ pc[t] = "writing" /\ UNCHANGED lock_query
        /\ \A q \in Threads \ {t} : pc[q] \notin Inside
    BY <1>3 DEF WriteSome, locks, Inv, LineInv, MutexHeld, Inside
  <2>3. /\ sent[t] \in Nat /\ n > 0
        /\ sent'[t] = sent[t] + n
        /\ \A q \in Threads \ {t} : sent'[q] = sent[q] /\ pc'[q] = pc[q]
        /\ pc'[t] \in Inside
        /\ pc'[t] # "writing" => sent'[t] = LineLength
    BY <2>1, SerialAssumption DEF Inv, TypeOK, Goto, Inside
  <2>4. MutexHeld' /\ CountIsOwn'
    BY <2>2, <2>3 DEF MutexHeld, CountIsOwn, Inside, Inv, LineInv
  <2>5. LastIsMine'
    BY <2>1, <2>2, <2>3 DEF LastIsMine, InLine, Inside
  <2>6. LastHasEnded'
    BY <2>1, <2>3 DEF LastHasEnded, InLine
  <2> QED
    BY <2>4, <2>5, <2>6 DEF LineInv
<1>4. ASSUME NEW t \in Threads, WriteFails(t) PROVE LineInv'
  <2>1. /\ pc[t] = "writing" /\ pc' = [pc EXCEPT ![t] = "unlock_query"]
        /\ cut' = (cut \/ sent[t] > 0)
        /\ UNCHANGED <<lock_query, sent, last>>
    BY <1>4 DEF WriteFails, Goto, locks
  <2>2. MutexHeld' /\ CountIsOwn'
    BY <2>1 DEF MutexHeld, CountIsOwn, Inside, Inv, TypeOK, LineInv
  <2>3. LastIsMine'
    BY <2>1 DEF LastIsMine, InLine, Inv, TypeOK, LineInv
  <2>4. LastHasEnded'
    <3>1. \A q \in Threads \ {t} : ~InLine(q)
      BY <2>1 DEF Inv, LineInv, MutexHeld, InLine, Inside
    <3>2. CASE sent[t] > 0
      BY <2>1, <3>2 DEF LastHasEnded
    <3>3. CASE ~(sent[t] > 0)
      BY <2>1, <3>1, <3>3 DEF LastHasEnded, InLine, Inv, LineInv
    <3> QED
      BY <3>2, <3>3
  <2> QED
    BY <2>2, <2>3, <2>4 DEF LineInv
<1>5. ASSUME NEW t \in Threads, UnlockQuery(t) PROVE LineInv'
  <2>1. /\ pc[t] = "unlock_query"
        /\ pc'[t] \in {"unlock_serial", "idle"}
        /\ sent'[t] = 0
        /\ \A q \in Threads \ {t} : sent'[q] = sent[q] /\ pc'[q] = pc[q]
        /\ lock_query' = NoThread /\ UNCHANGED <<last, cut>>
    BY <1>5 DEF UnlockQuery, Return, Goto, port, Inv, TypeOK
  <2>2. \A q \in Threads \ {t} : pc[q] \notin Inside
    BY <2>1 DEF Inv, LineInv, MutexHeld, Inside
  <2>3. MutexHeld' /\ CountIsOwn'
    BY <2>1, <2>2, SerialAssumption DEF MutexHeld, CountIsOwn, Inside, Inv, LineInv
  <2>4. \A q \in Threads : ~InLine(q) /\ ~InLine(q)'
    BY <2>1, <2>2 DEF InLine, Inside
  <2>5. LastIsMine' /\ LastHasEnded'
    BY <2>1, <2>4 DEF LastIsMine, LastHasEnded, Inv, LineInv
  <2> QED
    BY <2>3, <2>5 DEF LineInv
<1>6. CASE Break \/ UNCHANGED vars
  BY <1>6 DEF Break, vars, locks, port, Inv, LineInv, MutexHeld, CountIsOwn,
              LastIsMine, LastHasEnded, InLine
<1> QED
  BY <1>1, <1>2, <1>3, <1>4, <1>5, <1>6 DEF Next, Works

\* Bytes are written inside the mutex, where the line before has ended.
LEMMA LineGoesOn ==
    ASSUME Inv, Next, NEW t \in Threads, sent'[t] > sent[t]
    PROVE  IF sent[t] > 0 THEN last = [thread |-> t, at |-> sent[t]]
                          ELSE last.at = LineLength \/ cut
<1>1. sent[t] \in Nat
  BY SerialAssumption DEF Inv, TypeOK
<1>2. WriteSome(t)
  <2>1. ASSUME NEW q \in Threads, WriteSome(q) PROVE q = t
    BY <1>1, <2>1 DEF WriteSome, Inv, TypeOK
  <2>2. ASSUME NEW q \in Threads, UnlockQuery(q) PROVE FALSE
    BY <1>1, <2>2 DEF UnlockQuery, Inv, TypeOK
  <2>3. ~(UNCHANGED sent)
    BY <1>1
  <2> QED
    BY <2>1, <2>2, <2>3 DEF Next, Works, LogEntry, Message, LockSerial, LockQuery,
       Filter, CheckFd, WriteFails, UnlockSerial, Break
<1>3. pc[t] = "writing" /\ \A q \in Threads \ {t} : pc[q] \notin Inside
  BY <1>2 DEF WriteSome, Inv, LineInv, MutexHeld, Inside
<1>4. CASE sent[t] > 0
  BY <1>3, <1>4 DEF Inv, LineInv, LastIsMine, InLine
<1>5. CASE ~(sent[t] > 0)
  <2>1. \A q \in Threads : ~InLine(q)
    BY <1>3, <1>5 DEF InLine, Inside
  <2> QED
    BY <1>5, <2>1 DEF Inv, LineInv, LastHasEnded
<1> QED
  BY <1>4, <1>5

(***************************************************************************)
(* For any number of threads, wherever a write is cut short, fails or is   *)
(* interrupted: no line is torn by another one.                            *)
(***************************************************************************)
THEOREM LinesAreWhole == Spec => LinesWhole
<1> DEFINE Whole == \A t \in Threads : sent'[t] > sent[t] =>
                      IF sent[t] > 0 THEN last = [thread |-> t, at |-> sent[t]]
                                     ELSE last.at = LineLength \/ cut
<1>1. Init => LineInv
  BY SerialAssumption DEF Init, LineInv, MutexHeld, CountIsOwn, LastIsMine,
                          LastHasEnded, InLine, Inside
<1>2. TypeOK /\ LineInv /\ [Next]_vars => LineInv'
  BY LineKept DEF Inv
<1>3. TypeOK /\ LineInv /\ [Next]_vars => [Whole]_vars
  BY LineGoesOn DEF Inv
<1> QED
  BY <1>1, <1>2, <1>3, SerialTypes, PTL DEF Spec, LinesWhole

-----------------------------------------------------------------------------
(* The order of the two mutexes.                                           *)

\* From LockSerial to UnlockSerial.
InSink == {"fd", "lock_query", "writing", "unlock_query", "unlock_serial"}

SinkHeld == \A t \in Threads : serial_mutex = t => pc[t] \in InSink

LEMMA SinkKept ==
    ASSUME TypeOK, SinkHeld, [Next]_vars
    PROVE  SinkHeld'
<1>1. ASSUME NEW t \in Threads, NEW label, Goto(t, label), UNCHANGED serial_mutex,
             serial_mutex = t => label \in InSink
      PROVE  SinkHeld'
  BY <1>1 DEF Goto, TypeOK, SinkHeld
<1>2. ASSUME NEW t \in Threads, LogEntry(t) \/ Filter(t) \/ Message(t)
      PROVE  SinkHeld'
  <2>1. serial_mutex # t
    BY <1>2 DEF LogEntry, Filter, Message, SinkHeld, InSink
  <2> QED
    BY <1>1, <1>2, <2>1 DEF LogEntry, Filter, Message, locks
<1>3. ASSUME NEW t \in Threads, LockSerial(t)
      PROVE  SinkHeld'
  BY <1>3 DEF LockSerial, Goto, TypeOK, SinkHeld, InSink
<1>4. ASSUME NEW t \in Threads, UnlockSerial(t)
      PROVE  SinkHeld'
  BY <1>4, SerialAssumption DEF UnlockSerial, SinkHeld
<1>5. ASSUME NEW t \in Threads,
             CheckFd(t) \/ LockQuery(t) \/ WriteFails(t) \/ UnlockQuery(t)
      PROVE  SinkHeld'
  BY <1>1, <1>5 DEF CheckFd, LockQuery, WriteFails, UnlockQuery, Return, locks, InSink
<1>6. ASSUME NEW t \in Threads, WriteSome(t)
      PROVE  SinkHeld'
  <2>1. PICK label \in {"unlock_query", "writing"} : Goto(t, label)
    BY <1>6 DEF WriteSome
  <2> QED
    BY <1>1, <1>6, <2>1 DEF WriteSome, locks, InSink
<1>7. CASE Break \/ UNCHANGED vars
  BY <1>7 DEF Break, vars, locks, SinkHeld
<1> QED
  BY <1>2, <1>3, <1>4, <1>5, <1>6, <1>7 DEF Next, Works

(***************************************************************************)
(* Any number of threads, whatever the port does: nobody waits in a        *)
(* circle, so whoever holds a mutex can always go on to release it.        *)
(***************************************************************************)
THEOREM NobodyWaitsInCircles == Spec => []NoCircularWait
<1>1. Init => LineInv /\ SinkHeld
  BY SerialAssumption DEF Init, LineInv, MutexHeld, CountIsOwn, LastIsMine,
                          LastHasEnded, InLine, Inside, SinkHeld
<1>2. TypeOK /\ LineInv /\ [Next]_vars => LineInv'
  BY LineKept DEF Inv
<1>3. TypeOK /\ SinkHeld /\ [Next]_vars => SinkHeld'
  BY SinkKept
<1>4. TypeOK /\ LineInv /\ SinkHeld => NoCircularWait
  BY DEF TypeOK, LineInv, MutexHeld, Inside, SinkHeld, InSink, NoCircularWait
<1> QED
  BY <1>1, <1>2, <1>3, <1>4, SerialTypes, PTL DEF Spec
=============================================================================
