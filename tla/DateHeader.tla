----------------------------- MODULE DateHeader -----------------------------
(***************************************************************************)
(* The two users of the C library's calendar in connection threads:        *)
(* http_get_current_date of src/src/http/http.c, which formats what gmtime *)
(* left in a static struct tm, and log_msg of                              *)
(* src/src/utils/logging/logging.c, which does the same with localtime     *)
(* under a mutex of its own.  POSIX allows both functions to use one       *)
(* struct, and the GNU C library does.                                     *)
(*                                                                         *)
(* A struct tm has two fields here, written and read one after the other:  *)
(* a day and an hour, of Hours hours.                                      *)
(***************************************************************************)
EXTENDS Integers, Sequences

CONSTANTS
    Threads,      \* connection threads
    None,         \* no thread
    Hours,        \* hours in a day
    Offset,       \* local time is this many hours ahead of GMT
    MaxTime,      \* bound: the time goes on to this hour
    MaxLog        \* bound: the pieces of text in the log

VARIABLES
    now,          \* the time in hours
    tm,           \* the static struct tm
    pc,           \* where each thread is
    raw,          \* the time each thread has asked for
    text,         \* the time each thread has formatted, or is formatting
    mutex,        \* the holder of log_mutex
    log           \* the pieces that were written to the log file

vars == <<now, tm, pc, raw, text, mutex, log>>

Broken(t) == [day |-> t \div Hours, hour |-> t % Hours]
LogPcs == {"local day", "local hour", "stamp day", "stamp hour", "stamp", "message", "unlock"}

Init ==
    /\ now = 0 /\ tm = Broken(0)
    /\ pc = [t \in Threads |-> "serve"]
    /\ raw = [t \in Threads |-> 0]
    /\ text = [t \in Threads |-> Broken(0)]
    /\ mutex = None /\ log = <<>>

Tick == /\ now < MaxTime /\ now' = now + 1
        /\ UNCHANGED <<tm, pc, raw, text, mutex, log>>

Goto(t, to) == pc' = [pc EXCEPT ![t] = to]

\* A thread writes one field of the struct, or reads one.
Put(t, at, to, field, value) ==
    /\ pc[t] = at /\ Goto(t, to)
    /\ tm' = [tm EXCEPT ![field] = value[field]]
    /\ UNCHANGED <<now, raw, text, mutex, log>>
Get(t, at, to, field) ==
    /\ pc[t] = at /\ Goto(t, to)
    /\ text' = [text EXCEPT ![t][field] = tm[field]]
    /\ UNCHANGED <<now, tm, raw, mutex, log>>

\* get_current_time_gmt asks for the time, gmtime fills the struct, strftime reads it.
AskTime(t) ==
    /\ pc[t] = "serve" /\ Goto(t, "gmt day")
    /\ raw' = [raw EXCEPT ![t] = now]
    /\ UNCHANGED <<now, tm, text, mutex, log>>
GmtDay(t) == Put(t, "gmt day", "gmt hour", "day", Broken(raw[t]))
GmtHour(t) == Put(t, "gmt hour", "format day", "hour", Broken(raw[t]))
FormatDay(t) == Get(t, "format day", "format hour", "day")
FormatHour(t) == Get(t, "format hour", "sent", "hour")
Sent(t) == /\ pc[t] = "sent" /\ Goto(t, "serve")
           /\ UNCHANGED <<now, tm, raw, text, mutex, log>>

\* log_msg: a plain message has no stamp.
LogLock(t) ==
    /\ pc[t] = "serve" /\ mutex = None
    /\ mutex' = t /\ raw' = [raw EXCEPT ![t] = now]
    /\ \E to \in {"local day", "message"} : Goto(t, to)
    /\ UNCHANGED <<now, tm, text, log>>
LocalDay(t) == Put(t, "local day", "local hour", "day", Broken(raw[t] + Offset))
LocalHour(t) == Put(t, "local hour", "stamp day", "hour", Broken(raw[t] + Offset))
StampDay(t) == Get(t, "stamp day", "stamp hour", "day")
StampHour(t) == Get(t, "stamp hour", "stamp", "hour")

Write(t, at, to, piece) ==
    /\ pc[t] = at /\ Len(log) < MaxLog /\ Goto(t, to)
    /\ log' = Append(log, [by |-> t, piece |-> piece])
    /\ UNCHANGED <<now, tm, raw, text>>

\* Fault: the mutex protects the stamp only.
StampReleases(t) == Write(t, "stamp", "message", "stamp") /\ mutex' = None

Stamp(t) == Write(t, "stamp", "message", "stamp") /\ UNCHANGED mutex
Message(t) == Write(t, "message", "unlock", "message") /\ UNCHANGED mutex
LogUnlock(t) ==
    /\ pc[t] = "unlock" /\ Goto(t, "serve")
    /\ mutex' = None
    /\ UNCHANGED <<now, tm, raw, text, log>>

Date(t) == AskTime(t) \/ GmtDay(t) \/ GmtHour(t) \/ FormatDay(t) \/ FormatHour(t) \/ Sent(t)
LogMsg(t) == \/ LogLock(t) \/ LocalDay(t) \/ LocalHour(t) \/ StampDay(t) \/ StampHour(t)
             \/ Stamp(t) \/ Message(t) \/ LogUnlock(t)

Next == Tick \/ \E t \in Threads : Date(t) \/ LogMsg(t)

Spec == Init /\ [][Next]_vars

-----------------------------------------------------------------------------
(* Properties                                                              *)

\* The stamp and the message of a log line are written by one thread without
\* another piece between them, and only one thread is in log_msg at a time.
LinesAreWhole ==
    /\ \A k \in 1 .. Len(log) - 1 :
        log[k].piece = "stamp" => log[k + 1] = [by |-> log[k].by, piece |-> "message"]
    /\ \A t \in Threads : pc[t] \in LogPcs => mutex = t

\* A Date header shows the time for which its thread asked, in GMT ("%a, %d %b %Y
\* %H:%M:%S GMT", http.c:812).
DateIsGmt == \A t \in Threads : pc[t] = "sent" => text[t] = Broken(raw[t])
=============================================================================
