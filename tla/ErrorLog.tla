------------------------------ MODULE ErrorLog ------------------------------
(***************************************************************************)
(* The distinct error log (aeron-lib/include/concurrent/errors): threads   *)
(* record errors in a mapped buffer, one record per distinct error, and    *)
(* another process reads the records at any moment, also after the writer  *)
(* has died in the middle of a call: a thread may stop at any step.        *)
(* Lengths are in units of four bytes. An error is a pair of a code and a  *)
(* description; the message that follows the description is not compared.  *)
(***************************************************************************)
EXTENDS Integers, Sequences, FiniteSets

CONSTANTS
  Threads,     \* the threads that record errors
  Errors,      \* the errors: sequences of a code and a description
  TextLength,  \* per error the length of its encoded text
  Capacity,    \* m_buffer.capacity()
  MaxCalls,    \* bound: calls of record
  MaxTime,     \* bound: the clock
  MaxReads     \* bound: calls of ErrorLogReader::read

HEADER_LENGTH == 6
RECORD_ALIGNMENT == 2
Align(n) == ((n + RECORD_ALIGNMENT - 1) \div RECORD_ALIGNMENT) * RECORD_ALIGNMENT

ErrorLogAssumption ==
  /\ IsFiniteSet(Threads) /\ "none" \notin Threads
  /\ Capacity \in Nat /\ MaxCalls \in Nat /\ MaxTime \in Nat /\ MaxReads \in Nat
  /\ TextLength \in [Errors -> Nat \ {0}]

NoText == "empty"
None == "none"
Idle == [pc |-> "idle"]

VARIABLES
  buffer,           \* per offset the record that begins there
  observations,     \* the published and the pending part of m_observations
  numObservations,  \* m_numObservations
  nextOffset,       \* m_nextOffset
  lock,             \* the holder of m_lock
  call,             \* per thread the call of record under way
  clock,
  calls,            \* history: calls begun
  recorded,         \* history: per error the calls that returned true
  reader,           \* the call of ErrorLogReader::read under way
  reads             \* history: reads begun

vars == <<buffer, observations, numObservations, nextOffset, lock, call, clock, calls,
          recorded, reader, reads>>

ReaderState == <<reader, reads>>
LogState == <<observations, numObservations, nextOffset>>

Init ==
  /\ buffer = [o \in 0 .. Capacity |->
       [length |-> 0, count |-> 0, last |-> 0, first |-> 0, text |-> NoText]]
  /\ observations = <<>> /\ numObservations = 0 /\ nextOffset = 0
  /\ lock = None /\ call = [t \in Threads |-> Idle] /\ clock = 1
  /\ calls = 0 /\ recorded = [e \in Errors |-> 0]
  /\ reader = Idle /\ reads = 0

Tick ==
  /\ clock < MaxTime /\ clock' = clock + 1
  /\ UNCHANGED <<buffer, LogState, lock, call, calls, recorded, ReaderState>>

-----------------------------------------------------------------------------

(* findObservation: the places among the first n that hold this error. *)
findObservation(n, error) == {k \in 1 .. n : observations[k].error = error}

(* The record of the error is there: its count is next. *)
ToCount(c, offset) == [pc |-> "count", error |-> c.error, time |-> c.time, offset |-> offset]

(* record: the clock is read first, the observations are searched without  *)
(* the lock.                                                               *)
record(t) ==
  /\ call[t] = Idle /\ calls < MaxCalls /\ calls' = calls + 1
  /\ \E error \in Errors :
       call' = [call EXCEPT ![t] = [pc |-> "find", error |-> error, time |-> clock]]
  /\ UNCHANGED <<buffer, LogState, lock, clock, recorded, ReaderState>>

Find(t) ==
  /\ call[t].pc = "find"
  /\ LET found == findObservation(numObservations, call[t].error)
     IN  call' = [call EXCEPT ![t] =
           IF found = {} THEN [pc |-> "lock", error |-> @.error, time |-> @.time,
                               seen |-> numObservations]
           ELSE ToCount(@, observations[CHOOSE k \in found : TRUE].offset)]
  /\ UNCHANGED <<buffer, LogState, lock, clock, calls, recorded, ReaderState>>

(* Mutant: what was published since the first search is not searched. *)
SearchAgain_Never(t) == {}

SearchAgain(t) ==
  IF call[t].seen = numObservations THEN {}
  ELSE findObservation(numObservations, call[t].error)

(* newObservation under m_lock: the error was published meanwhile, or      *)
(* there is no room and record returns false, or a record is begun.        *)
newObservation(t) ==
  /\ call[t].pc = "lock" /\ lock = None
  /\ LET found == SearchAgain(t)
         length == HEADER_LENGTH + TextLength[call[t].error]
     IN  \/ /\ found # {}
            /\ call' = [call EXCEPT ![t] =
                 ToCount(@, observations[CHOOSE k \in found : TRUE].offset)]
            /\ UNCHANGED lock
         \/ /\ found = {} /\ nextOffset + length > Capacity
            /\ call' = [call EXCEPT ![t] = Idle] /\ UNCHANGED lock
         \/ /\ found = {} /\ nextOffset + length <= Capacity
            /\ call' = [call EXCEPT ![t] = [pc |-> "text", error |-> @.error, time |-> @.time,
                                            offset |-> nextOffset, length |-> length]]
            /\ lock' = t
  /\ UNCHANGED <<buffer, LogState, clock, calls, recorded, ReaderState>>

(* The text and the time of the first observation are stored. *)
putText(t) ==
  /\ call[t].pc = "text"
  /\ buffer' = [buffer EXCEPT ![call[t].offset].text = call[t].error,
                              ![call[t].offset].first = call[t].time]
  /\ call' = [call EXCEPT ![t].pc = "publish"]
  /\ UNCHANGED <<LogState, lock, clock, calls, recorded, ReaderState>>

NextOffset(offset, length) == Align(offset + length)

(* The offset of the next record moves and the observation is published    *)
(* by the number of observations.                                          *)
publish(t) ==
  /\ call[t].pc = "publish"
  /\ nextOffset' = NextOffset(call[t].offset, call[t].length)
  /\ observations' = Append(observations, [error |-> call[t].error, offset |-> call[t].offset])
  /\ numObservations' = numObservations + 1
  /\ call' = [call EXCEPT ![t].pc = "length"]
  /\ UNCHANGED <<buffer, lock, clock, calls, recorded, ReaderState>>

(* The length shows the record to readers; the lock is released. *)
putLength(t) ==
  /\ call[t].pc = "length"
  /\ buffer' = [buffer EXCEPT ![call[t].offset].length = call[t].length]
  /\ lock' = None
  /\ call' = [call EXCEPT ![t] = ToCount(@, @.offset)]
  /\ UNCHANGED <<LogState, clock, calls, recorded, ReaderState>>

(* getAndAddInt32 of the observation count. *)
addCount(t) ==
  /\ call[t].pc = "count"
  /\ buffer' = [buffer EXCEPT ![call[t].offset].count = @ + 1]
  /\ call' = [call EXCEPT ![t].pc = "last"]
  /\ UNCHANGED <<LogState, lock, clock, calls, recorded, ReaderState>>

(* The time of the last observation, and record returns true. *)
putLast(t) ==
  /\ call[t].pc = "last"
  /\ buffer' = [buffer EXCEPT ![call[t].offset].last = call[t].time]
  /\ recorded' = [recorded EXCEPT ![call[t].error] = @ + 1]
  /\ call' = [call EXCEPT ![t] = Idle]
  /\ UNCHANGED <<LogState, lock, clock, calls, ReaderState>>

-----------------------------------------------------------------------------
(* The errors whose records a reader can see. *)
Visible == {e \in Errors : \E o \in DOMAIN buffer : buffer[o].length # 0 /\ buffer[o].text = e}

(* ErrorLogReader::read, from a time since on: the walk begins. before is  *)
(* the history of what was there then.                                     *)
read(since) ==
  /\ reader = Idle /\ reads < MaxReads /\ reads' = reads + 1
  /\ reader' = [pc |-> "length", since |-> since, offset |-> 0, length |-> 0, last |-> 0,
                handed |-> <<>>, before |-> Visible]
  /\ UNCHANGED <<buffer, LogState, lock, call, clock, calls, recorded>>

(* The walk ends at the end of the buffer or at a record without length. *)
ReadLength ==
  /\ reader.pc = "length"
  /\ LET ends == reader.offset >= Capacity \/ buffer[reader.offset].length = 0 IN
     reader' = IF ends THEN [reader EXCEPT !.pc = "done"]
               ELSE [reader EXCEPT !.pc = "last", !.length = buffer[reader.offset].length]
  /\ UNCHANGED <<buffer, LogState, lock, call, clock, calls, recorded, reads>>

(* The time of the last observation decides whether the record is handed   *)
(* to the consumer.                                                        *)
ReadLast ==
  /\ reader.pc = "last"
  /\ LET entry == buffer[reader.offset] IN
     reader' = [reader EXCEPT !.pc = IF entry.last >= reader.since THEN "consume" ELSE "next",
                              !.last = entry.last]
  /\ UNCHANGED <<buffer, LogState, lock, call, clock, calls, recorded, reads>>

(* The record is handed over. Its count is not kept here: a record is      *)
(* visible before its first observation is counted.                        *)
Consume ==
  /\ reader.pc = "consume"
  /\ LET entry == buffer[reader.offset] IN
     reader' = [reader EXCEPT !.pc = "next",
                  !.handed = Append(@, [text |-> entry.text, first |-> entry.first,
                                        last |-> reader.last, length |-> reader.length])]
  /\ UNCHANGED <<buffer, LogState, lock, call, clock, calls, recorded, reads>>

(* The next record begins at the next aligned offset. *)
NextRecord ==
  /\ reader.pc = "next"
  /\ reader' = [reader EXCEPT !.pc = "length", !.length = 0, !.last = 0,
                              !.offset = @ + Align(reader.length)]
  /\ UNCHANGED <<buffer, LogState, lock, call, clock, calls, recorded, reads>>

ReadReturns ==
  /\ reader.pc = "done" /\ reader' = Idle
  /\ UNCHANGED <<buffer, LogState, lock, call, clock, calls, recorded, reads>>

Next ==
  \/ Tick
  \/ \E t \in Threads :
       record(t) \/ Find(t) \/ newObservation(t) \/ putText(t) \/ publish(t) \/ putLength(t)
         \/ addCount(t) \/ putLast(t)
  \/ \E since \in {0, MaxTime} : read(since)
  \/ ReadLength \/ ReadLast \/ Consume \/ NextRecord \/ ReadReturns

Spec == Init /\ [][Next]_vars
-----------------------------------------------------------------------------
(* DistinctErrorLog: one observation per distinct error, whatever threads  *)
(* meet it for the first time at the same moment, and every observation    *)
(* has its place in the vector and its own part of the buffer.             *)
OneRecordPerError ==
  /\ \A j, k \in 1 .. numObservations :
       j # k => /\ observations[j].error # observations[k].error
                /\ observations[j].offset # observations[k].offset
  /\ numObservations <= Capacity \div HEADER_LENGTH

(* record: between calls the count of every record is the number of calls  *)
(* that were accepted for this error, and no accepted error is missing.    *)
ErrorsCounted ==
  (\A t \in Threads : call[t] = Idle) =>
    \A e \in Errors :
      LET found == {k \in 1 .. numObservations : observations[k].error = e} IN
      /\ (recorded[e] > 0) = (found # {})
      /\ \A k \in found : buffer[observations[k].offset].count = recorded[e]

(* ErrorLogReader: every record handed to the consumer is whole, with the  *)
(* text and the length of one error and the time it was first seen.        *)
ErrorsReadWhole ==
  reader # Idle => \A i \in DOMAIN reader.handed :
    LET h == reader.handed[i] IN
    /\ h.text \in Errors /\ h.first > 0 /\ h.length = HEADER_LENGTH + TextLength[h.text]
    /\ h.last >= reader.since

(* ErrorLogReader: a read from time 0 on hands over every error that was   *)
(* in the log when it began, once, while threads add records behind them.  *)
ReadFindsAll ==
  (reader # Idle /\ reader.pc = "done" /\ reader.since = 0) =>
    /\ \A e \in reader.before : \E i \in DOMAIN reader.handed : reader.handed[i].text = e
    /\ \A i, j \in DOMAIN reader.handed : i # j => reader.handed[i].text # reader.handed[j].text
=============================================================================
