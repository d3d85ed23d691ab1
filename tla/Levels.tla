------------------------------- MODULE Levels -------------------------------
(***************************************************************************)
(* The signal levels of a device: the ValueHistory of its peak and of its  *)
(* RMS values (utils/countertimer.rs), which the device thread adds to at  *)
(* every chunk and the websocket handlers read, each connection from where *)
(* it has read before (socketserver.rs).  The two histories are under the  *)
(* lock of the status they belong to, and each of them is read or written  *)
(* in one step.                                                            *)
(***************************************************************************)
EXTENDS Connections, Sequences

CONSTANTS
  Kinds,          \* the histories: "peak" and "rms"
  HistoryLength,  \* the records a history holds
  LevelValues,    \* the levels of a chunk; squares, for the RMS
  Widths,         \* the numbers of channels a session may have
  FirstWidth,     \* the number the histories are made for
  MaxRecords      \* bound on the records that are made

ASSUME LevelsAssumption ==
  /\ HistoryLength \in Nat \ {0} /\ MaxRecords \in Nat
  /\ LevelValues \subseteq Nat /\ Widths \subseteq Nat /\ FirstWidth \in Widths

VARIABLES
  records,  \* by kind: the valid records, the newest first
  width,    \* nbr_values of the histories
  peak,     \* by kind: the highest level since the start or the last reset
  clock,    \* the time of the newest record
  lastRead, \* last_pb_peak_time and last_pb_rms_time of each connection
  unread    \* history: the levels each connection has not read yet

levelVars == <<records, width, peak, clock, lastRead, unread>>

InitLevels ==
  /\ records = [k \in Kinds |-> <<>>]
  /\ width = FirstWidth
  /\ peak = [k \in Kinds |-> 0]
  /\ clock = 0
  /\ lastRead = [c \in Clients |-> [k \in Kinds |-> 0]]
  /\ unread = [c \in Clients |-> [k \in Kinds |-> <<>>]]

FirstOf(n, seq) == SubSeq(seq, 1, IF Len(seq) < n THEN Len(seq) ELSE n)

\* --------------------------- The device thread ---------------------------

\* reset_storage, when the number of channels has changed: all is forgotten.
ResetStorage(w) == IF w = width THEN records ELSE [k \in Kinds |-> <<>>]

\* The oldest record makes room for the newest.
PushRecord(rec, recs) == FirstOf(HistoryLength, <<rec>> \o recs)

\* update_playback_signal_status: add_record and add_record_squared of one chunk.
\* If a reader has the lock the chunk is left out.
AddRecord(v, w) ==
  LET kept     == ResetStorage(w)
      oldPeak  == IF w = width THEN peak ELSE [k \in Kinds |-> 0]
      rec      == [time |-> clock + 1, value |-> v]
      wereRead == IF w = width THEN unread ELSE [c \in Clients |-> [k \in Kinds |-> <<>>]]
  IN
  /\ clock < MaxRecords
  /\ clock' = clock + 1
  /\ width' = w
  /\ records' = [k \in Kinds |-> PushRecord(rec, kept[k])]
  /\ peak' = [k \in Kinds |-> IF v > oldPeak[k] THEN v ELSE oldPeak[k]]
  /\ unread' = [c \in Clients |-> [k \in Kinds |-> FirstOf(HistoryLength, <<v>> \o wereRead[c][k])]]
  /\ UNCHANGED lastRead

\* ----------------------------- The handlers ------------------------------

\* The records max_since and average_since go through: from the newest on, to the
\* first that is not later than the time.
LaterThan(recs, time) ==
  CHOOSE n \in 0 .. Len(recs) : /\ \A i \in 1 .. n : recs[i].time > time
                                /\ n < Len(recs) => recs[n + 1].time <= time
Since(k, time) == FirstOf(LaterThan(records[k], time), records[k])

ValuesOf(recs) == [i \in 1 .. Len(recs) |-> recs[i].value]

\* Mutant: the time is that of the oldest record that was read.
OldestTime(recs) == recs[Len(recs)].time

\* The time of the reply, and of the next read: that of the newest record.
ReadUntil(recs) == recs[1].time

\* playback_signal_peak_since_last and playback_signal_rms_since_last, of which the
\* reply is the maximum and the mean of the levels.  Without a new record the reply
\* is empty and the time stays.
SinceLast(c, k) ==
  LET new == Since(k, lastRead[c][k]) IN
  /\ IF new = <<>> THEN UNCHANGED <<lastRead, unread>>
     ELSE /\ lastRead' = [lastRead EXCEPT ![c][k] = ReadUntil(new)]
          /\ unread' = [unread EXCEPT ![c][k] = <<>>]
  /\ UNCHANGED <<records, width, peak, clock>>

\* reset_playback_signal_global_peak, of the peak history only.
ResetPeaks ==
  /\ peak' = [k \in Kinds |-> IF k = "peak" THEN 0 ELSE peak[k]]
  /\ UNCHANGED <<records, width, clock, lastRead, unread>>

\* A new connection reads from its start.
OpenLevels(c) ==
  /\ lastRead' = [lastRead EXCEPT ![c] = [k \in Kinds |-> clock]]
  /\ unread' = [unread EXCEPT ![c] = [k \in Kinds |-> <<>>]]
  /\ UNCHANGED <<records, width, peak, clock>>

-----------------------------------------------------------------------------
Records == [time : Nat, value : LevelValues]

LevelTypes ==
  /\ records \in [Kinds -> Seq(Records)]
  /\ \A k \in Kinds : Len(records[k]) <= HistoryLength
  /\ width \in Widths
  /\ peak \in [Kinds -> {0} \cup LevelValues]
  /\ clock \in Nat
  /\ lastRead \in [Clients -> [Kinds -> Nat]]
  /\ unread \in [Clients -> [Kinds -> Seq(LevelValues)]]

\* What a connection gets next are the levels it has not got yet, all of them that
\* the history can hold and none twice, whoever else reads in between.
ReadingsAreComplete ==
  \A c \in Clients, k \in Kinds : ValuesOf(Since(k, lastRead[c][k])) = unread[c][k]
=============================================================================
