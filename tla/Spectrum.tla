------------------------------ MODULE Spectrum ------------------------------
(***************************************************************************)
(* The analysis topics: SpectrumStatus (lib.rs), which the processing      *)
(* thread fills as long as it is marked active, and the subscriptions of   *)
(* the websocket connections (socketserver.rs), to which new frames are    *)
(* pushed between commands.  What is in a frame is left out.               *)
(***************************************************************************)
EXTENDS Connections

CONSTANTS
  BinCounts,   \* the numbers of bins a subscription may ask for
  DefaultBins, \* and the number without one that does
  MaxFrames    \* bound on the frames that are computed

ASSUME SpectrumAssumption ==
  /\ MaxFrames \in Nat
  /\ BinCounts \subseteq Nat /\ DefaultBins \in BinCounts

VARIABLES
  active,       \* SpectrumStatus: the FFT is to run,
  numBins,      \*   for so many bins,
  frame,        \*   and seq and the number of bins of the last frame
  analysing,    \* the processing thread has seen active and is in the FFT
  subscribed,   \* of each connection: the topics it has subscribed to,
  lastSeq       \*   and the last frame it has been sent

spectrumVars == <<active, numBins, frame, analysing, subscribed, lastSeq>>

Topics == {"Spectrum", "Energy"}

InitSpectrum ==
  /\ active = FALSE
  /\ numBins = DefaultBins
  /\ frame = [seq |-> 0, bins |-> 0]
  /\ analysing = FALSE
  /\ subscribed = [c \in Clients |-> {}]
  /\ lastSeq = [c \in Clients |-> 0]

\* ------------------------- The processing thread -------------------------

\* update_spectrum_status looks at active, and computes without the lock.
StartAnalysis ==
  /\ active /\ ~analysing
  /\ analysing' = TRUE
  /\ UNCHANGED <<active, numBins, frame, subscribed, lastSeq>>

\* The result is written if the lock is free, whatever has become of active.
FinishAnalysis ==
  /\ analysing
  /\ analysing' = FALSE
  /\ \/ /\ frame.seq < MaxFrames
        /\ frame' = [seq |-> frame.seq + 1, bins |-> IF numBins < 2 THEN 2 ELSE numBins]
     \/ UNCHANGED frame
  /\ UNCHANGED <<active, numBins, subscribed, lastSeq>>

\* ----------------------------- The handlers ------------------------------

\* Subscribe: the spectrum is switched on for everyone, with the bins of the last
\* subscription that named a number.
SubscribeSpectrum(c) ==
  /\ active' = TRUE
  /\ numBins' \in {numBins} \cup BinCounts
  /\ subscribed' = [subscribed EXCEPT ![c] = @ \cup {"Spectrum"}]
  /\ UNCHANGED <<frame, analysing, lastSeq>>

SubscribeEnergy(c) ==
  /\ subscribed' = [subscribed EXCEPT ![c] = @ \cup {"Energy"}]
  /\ UNCHANGED <<active, numBins, frame, analysing, lastSeq>>

\* Unsubscribe: the spectrum is switched off for everyone.
UnsubscribeSpectrum(c) ==
  /\ active' = FALSE
  /\ subscribed' = [subscribed EXCEPT ![c] = @ \ {"Spectrum"}]
  /\ UNCHANGED <<numBins, frame, analysing, lastSeq>>

UnsubscribeEnergy(c) ==
  /\ subscribed' = [subscribed EXCEPT ![c] = @ \ {"Energy"}]
  /\ UNCHANGED <<active, numBins, frame, analysing, lastSeq>>

\* Mutant: a connection keeps the number of its first frame.
SendOnlyFirst(c) ==
  /\ "Spectrum" \in subscribed[c] /\ frame.seq # lastSeq[c]
  /\ lastSeq' = [lastSeq EXCEPT ![c] = IF @ = 0 THEN frame.seq ELSE @]
  /\ UNCHANGED <<active, numBins, frame, analysing, subscribed>>

\* push_analysis_frames: a frame is sent once.  The energy levels, which have no
\* sequence number of their own, are sent at every poll and leave no state but
\* their counter, which is left out.
PushSpectrum(c) ==
  /\ "Spectrum" \in subscribed[c]
  /\ frame.seq # lastSeq[c]
  /\ lastSeq' = [lastSeq EXCEPT ![c] = frame.seq]
  /\ UNCHANGED <<active, numBins, frame, analysing, subscribed>>

\* A connection starts without subscriptions, and its end does not touch the
\* shared status.
OpenTopics(c) ==
  /\ subscribed' = [subscribed EXCEPT ![c] = {}]
  /\ lastSeq' = [lastSeq EXCEPT ![c] = 0]
  /\ UNCHANGED <<active, numBins, frame, analysing>>

-----------------------------------------------------------------------------
SpectrumTypes ==
  /\ active \in BOOLEAN
  /\ numBins \in BinCounts
  /\ frame \in [seq : Nat, bins : Nat]
  /\ analysing \in BOOLEAN
  /\ subscribed \in [Clients -> SUBSET Topics]
  /\ lastSeq \in [Clients -> Nat]
=============================================================================
