----------------------------- MODULE MissionPipe -----------------------------
(***************************************************************************)
(* What a WRITE_BUFFER_TO_READ_REQUEST_QUEUE promises its clients, with    *)
(* lists, locks and handlers left out: a pipe that takes over the data of  *)
(* every write it acknowledges, hands it to at most one read, and answers  *)
(* every request at most once.  It does not promise an order: Misc.c lets  *)
(* a later write overtake a buffered one.  Nor does it promise that a read *)
(* is answered whenever there is data.                                     *)
(***************************************************************************)
CONSTANTS Writes, Reads, NoWrite

VARIABLES
  transit,   \* acknowledged writes whose data no read has been given yet
  written,   \* "none", "handling", "success" or "error" for each write
  asked,     \* "none", "waiting", "success", "error" or "cancelled"
  answer     \* the write whose data each successful read was given

pipeVars == <<transit, written, asked, answer>>

PipeInit ==
  /\ transit = {}
  /\ written = [w \in Writes |-> "none"]
  /\ asked = [r \in Reads |-> "none"]
  /\ answer = [r \in Reads |-> NoWrite]

Submit(w) ==
  /\ written[w] = "none"
  /\ \E s \in {"handling", "error"} : written' = [written EXCEPT ![w] = s]
  /\ UNCHANGED <<transit, asked, answer>>

Ask(r) ==
  /\ asked[r] = "none"
  /\ asked' = [asked EXCEPT ![r] = "waiting"]
  /\ UNCHANGED <<transit, written, answer>>

\* The write is acknowledged although nobody has read it yet.
Accept(w) ==
  /\ written[w] = "handling"
  /\ written' = [written EXCEPT ![w] = "success"]
  /\ transit' = transit \cup {w}
  /\ UNCHANGED <<asked, answer>>

Refuse(w) ==
  /\ written[w] = "handling"
  /\ written' = [written EXCEPT ![w] = "error"]
  /\ UNCHANGED <<transit, asked, answer>>

Answer(w, r) ==
  /\ asked[r] = "waiting"
  /\ asked' = [asked EXCEPT ![r] = "success"]
  /\ answer' = [answer EXCEPT ![r] = w]

\* Data in transit is given to a waiting read.
Deliver(w, r) ==
  /\ w \in transit
  /\ transit' = transit \ {w}
  /\ Answer(w, r)
  /\ UNCHANGED written

\* A write is acknowledged and given to a waiting read in one go.
PassThrough(w, r) ==
  /\ written[w] = "handling"
  /\ written' = [written EXCEPT ![w] = "success"]
  /\ Answer(w, r)
  /\ UNCHANGED transit

\* Neither side gets anything out of a match that failed.
FailBoth(w, r) ==
  /\ written[w] = "handling"
  /\ asked[r] = "waiting"
  /\ written' = [written EXCEPT ![w] = "error"]
  /\ asked' = [asked EXCEPT ![r] = "error"]
  /\ UNCHANGED <<transit, answer>>

Cancel(r) ==
  /\ asked[r] = "waiting"
  /\ asked' = [asked EXCEPT ![r] = "cancelled"]
  /\ UNCHANGED <<transit, written, answer>>

PipeNext ==
  \/ \E w \in Writes : Submit(w) \/ Accept(w) \/ Refuse(w)
  \/ \E r \in Reads : Ask(r) \/ Cancel(r)
  \/ \E w \in Writes, r \in Reads :
        Deliver(w, r) \/ PassThrough(w, r) \/ FailBoth(w, r)

PipeSpec == PipeInit /\ [][PipeNext]_pipeVars
==============================================================================
