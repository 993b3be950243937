--------------------------- MODULE InterruptChannel ---------------------------
(***************************************************************************)
(* What the INTERRUPT/IN endpoint of the virtual device promises, with     *)
(* URBs, cache and link power left out.  Interrupts are numbered in the    *)
(* order they are raised.  Each is pending until the host has received it, *)
(* once; or a newer one that is itself still pending has replaced it; or   *)
(* it was lost with a URB that could not carry it.  What has gone never    *)
(* comes back.  The order is not promised: an old interrupt may reach the  *)
(* host after a newer one.                                                 *)
(***************************************************************************)
EXTENDS Naturals, Sequences

VARIABLES
  nRaise,     \* interrupts raised so far
  pending,    \* those the device still has
  delivered,  \* those the host has received, in that order
  lost        \* those lost

channelVars == <<nRaise, pending, delivered, lost>>

ChannelInit ==
  /\ nRaise = 0
  /\ pending = {}
  /\ delivered = << >>
  /\ lost = {}

Raise ==
  /\ nRaise' = nRaise + 1
  /\ pending' = pending \cup {nRaise + 1}
  /\ UNCHANGED <<delivered, lost>>

Deliver(v) ==
  /\ pending' = pending \ {v}
  /\ delivered' = Append(delivered, v)
  /\ UNCHANGED <<nRaise, lost>>

\* Newest wins, but not over one that has left already.
Replace(v) ==
  /\ \E w \in pending : v < w
  /\ pending' = pending \ {v}
  /\ UNCHANGED <<nRaise, delivered, lost>>

Lose(v) ==
  /\ pending' = pending \ {v}
  /\ lost' = lost \cup {v}
  /\ UNCHANGED <<nRaise, delivered>>

ChannelNext ==
  \/ Raise
  \/ \E v \in pending : Deliver(v) \/ Replace(v) \/ Lose(v)

ChannelSpec == ChannelInit /\ [][ChannelNext]_channelVars
===============================================================================
