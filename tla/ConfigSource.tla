---------------------------- MODULE ConfigSource ----------------------------
(***************************************************************************)
(* What package config takes a subscribed configuration source to do: once *)
(* opened, it puts versions it has had on a bounded channel, never one     *)
(* older than what it put there before or had when it was opened.  It may  *)
(* skip versions and may repeat one.                                       *)
(***************************************************************************)
EXTENDS Naturals, Sequences

CONSTANTS MaxVersion, FeedCap

Version == 1 .. MaxVersion

VARIABLES
  latest,        \* version the source is at
  emitted,       \* last version put on the channel
  feed,          \* the channel
  started        \* the source has been opened

vars == <<latest, emitted, feed, started>>

Init == latest = 1 /\ emitted = 0 /\ feed = <<>> /\ started = FALSE

Change ==
  /\ latest < MaxVersion
  /\ latest' = latest + 1
  /\ UNCHANGED <<emitted, feed, started>>

Open ==
  /\ ~started
  /\ started' = TRUE
  /\ emitted' = latest
  /\ UNCHANGED <<latest, feed>>

Emit(v) ==
  /\ started
  /\ Len(feed) < FeedCap
  /\ v \in emitted .. latest
  /\ emitted' = v
  /\ feed' = Append(feed, v)
  /\ UNCHANGED <<latest, started>>

Take ==
  /\ feed # <<>>
  /\ feed' = Tail(feed)
  /\ UNCHANGED <<latest, emitted, started>>

Next == Change \/ Open \/ Take \/ \E v \in Version : Emit(v)

Spec == Init /\ [][Next]_vars
=============================================================================
