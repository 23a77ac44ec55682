----------------------------- MODULE FileConfig -----------------------------
(***************************************************************************)
(* Package config/file for one key: the file, the inotify watch on it, the *)
(* listener goroutine and the cache that Get falls back to.                *)
(*                                                                         *)
(* Every state the file goes through has a version of its own, the one it  *)
(* has between the truncation and the end of a write, and the absence of   *)
(* the file, included.  A deletion notice carries the empty value, 0.      *)
(***************************************************************************)
EXTENDS Naturals, Sequences

CONSTANTS
  Reader,        \* goroutines that call Get
  Edits,         \* ways the file is changed: "write", "rename", "replace", "remove"
  MaxVersion,    \* bound on the states of the file
  MaxEvents,     \* bound on events on their way from the kernel
  FeedCap        \* capacity of the channel Watch returns, 10 in the code

Version == 1 .. MaxVersion

ASSUME FileAssumption ==
  /\ MaxVersion \in Nat \ {0} /\ MaxEvents \in Nat \ {0} /\ FeedCap \in Nat \ {0}
  /\ Edits \subseteq {"write", "rename", "replace", "remove"}

VARIABLES
  version,       \* the state the file is in
  file,          \* "whole", "truncated" by a write under way, or "absent"
  watched,       \* the inode at the path is the one inotify watches
  events,        \* events fsnotify has yet to deliver
  started,       \* internal.watchers has a listener for the key
  sending,       \* responses of the event being handled, not yet sent
  handling,      \* the event handleFileChange is at, "none" when it waits
  cache,         \* internal.cache of the key, 0 when it has none
  feed,          \* the channel of the listener
  emitted,       \* history: last file version sent, or the one at the start
  got            \* got[r]: what Get returned to r: 0 nothing yet or an error

diskVars     == <<version, file, watched, events>>
listenerVars == <<sending, handling, cache, feed, emitted>>
vars == <<diskVars, started, listenerVars, got>>

Init ==
  /\ version = 1 /\ file = "whole" /\ watched = FALSE /\ events = <<>>
  /\ started = FALSE
  /\ sending = <<>> /\ handling = "none" /\ cache = 0
  /\ feed = <<>> /\ emitted = 0
  /\ got = [r \in Reader |-> 0]

-----------------------------------------------------------------------------
(* The file and inotify (external).                                        *)

\* The kernel merges an event with an equal one that nobody read yet.
Notify(event) ==
  IF ~watched THEN UNCHANGED events
  ELSE \/ Len(events) < MaxEvents /\ events' = Append(events, event)
       \/ events # <<>> /\ events[Len(events)] = event /\ UNCHANGED events

\* The file comes to its next state; edits that change the inode end the watch.
Become(state, event, sameInode) ==
  /\ version < MaxVersion
  /\ version' = version + 1
  /\ file' = state
  /\ Notify(event)
  /\ watched' = (watched /\ sameInode)
  /\ UNCHANGED <<started, listenerVars, got>>

\* os.WriteFile and the like: truncate, then write.
Truncate ==
  "write" \in Edits /\ file = "whole" /\ Become("truncated", "write", TRUE)

Write == file = "truncated" /\ Become("whole", "write", TRUE)

\* vim: the old file is renamed away and a new one created at the path.
RenameAway ==
  "rename" \in Edits /\ file = "whole" /\ Become("absent", "rename", FALSE)

\* Another file is renamed to the path: the old inode goes away.
Replace ==
  "replace" \in Edits /\ file = "whole" /\ Become("whole", "remove", FALSE)

Unlink ==
  "remove" \in Edits /\ file = "whole" /\ Become("absent", "remove", FALSE)

Create == file = "absent" /\ Become("whole", "create", FALSE)

Disk == Truncate \/ Write \/ RenameAway \/ Replace \/ Unlink \/ Create

-----------------------------------------------------------------------------
(* Get and Watch.                                                          *)

\* os.ReadFile sees a prefix of the file; a truncated one reads as empty.
Readable == file # "absent"

\* Get: the file, else the cache, else an error.
Get(r) ==
  /\ got' = [got EXCEPT ![r] = IF Readable THEN version ELSE cache]
  /\ UNCHANGED <<diskVars, started, listenerVars>>

\* Watch, the first time: inotify watches the inode now at the path.  Later
\* calls return the same channel and change nothing.
Watch ==
  /\ ~started /\ Readable
  /\ started' = TRUE
  /\ watched' = TRUE
  /\ emitted' = version
  /\ UNCHANGED <<version, file, events, sending, handling, cache, feed, got>>

-----------------------------------------------------------------------------
(* The listener goroutine, doWatch and handleFileChange.                   *)

TakeEvent ==
  /\ handling = "none" /\ events # <<>>
  /\ handling' = Head(events)
  /\ events' = Tail(events)
  /\ UNCHANGED <<version, file, watched, started, sending, cache, feed, emitted, got>>

\* Events after which the content may have changed; vim edits by a rename.
ShouldCheck(event) == event \in {"write", "rename"}

\* Bug: the cache is filled once and never refreshed.
HandleChangeCachesOnce ==
  /\ ShouldCheck(handling) /\ sending = <<>>
  /\ IF Readable
     THEN /\ cache' = IF cache = 0 THEN version ELSE cache
          /\ sending' = <<version>>
          /\ UNCHANGED handling
     ELSE /\ handling' = "none"
          /\ UNCHANGED <<cache, sending>>
  /\ UNCHANGED <<diskVars, started, feed, emitted, got>>

\* Write or Rename: read the file, which may by now be a later one, and cache
\* what was read; if it cannot be read the event is dropped.
HandleChange ==
  /\ ShouldCheck(handling) /\ sending = <<>>
  /\ IF Readable
     THEN /\ cache' = version
          /\ sending' = <<version>>
          /\ UNCHANGED handling
     ELSE /\ handling' = "none"
          /\ UNCHANGED <<cache, sending>>
  /\ UNCHANGED <<diskVars, started, feed, emitted, got>>

\* Remove: the empty value goes out as a deletion; the cache stays.
HandleRemove ==
  /\ handling = "remove" /\ sending = <<>>
  /\ sending' = <<0>>
  /\ UNCHANGED <<diskVars, started, handling, cache, feed, emitted, got>>

\* Bug: the send does not mind how much the channel holds.
SendUnbounded ==
  /\ sending # <<>> /\ Len(feed) <= FeedCap
  /\ feed' = Append(feed, Head(sending))
  /\ emitted' = IF Head(sending) = 0 THEN emitted ELSE Head(sending)
  /\ sending' = <<>>
  /\ handling' = "none"
  /\ UNCHANGED <<diskVars, started, cache, got>>

\* Bug: a response that finds the channel full is dropped.
SendOrDrop ==
  /\ sending # <<>>
  /\ IF Len(feed) < FeedCap
     THEN /\ feed' = Append(feed, Head(sending))
          /\ emitted' = IF Head(sending) = 0 THEN emitted ELSE Head(sending)
     ELSE UNCHANGED <<feed, emitted>>
  /\ sending' = <<>>
  /\ handling' = "none"
  /\ UNCHANGED <<diskVars, started, cache, got>>

\* Bug: room in a full channel is made by taking out its oldest response.
SendDropsOldest ==
  /\ sending # <<>>
  /\ feed' = Append(IF Len(feed) < FeedCap THEN feed ELSE Tail(feed), Head(sending))
  /\ emitted' = IF Head(sending) = 0 THEN emitted ELSE Head(sending)
  /\ sending' = <<>>
  /\ handling' = "none"
  /\ UNCHANGED <<diskVars, started, cache, got>>

\* l.ch <- c, which blocks while the channel is full.
Send ==
  /\ sending # <<>> /\ Len(feed) < FeedCap
  /\ feed' = Append(feed, Head(sending))
  /\ emitted' = IF Head(sending) = 0 THEN emitted ELSE Head(sending)
  /\ sending' = <<>>
  /\ handling' = "none"
  /\ UNCHANGED <<diskVars, started, cache, got>>

Listen == TakeEvent \/ HandleChange \/ HandleRemove \/ Send

\* The dispatcher of package config receives a response.
Take ==
  /\ feed # <<>>
  /\ feed' = Tail(feed)
  /\ UNCHANGED <<diskVars, started, sending, handling, cache, emitted, got>>

Next == Disk \/ Watch \/ Listen \/ Take \/ \E r \in Reader : Get(r)

Spec == Init /\ [][Next]_vars

\* The listener runs, the dispatcher keeps receiving, and an edit that was begun
\* is finished; no one has to edit, subscribe or read.
FairSpec ==
  Spec /\ WF_vars(Listen) /\ WF_vars(Take) /\ WF_vars(Write) /\ WF_vars(Create)

-----------------------------------------------------------------------------
(* Properties.                                                             *)

\* Every variable keeps its type.
TypeOK ==
  /\ version \in Version /\ file \in {"whole", "truncated", "absent"}
  /\ watched \in BOOLEAN /\ started \in BOOLEAN
  /\ events \in Seq({"write", "rename", "remove"}) /\ Len(events) <= MaxEvents
  /\ handling \in {"none", "write", "rename", "remove"}
  /\ sending \in Seq(0 .. MaxVersion) /\ Len(sending) <= 1
  /\ feed \in Seq(0 .. MaxVersion) /\ Len(feed) <= FeedCap
  /\ cache \in 0 .. MaxVersion /\ emitted \in 0 .. MaxVersion
  /\ got \in [Reader -> 0 .. MaxVersion]

\* The versions among some responses, in order, the notices of a deletion left out.
Kept(seen, v) == IF v = 0 THEN seen ELSE Append(seen, v)

Versions(responses) ==
  LET upTo[n \in 0 .. Len(responses)] ==
        IF n = 0 THEN <<>> ELSE Kept(upTo[n - 1], responses[n])
  IN upTo[Len(responses)]

Content == Versions(feed)

Source == INSTANCE ConfigSource WITH latest <- version, feed <- Content

\* The notices of a deletion aside, the listener is the source package config
\* counts on, however the file is edited: what it sends was in the file, in that
\* order, and not before Watch was called (file_listener.go:64-99).
ImplementsSource == Source!Spec

\* Get never answers with something older than what subscribers were sent, also
\* when the file is gone and it falls back to the cache: handleFileChange stores
\* the cache before it sends (file.go:46-59, file_listener.go:97-98).
GetNotBehindFeed ==
  [][\A r \in Reader : got'[r] # got[r] /\ got'[r] # 0 => got'[r] >= emitted]_vars

\* As long as no edit replaced the inode watched, what was sent last is what is
\* in the file once the edits stop, whatever events were merged and however late
\* they were handled (file_listener.go:64-99).  Versions are bounded, so the
\* edits do stop.
LastEditIsSent == <>[](watched => emitted = version)

\* file.go:1 and file_listener.go:113: edits of a file subscribed to are hot
\* reloaded, those of vim, which renames it, included.
HotReload == <>[](started => emitted = version)
=============================================================================
