----------------------------- MODULE ConfigView -----------------------------
(***************************************************************************)
(* What config.Watch and config.Bind promise their callers, with nothing   *)
(* about goroutines, locks or channels: the source moves through versions, *)
(* a caller adopts one of them when its call returns and is then pushed    *)
(* later ones.  A caller only ever sees a version the source has had and   *)
(* that its own encoding and type can decode, and from its first push on   *)
(* it never moves back.  The first push itself may be older than the       *)
(* adopted version: config.go:96 reads the source directly while the       *)
(* shared subscription may still carry an older response.                  *)
(***************************************************************************)
EXTENDS Naturals

CONSTANTS
  Call,          \* the calls of Watch and Bind for one key
  MaxVersion,    \* bound on the versions of the source
  Decodable      \* Decodable[c]: the versions call c can unmarshal

Version == 1 .. MaxVersion

VARIABLES
  latest,        \* version the configuration source is at
  view,          \* view[c]: version call c holds, 0 before its call returned
  pushed         \* pushed[c]: c has been given an update since

vars == <<latest, view, pushed>>

Init ==
  /\ latest = 1
  /\ view = [c \in Call |-> 0]
  /\ pushed = [c \in Call |-> FALSE]

Change ==
  /\ latest < MaxVersion
  /\ latest' = latest + 1
  /\ UNCHANGED <<view, pushed>>

Adopt(c) ==
  /\ view[c] = 0
  /\ \E v \in Decodable[c] : v <= latest /\ view' = [view EXCEPT ![c] = v]
  /\ UNCHANGED <<latest, pushed>>

Push(c) ==
  /\ view[c] # 0
  /\ \E v \in Decodable[c] :
       /\ v <= latest
       /\ pushed[c] => v >= view[c]
       /\ view' = [view EXCEPT ![c] = v]
  /\ pushed' = [pushed EXCEPT ![c] = TRUE]
  /\ UNCHANGED latest

Next == Change \/ \E c \in Call : Adopt(c) \/ Push(c)

Spec == Init /\ [][Next]_vars
=============================================================================
