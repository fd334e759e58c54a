----------------------------- MODULE RoomLifecycle -----------------------------
(***************************************************************************)
(* What the room pallet promises of the life of a room, without saying who *)
(* is in it, what it holds or how it is voted on: rooms are numbered in    *)
(* the order they are opened; a room that is open is given up, or gets     *)
(* notice of a block of its own to be closed in; it may get a later one,   *)
(* but no notice is taken back or cut short; and a room that is gone stays *)
(* gone. Room implements this (RoomProperties!LifecycleKept).              *)
(***************************************************************************)
EXTENDS Integers

CONSTANT Notice  \* how many blocks a room is told before it may be closed

VARIABLES
  block,
  opened,  \* how many rooms were opened; the rooms are 0 .. opened - 1
  open,    \* the rooms that are open and have no notice
  notices  \* room -> the first block it may be closed in

lifecycle == <<block, opened, open, notices>>

Rooms == open \cup DOMAIN notices

LifecycleInit ==
  /\ block = 0 /\ opened = 0 /\ open = {}
  /\ notices = [g \in {} |-> 0]

Tick ==
  /\ block' = block + 1
  /\ UNCHANGED <<opened, open, notices>>

Open ==
  /\ open' = open \cup {opened}
  /\ opened' = opened + 1
  /\ UNCHANGED <<block, notices>>

\* The last one leaves.
GiveUp(g) ==
  /\ g \in open
  /\ open' = open \ {g}
  /\ UNCHANGED <<block, opened, notices>>

\* Notice is given, for the first time or again.
GiveNotice(g) ==
  /\ g \in Rooms
  /\ open' = open \ {g}
  /\ notices' = [r \in DOMAIN notices \cup {g} |->
                   IF r = g THEN block + Notice ELSE notices[r]]
  /\ UNCHANGED <<block, opened>>

Close(g) ==
  /\ g \in DOMAIN notices
  /\ block >= notices[g]
  /\ notices' = [r \in DOMAIN notices \ {g} |-> notices[r]]
  /\ UNCHANGED <<block, opened, open>>

LifecycleNext ==
  \/ Tick \/ Open
  \/ \E g \in Rooms : GiveUp(g) \/ GiveNotice(g) \/ Close(g)

LifecycleSpec == LifecycleInit /\ [][LifecycleNext]_lifecycle
=============================================================================
