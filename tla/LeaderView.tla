----------------------------- MODULE LeaderView -----------------------------
(***************************************************************************)
(* What leader resolution promises (spec 2 "Leader Record", 4.1): the     *)
(* masters join the election root one after the other and leave it; the   *)
(* leader is the oldest master still present, which is the child with the *)
(* lowest sequence number as long as the root's cversion does not wrap    *)
(* while masters join (every instance of MCLeaderDetector). A resolution  *)
(* atomically sets the detector's view to that leader, to NoLeader when  *)
(* no master                                                               *)
(* is present (a state distinct from an error), or to Unknown when it     *)
(* fails. LeaderDetector splits a resolution into the list() and data()   *)
(* calls of the ZooKeeper client and is checked to implement this module. *)
(***************************************************************************)
EXTENDS Naturals, FiniteSets

CONSTANTS
    MaxCreates,   \* bound on masters joining the election
    NoLeader,     \* the view when the election root has no children
    Unknown       \* the view when a resolution failed

VARIABLES
    alive,     \* the masters present, by order of joining
    created,   \* number of masters that have joined so far
    view       \* the detector's leader: a master, NoLeader or Unknown

Masters == 1..MaxCreates

\* The leader by the election's convention: the oldest master present.
Oldest(S) == CHOOSE m \in S : \A o \in S : m <= o

Init == alive = {} /\ created = 0 /\ view = Unknown

Join ==
    /\ created < MaxCreates
    /\ created' = created + 1
    /\ alive' = alive \cup {created + 1}
    /\ UNCHANGED view

Leave == \E m \in alive : alive' = alive \ {m} /\ UNCHANGED <<created, view>>

Resolve ==
    /\ view' = IF alive = {} THEN NoLeader ELSE Oldest(alive)
    /\ UNCHANGED <<alive, created>>

Fail == view' = Unknown /\ UNCHANGED <<alive, created>>

Next == Join \/ Leave \/ Resolve \/ Fail

Spec == Init /\ [][Next]_<<alive, created, view>>

=============================================================================
