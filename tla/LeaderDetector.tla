---------------------------- MODULE LeaderDetector ----------------------------
(***************************************************************************)
(* Leader resolution over the ZooKeeper client (spec 4.1): every time the *)
(* children watch of the election root fires, the detector lists the      *)
(* children (zkClient.list, which sorts them with sort.Strings), takes the *)
(* first, reads its data (zkClient.data) and records that master as the   *)
(* leader; an empty listing means NoLeader, a failed call Unknown.       *)
(*                                                                         *)
(* Masters join by creating an ephemeral sequential node. ZooKeeper names *)
(* it after the parent's child version (cversion), a Java int formatted    *)
(* with %010d, which it increments on every create and delete of a child. *)
(* Names are modelled as the byte strings that sort.Strings compares; the *)
(* common "info_" prefix is left out since it never decides an order.     *)
(*                                                                         *)
(* The session is abstracted to whether requests on zkc.conn succeed      *)
(* (ZkClient's connected /\ ConnLive); its event handling is in ZkClient. *)
(***************************************************************************)
EXTENDS Integers, Sequences, FiniteSets
LOCAL INSTANCE SequencesExt

CONSTANTS
    MaxCreates,   \* bound on masters joining the election
    MaxFlaps,     \* bound on losses of the detector's connection
    FirstSeq,     \* the root's cversion when the first master joins
    NoLeader,     \* the view when the election root has no children
    Unknown       \* the view when a resolution failed

MaxInt32 == 2147483647
MinInt32 == -2147483647 - 1

ASSUME MaxCreates \in Nat /\ MaxFlaps \in Nat
ASSUME FirstSeq \in MinInt32..MaxInt32

VARIABLES
    alive,     \* server: the masters whose node is present
    created,   \* server: number of masters that have joined
    seqOf,     \* server: the sequence number in each master's node name
    cversion,  \* server: the child version of the election root
    live,      \* requests on zkc.conn succeed
    flaps,     \* number of connection losses so far
    wst,       \* watch goroutine: "wait", "list", "data", "rearm", "done"
    fired,     \* the armed watch has fired and its event is on the channel
    pending,   \* the first child of the last listing, whose data is read
    view       \* the detector's leader: a master, NoLeader or Unknown

vars == <<alive, created, seqOf, cversion, live, flaps, wst, fired,
          pending, view>>

Masters == 1..MaxCreates

-----------------------------------------------------------------------------
(***************************************************************************)
(* Sequence node names and their order.                                    *)
(***************************************************************************)

\* Java int arithmetic: cversion + 1 wraps past 2^31 - 1.
Inc32(x) == IF x = MaxInt32 THEN MinInt32 ELSE x + 1

\* The decimal digits of |n| (none for 0), without overflowing for the
\* most negative int: for n < 0, n \div 10 rounds down, so the last digit
\* of |n| is 10 - n % 10 unless n % 10 = 0.
RECURSIVE AbsDigits(_)
AbsDigits(n) ==
    IF n = 0 THEN <<>>
    ELSE IF n > 0 THEN AbsDigits(n \div 10) \o <<n % 10>>
    ELSE IF n % 10 = 0 THEN AbsDigits(n \div 10) \o <<0>>
    ELSE AbsDigits(n \div 10 + 1) \o <<10 - (n % 10)>>

ZeroPad(ds, w) ==
    IF Len(ds) >= w THEN ds ELSE [i \in 1..(w - Len(ds)) |-> 0] \o ds

\* String.format("%010d", n) as bytes: '-' is 45, digit d is 48 + d; the
\* width 10 includes the sign.
SeqName(n) ==
    LET ascii(ds) == [i \in DOMAIN ds |-> 48 + ds[i]]
    IN  IF n >= 0 THEN ascii(ZeroPad(AbsDigits(n), 10))
                  ELSE <<45>> \o ascii(ZeroPad(AbsDigits(n), 9))

\* Go's string comparison: byte-wise, a proper prefix first.
RECURSIVE BytesLess(_, _)
BytesLess(a, b) ==
    IF a = <<>> \/ b = <<>> THEN a = <<>> /\ b # <<>>
    ELSE IF Head(a) # Head(b) THEN Head(a) < Head(b)
    ELSE BytesLess(Tail(a), Tail(b))

\* sort.Strings(children) in list(): the masters present, ascending by
\* node name.
SortStrings(S) ==
    SetToSortSeq(S, LAMBDA a, b : BytesLess(SeqName(seqOf[a]),
                                            SeqName(seqOf[b])))

-----------------------------------------------------------------------------

TypeOK ==
    /\ alive \subseteq Masters /\ created \in 0..MaxCreates
    /\ seqOf \in [Masters -> MinInt32..MaxInt32]
    /\ cversion \in MinInt32..MaxInt32
    /\ live \in BOOLEAN /\ fired \in BOOLEAN /\ flaps \in 0..MaxFlaps
    /\ wst \in {"wait", "list", "data", "rearm", "done"}
    /\ pending = NoLeader \/ pending \in Masters
    /\ view \in {NoLeader, Unknown} \/ view \in Masters

\* The detector has connected and starts with a resolution of its own.
Init ==
    /\ alive = {} /\ created = 0
    /\ seqOf = [m \in Masters |-> FirstSeq]
    /\ cversion = FirstSeq
    /\ live = TRUE /\ flaps = 0
    /\ wst = "list" /\ fired = FALSE
    /\ pending = NoLeader /\ view = Unknown

-----------------------------------------------------------------------------
(***************************************************************************)
(* The detector's watch goroutine.                                         *)
(***************************************************************************)

\* The goroutine receives the children-changed event and calls the
\* children watcher.
WatchFire ==
    /\ wst = "wait" /\ fired
    /\ wst' = "list" /\ fired' = FALSE
    /\ UNCHANGED <<alive, created, seqOf, cversion, live, flaps, pending,
                   view>>

\* Mutant: list() without sort.Strings; the server's order is arbitrary.
ListChildrenUnsorted ==
    /\ wst = "list"
    /\ \/ /\ ~live
          /\ view' = Unknown /\ wst' = "rearm" /\ UNCHANGED pending
       \/ /\ live /\ alive = {}
          /\ view' = NoLeader /\ wst' = "rearm" /\ UNCHANGED pending
       \/ /\ live /\ alive # {}
          /\ pending' \in alive /\ wst' = "data" /\ UNCHANGED view
    /\ UNCHANGED <<alive, created, seqOf, cversion, live, flaps, fired>>

\* list(root): fails without a session; else the sorted children. No
\* children is "no leader"; otherwise the first one is read next.
ListChildren ==
    /\ wst = "list"
    /\ \/ /\ ~live
          /\ view' = Unknown /\ wst' = "rearm" /\ UNCHANGED pending
       \/ /\ live /\ alive = {}
          /\ view' = NoLeader /\ wst' = "rearm" /\ UNCHANGED pending
       \/ /\ live /\ alive # {}
          /\ pending' = Head(SortStrings(alive))
          /\ wst' = "data" /\ UNCHANGED view
    /\ UNCHANGED <<alive, created, seqOf, cversion, live, flaps, fired>>

\* Mutant: the sequence number in the node name is recorded instead of
\* the master whose data was read.
ReadDataRaw ==
    /\ wst = "data"
    /\ view' = IF live /\ pending \in alive THEN seqOf[pending]
                                            ELSE Unknown
    /\ wst' = "rearm"
    /\ UNCHANGED <<alive, created, seqOf, cversion, live, flaps, fired,
                   pending>>

\* data(first): fails without a session, or when that node has been
\* deleted since the listing (ErrNoNode); else its master is the leader.
ReadData ==
    /\ wst = "data"
    /\ view' = IF live /\ pending \in alive THEN pending ELSE Unknown
    /\ wst' = "rearm"
    /\ UNCHANGED <<alive, created, seqOf, cversion, live, flaps, fired,
                   pending>>

\* watchChildren(path) from the goroutine: ChildrenW arms a new watch, or
\* fails without a session and the chain ends at the error watcher.
Rearm ==
    /\ wst = "rearm"
    /\ wst' = IF live THEN "wait" ELSE "done"
    /\ UNCHANGED <<alive, created, seqOf, cversion, live, flaps, fired,
                   pending, view>>

-----------------------------------------------------------------------------
(***************************************************************************)
(* The environment: masters join and leave, the connection drops.         *)
(***************************************************************************)

\* A child change fires the watch when one is armed.
FireIfArmed == fired' = (fired \/ wst = "wait")

Join ==
    /\ created < MaxCreates
    /\ created' = created + 1
    /\ alive' = alive \cup {created + 1}
    /\ seqOf' = [seqOf EXCEPT ![created + 1] = cversion]
    /\ cversion' = Inc32(cversion)
    /\ FireIfArmed
    /\ UNCHANGED <<live, flaps, wst, pending, view>>

\* A master's session ends and ZooKeeper deletes its ephemeral node.
Leave ==
    /\ \E m \in alive : alive' = alive \ {m}
    /\ cversion' = Inc32(cversion)
    /\ FireIfArmed
    /\ UNCHANGED <<created, seqOf, live, flaps, wst, pending, view>>

ConnLoss ==
    /\ live /\ flaps < MaxFlaps
    /\ live' = FALSE /\ flaps' = flaps + 1
    /\ UNCHANGED <<alive, created, seqOf, cversion, wst, fired, pending,
                   view>>

ConnBack ==
    /\ ~live /\ live' = TRUE
    /\ UNCHANGED <<alive, created, seqOf, cversion, flaps, wst, fired,
                   pending, view>>

Next ==
    \/ WatchFire \/ ListChildren \/ ReadData \/ Rearm
    \/ Join \/ Leave \/ ConnLoss \/ ConnBack

\* The watch goroutine is never starved by the Go scheduler.
Spec == Init /\ [][Next]_vars /\ WF_vars(WatchFire \/ ListChildren
                                         \/ ReadData \/ Rearm)

-----------------------------------------------------------------------------
(***************************************************************************)
(* Properties.                                                             *)
(***************************************************************************)

Abstract == INSTANCE LeaderView WITH alive <- alive, created <- created,
                                     view <- view

\* Every resolution of list() then data() is one atomic resolution of
\* LeaderView: the first child by sort.Strings is the oldest master still
\* present when its data is read, NoLeader is reported only for an empty
\* root and a failure only as Unknown.
LeaderRefined == Abstract!Spec

\* The leader by the election's convention, as LeaderView defines it.
CurrentLeader == IF alive = {} THEN NoLeader ELSE Abstract!Oldest(alive)

\* Once the connection stays up, the detector ends up tracking the leader
\* (spec 1, 4.1): the resolution re-run on every watch fire converges on
\* the masters present, whatever changes and flaps came before.
LeaderTracked == <>[]live => <>[](view = CurrentLeader)

=============================================================================
