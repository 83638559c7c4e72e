------------------------------ MODULE RaftLog ------------------------------
(***************************************************************************)
(* The replicated log of one node: raft-rs's RaftLog over its Unstable     *)
(* part and over the memory storage of ferromq-raft (MemStorage), which    *)
(* wraps the MemStorageCore of raft-rs and keeps the snapshot to send.     *)
(*                                                                         *)
(* A snapshot is [index, term, conf, data].  Sizes are abstracted to a     *)
(* number of entries.  A fatal! or panic! of the code sets the flag "bad"  *)
(* of the log it happens on.                                               *)
(***************************************************************************)
EXTENDS Integers, Sequences, SequencesExt

\* An Err of a term lookup: Compacted or Unavailable.
NoTerm == -1

Least(a, b) == IF a < b THEN a ELSE b
Most(a, b) == IF a > b THEN a ELSE b

\* "put" are the proposals of a normal entry, "cc" is the change of a
\* configuration entry; "seq" is the context that finds the waiting caller.
NoChange == [type |-> "None", id |-> 0, stale |-> FALSE]

\* Entry::default().
EmptyEntry ==
    [index |-> 0, term |-> 0, type |-> "normal", seq |-> 0, put |-> <<>>,
     cc |-> NoChange]
PutEntry(seq, put) == [EmptyEntry EXCEPT !.seq = seq, !.put = put]
ConfEntry(seq, cc) == [EmptyEntry EXCEPT !.type = "conf", !.seq = seq, !.cc = cc]
IsConf(e) == e.type = "conf"
HasData(e) == e.put # <<>> \/ e.cc # NoChange

EmptyConf ==
    [voters |-> {}, outgoing |-> {}, learners |-> {}, next |-> {}, auto |-> FALSE]

\* What the store wrote into a snapshot: its content and, as history, the last
\* entry whose effect is in it.
NoData == [app |-> 0, seen |-> 0]

\* Snapshot::default().
NoSnap == [index |-> 0, term |-> 0, conf |-> EmptyConf, data |-> NoData]

(***************************************************************************)
(* MemStorage.  "ents" are the entries kept, "at" the metadata of the last *)
(* snapshot applied, "hs" the hard state, "snap" the snapshot to send.     *)
(***************************************************************************)
NewStore ==
    [ents |-> <<>>, at |-> [index |-> 0, term |-> 0],
     hs |-> [term |-> 0, vote |-> 0, commit |-> 0],
     conf |-> EmptyConf, snap |-> NoSnap]

StoreFirst(s) == IF s.ents = <<>> THEN s.at.index + 1 ELSE s.ents[1].index
StoreLast(s) == IF s.ents = <<>> THEN s.at.index ELSE Last(s.ents).index

StoreTerm(s, i) ==
    IF i = s.at.index THEN s.at.term
    ELSE IF i \in StoreFirst(s) .. StoreLast(s)
         THEN s.ents[i - StoreFirst(s) + 1].term
         ELSE NoTerm

\* The snapshot is kept to be sent on; the core takes over its metadata and
\* drops every entry.
ApplySnapshot(s, snap) ==
    [s EXCEPT !.snap = snap, !.ents = <<>>, !.conf = snap.conf,
              !.at = [index |-> snap.index, term |-> snap.term],
              !.hs = [@ EXCEPT !.term = Most(@, snap.term), !.commit = snap.index]]

\* The core refuses a snapshot older than its first entry (SnapshotOutOfDate).
SnapshotOutOfDate(s, snap) == StoreFirst(s) > snap.index

\* The core names its snapshot after the hard state's commit and looks its term
\* up among the entries: a commit outside of them is a panic.
CanSnapshot(s) ==
    s.hs.commit = s.at.index \/ s.hs.commit \in StoreFirst(s) .. StoreLast(s)

CreateSnapshot(s, index, term, data) ==
    [index |-> index, term |-> term, conf |-> s.conf, data |-> data]

\* What raft is given to send: the stored index, term and data under the
\* configuration of the moment.
StoredSnapshot(s) == [s.snap EXCEPT !.conf = s.conf]

\* The entry at the compaction index itself is kept.
Compact(s, index) ==
    IF index <= StoreFirst(s) THEN s
    ELSE [s EXCEPT !.ents = SelectSeq(@, LAMBDA e : e.index >= index)]

\* RaftNode::set_snapshot: whatever snapshot was stored is replaced.
SetSnapshot(s, snap) == Compact([s EXCEPT !.snap = snap], snap.index)

StoreAppend(s, ents) ==
    IF ents = <<>> THEN s
    ELSE [s EXCEPT !.ents = SelectSeq(@, LAMBDA e : e.index < ents[1].index) \o ents]

\* Appending below the first entry or beyond the last is a panic.
CanAppend(s, ents) ==
    ents # <<>> => ents[1].index \in StoreFirst(s) .. StoreLast(s) + 1

(***************************************************************************)
(* RaftLog: the store and, after it, the unstable entries and snapshot     *)
(* (usnap is NoSnap when there is none).                                   *)
(***************************************************************************)
NewLog(s) ==
    [store |-> s, usnap |-> NoSnap, uents |-> <<>>, offset |-> StoreLast(s) + 1,
     committed |-> StoreFirst(s) - 1, persisted |-> StoreLast(s),
     applied |-> StoreFirst(s) - 1, bad |-> FALSE]

Check(l, cond) == [l EXCEPT !.bad = @ \/ ~cond]

FirstIndex(l) == IF l.usnap # NoSnap THEN l.usnap.index + 1 ELSE StoreFirst(l.store)
LastIndex(l) ==
    CASE l.uents # <<>> -> l.offset + Len(l.uents) - 1
      [] l.usnap # NoSnap -> l.usnap.index
      [] OTHER -> StoreLast(l.store)

UnstableTerm(l, i) ==
    CASE i < l.offset /\ l.usnap # NoSnap /\ i = l.usnap.index -> l.usnap.term
      [] i >= l.offset /\ i < l.offset + Len(l.uents) -> l.uents[i - l.offset + 1].term
      [] OTHER -> NoTerm

Term(l, i) ==
    IF i \notin (FirstIndex(l) - 1) .. LastIndex(l) THEN 0
    ELSE IF UnstableTerm(l, i) # NoTerm THEN UnstableTerm(l, i)
         ELSE StoreTerm(l.store, i)

LastTerm(l) == Term(l, LastIndex(l))
MatchTerm(l, i, term) == Term(l, i) = term

EntryAt(l, i) ==
    IF i >= l.offset THEN l.uents[i - l.offset + 1]
    ELSE l.store.ents[i - StoreFirst(l.store) + 1]

\* The entries from lo up to, not including, hi; the caller has checked that
\* nothing in between is compacted.
Slice(l, lo, hi) == [k \in 1 .. (hi - lo) |-> EntryAt(l, lo + k - 1)]

Compacted(l, lo) == lo < FirstIndex(l)

\* At most max entries from index i on; none beyond the end.
Entries(l, i, max) ==
    LET hi == Least(LastIndex(l), i + max - 1)
    IN IF i > LastIndex(l) THEN <<>> ELSE Slice(l, i, hi + 1)

\* The first entry that is not in the log with its term, 0 when all are.
FindConflict(l, ents) ==
    LET new == SelectSeq(ents, LAMBDA e : ~MatchTerm(l, e.index, e.term))
    IN IF new = <<>> THEN 0 ELSE new[1].index

\* The largest index up to i whose term is not above the given one, with its
\* term; a lookup that fails ends the walk down.
FindConflictByTerm(l, i, term) ==
    IF i > LastIndex(l) THEN <<i, NoTerm>>
    ELSE LET j == Max({k \in 0 .. i : Term(l, k) <= term}) IN <<j, Term(l, j)>>

CommitTo(l, i) ==
    IF l.committed >= i THEN l
    ELSE [Check(l, i <= LastIndex(l)) EXCEPT !.committed = i]

TruncateAndAppend(l, ents) ==
    LET after == ents[1].index
        kept == IF after <= l.offset THEN <<>>
                ELSE SelectSeq(l.uents, LAMBDA e : e.index < after)
    IN [Check(l, after <= l.offset + Len(l.uents))
          EXCEPT !.offset = Least(@, after), !.uents = kept \o ents]

Append1(l, ents) ==
    IF ents = <<>> THEN l
    ELSE TruncateAndAppend(Check(l, ents[1].index - 1 >= l.committed), ents)

\* A follower's append: the conflicting tail is replaced, what was persisted of
\* it no longer counts, and the commit index follows the leader's.
CanMaybeAppend(l, i, term) == MatchTerm(l, i, term)
MaybeAppend(l, i, commit, ents) ==
    LET c == FindConflict(l, ents)
        l1 == IF c = 0 THEN l
              ELSE [Append1(Check(l, c > l.committed),
                            SubSeq(ents, c - i, Len(ents)))
                      EXCEPT !.persisted = Least(@, c - 1)]
    IN CommitTo(l1, Least(commit, i + Len(ents)))

\* Only an index of the given term commits directly.
CanCommit(l, i, term) == i > l.committed /\ Term(l, i) = term

IsUpToDate_term(l, i, term) == term >= LastTerm(l)

IsUpToDate(l, i, term) ==
    term > LastTerm(l) \/ (term = LastTerm(l) /\ i >= LastIndex(l))

\* Committed and persisted entries beyond what was handed out already.
NextEntriesSince(l, since) ==
    LET lo == Most(since + 1, FirstIndex(l))
        hi == Least(l.committed, l.persisted) + 1
    IN IF hi > lo THEN Slice(l, lo, hi) ELSE <<>>

AppliedTo(l, i) ==
    IF i = 0 THEN l
    ELSE [Check(l, i <= Least(l.committed, l.persisted) /\ i >= l.applied)
            EXCEPT !.applied = i]

StableEntries(l) == [l EXCEPT !.offset = @ + Len(l.uents), !.uents = <<>>]
StableSnap(l) == [l EXCEPT !.usnap = NoSnap]

CanPersist(l, i, term) ==
    /\ i > l.persisted
    /\ i < IF l.usnap # NoSnap THEN l.usnap.index ELSE l.offset
    /\ StoreTerm(l.store, i) = term

MaybePersistSnap(l, i) ==
    IF i <= l.persisted THEN l
    ELSE [Check(l, i <= l.committed /\ i < l.offset) EXCEPT !.persisted = i]

\* A received snapshot replaces the unstable part; nothing above the old commit
\* counts as persisted any more.
LogRestore(l, snap) ==
    [Check(l, snap.index >= l.committed)
       EXCEPT !.persisted = Least(@, l.committed), !.committed = snap.index,
              !.uents = <<>>, !.offset = snap.index + 1, !.usnap = snap]
=============================================================================
