--------------------------- MODULE LifecycleProofs ---------------------------
(***************************************************************************)
(* Theorems about Lifecycle, and that it implements Transaction, for any   *)
(* number of processes, builds, requests and snapshots.                    *)
(*                                                                         *)
(* The first invariant, Base, says what a process may rely on at each      *)
(* step: it is alone past the lock, its request is one that was made, the  *)
(* newest snapshot is its own and covers what it will restore.  Safe adds  *)
(* what keeps the installed binary recoverable.  Exact adds what a         *)
(* transaction knows of the files at each of its steps: that a fresh       *)
(* install found its paths vacant, what it has changed so far and, once it *)
(* rolls back, what it has put back.                                       *)
(***************************************************************************)
EXTENDS Atomicity, SequenceTheorems, TLAPS

-----------------------------------------------------------------------------
(* The operations on the backup directory, for directories of any length   *)
(* and any contents.                                                       *)

\* A new directory comes last and the others stay (createBackupSnapshot).
LEMMA OpenedFacts ==
    ASSUME NEW S, NEW dirs \in Seq(S), Partial \in S
    PROVE  /\ Opened(dirs) \in Seq(S)
           /\ Len(Opened(dirs)) = Len(dirs) + 1
           /\ \A i \in 1 .. Len(dirs) : Opened(dirs)[i] = dirs[i]
           /\ Opened(dirs)[Len(dirs) + 1] = Partial
BY AppendProperties DEF Opened

\* Completing a snapshot changes the newest directory only.
LEMMA FilledFacts ==
    ASSUME NEW S, NEW dirs \in Seq(S), Len(dirs) >= 1,
           NEW image, Complete(image) \in S
    PROVE  /\ Filled(dirs, image) \in Seq(S)
           /\ Len(Filled(dirs, image)) = Len(dirs)
           /\ \A i \in 1 .. Len(dirs) - 1 : Filled(dirs, image)[i] = dirs[i]
           /\ Filled(dirs, image)[Len(dirs)] = Complete(image)
<1>1. Len(dirs) \in 1 .. Len(dirs)
  BY LenProperties
<1>2. QED
  BY <1>1, ExceptSeq, LenProperties DEF Filled

\* Damaging a directory changes that one only.
LEMMA DamagedFacts ==
    ASSUME NEW S, NEW dirs \in Seq(S), NEW k \in 1 .. Len(dirs), Partial \in S
    PROVE  /\ Damaged(dirs, k) \in Seq(S)
           /\ Len(Damaged(dirs, k)) = Len(dirs)
           /\ \A i \in 1 .. Len(dirs) : i # k => Damaged(dirs, k)[i] = dirs[i]
BY ExceptSeq DEF Damaged

\* Discarding the newest directory leaves the others.
LEMMA DiscardedFacts ==
    ASSUME NEW S, NEW dirs \in Seq(S), Len(dirs) >= 1
    PROVE  /\ Discarded(dirs) \in Seq(S)
           /\ Len(Discarded(dirs)) = Len(dirs) - 1
           /\ \A i \in 1 .. Len(dirs) - 1 : Discarded(dirs)[i] = dirs[i]
<1> DEFINE n == Len(dirs) - 1
<1>1. n \in Nat /\ 1 \in Int /\ n \in Int /\ Len(dirs) \in Nat
  BY LenProperties
<1>2. \A i \in 1 .. n : dirs[i] \in S
  BY <1>1, ElementOfSeq, LenProperties
<1>3. /\ SubSeq(dirs, 1, n) \in Seq(S)
      /\ Len(SubSeq(dirs, 1, n)) = IF 1 <= n THEN n - 1 + 1 ELSE 0
      /\ \A i \in 1 .. n - 1 + 1 : SubSeq(dirs, 1, n)[i] = dirs[1 + i - 1]
  BY <1>1, <1>2, SubSeqProperties
<1>4. Len(SubSeq(dirs, 1, n)) = n
  <2>1. n \in Nat
    BY <1>1
  <2>2. Len(SubSeq(dirs, 1, n)) = IF 1 <= n THEN n - 1 + 1 ELSE 0
    BY <1>3
  <2> HIDE DEF n
  <2>3. QED
    BY <2>1, <2>2
<1>5. \A i \in 1 .. n : SubSeq(dirs, 1, n)[i] = dirs[i]
  <2>1. n - 1 + 1 = n /\ \A i \in 1 .. n : 1 + i - 1 = i
    BY <1>1
  <2>2. QED
    BY <1>3, <2>1
<1>6. QED
  BY <1>3, <1>4, <1>5 DEF Discarded

\* Retention that runs to its end returns a suffix of the directories.
LEMMA PrunedFacts ==
    ASSUME NEW S, NEW dirs \in Seq(S), Len(dirs) >= 1, NEW keep \in Nat \ {0}
    PROVE  /\ Pruned(dirs, keep) \in Seq(S)
           /\ Len(Pruned(dirs, keep)) >= 1
           /\ Len(Pruned(dirs, keep)) <= keep
           /\ Pruned(dirs, keep)[Len(Pruned(dirs, keep))] = dirs[Len(dirs)]
<1>1. Len(dirs) \in Nat
  BY LenProperties
<1>2. CASE keep >= Len(dirs)
  BY <1>1, <1>2 DEF Pruned
<1>3. CASE ~(keep >= Len(dirs))
  <2> DEFINE m == Len(dirs) - keep + 1
             n == Len(dirs)
  <2>1. m \in Int /\ n \in Int /\ m <= n /\ 1 <= m
    BY <1>1, <1>3
  <2>2. \A i \in m .. n : dirs[i] \in S
    BY <2>1, ElementOfSeq, LenProperties
  <2>3. /\ SubSeq(dirs, m, n) \in Seq(S)
        /\ Len(SubSeq(dirs, m, n)) = IF m <= n THEN n - m + 1 ELSE 0
        /\ \A i \in 1 .. n - m + 1 : SubSeq(dirs, m, n)[i] = dirs[m + i - 1]
    BY <2>1, <2>2, SubSeqProperties
  <2>4. Len(SubSeq(dirs, m, n)) = keep
    BY <2>1, <2>3, <1>1
  <2>5. SubSeq(dirs, m, n)[keep] = dirs[n]
    <3>1. keep \in 1 .. n - m + 1
      BY <1>1
    <3>2. m + keep - 1 = n
      BY <1>1
    <3>3. QED
      BY <2>3, <3>1, <3>2
  <2>6. Pruned(dirs, keep) = SubSeq(dirs, m, n)
    BY <1>3 DEF Pruned
  <2>7. QED
    BY <2>3, <2>4, <2>5, <2>6
<1>4. QED
  BY <1>2, <1>3

\* Retention that is cut short still leaves a sequence of directories.
LEMMA HalfPrunedFacts ==
    ASSUME NEW S, NEW dirs \in Seq(S), NEW keep \in Nat \ {0},
           NEW after \in PrunedPartWay(dirs, keep), Partial \in S
    PROVE  after \in Seq(S)
<1>1. PICK done \in 0 .. (Len(dirs) - keep - 1) : after \in HalfPruned(dirs, keep, done)
  BY DEF PrunedPartWay
<1> DEFINE doomed == Len(dirs) - keep
           n == Len(dirs)
           older == SubSeq(dirs, 1, doomed - done - 1)
           kept == SubSeq(dirs, doomed + 1, n)
<1>2. n \in Nat /\ doomed \in Int /\ doomed - done - 1 \in Int /\ doomed >= 1
      /\ doomed - done - 1 < n /\ doomed + 1 \in Int /\ doomed + 1 >= 1
      /\ doomed - done \in 1 .. n
  BY <1>1, LenProperties
<1>3. \A i \in 1 .. doomed - done - 1 : dirs[i] \in S
  BY <1>2, ElementOfSeq, LenProperties
<1>4. \A i \in doomed + 1 .. n : dirs[i] \in S
  BY <1>2, ElementOfSeq, LenProperties
<1>5. older \in Seq(S)
  BY <1>2, <1>3, SubSeqProperties
<1>6. kept \in Seq(S)
  BY <1>2, <1>4, SubSeqProperties
<1>7. dirs[doomed - done] \in S
  BY <1>2, ElementOfSeq
<1>8. <<Partial>> \in Seq(S) /\ <<dirs[doomed - done]>> \in Seq(S)
  BY <1>7
<1>9. after \in {older \o <<dirs[doomed - done]>> \o kept,
                older \o <<Partial>> \o kept, older \o kept \o <<Partial>>}
  BY <1>1 DEF HalfPruned
<1> HIDE DEF older, kept, doomed
<1>10. older \o <<dirs[doomed - done]>> \in Seq(S) /\ older \o <<Partial>> \in Seq(S)
       /\ older \o kept \in Seq(S)
  BY <1>5, <1>6, <1>8, ConcatProperties
<1>11. /\ older \o <<dirs[doomed - done]>> \o kept \in Seq(S)
       /\ older \o <<Partial>> \o kept \in Seq(S)
       /\ older \o kept \o <<Partial>> \in Seq(S)
  BY <1>6, <1>8, <1>10, ConcatProperties
<1>12. QED
  BY <1>9, <1>11

\* Joining sequences leaves each of them in one piece.
LEMMA Blocks ==
    ASSUME NEW S, NEW before \in Seq(S), NEW kept \in Seq(S), NEW behind \in Seq(S)
    PROVE  /\ before \o kept \in Seq(S)
           /\ Len(before) \in 0 .. Len(before \o kept) - Len(kept)
           /\ Len(before) \in 0 .. Len(before \o kept \o behind) - Len(kept)
           /\ \A i \in 1 .. Len(kept) : (before \o kept)[Len(before) + i] = kept[i]
           /\ \A i \in 1 .. Len(kept) : (before \o kept \o behind)[Len(before) + i] = kept[i]
<1>1. Len(before) \in Nat /\ Len(kept) \in Nat /\ Len(behind) \in Nat
  BY LenProperties
<1>2. /\ before \o kept \in Seq(S) /\ Len(before \o kept) = Len(before) + Len(kept)
      /\ \A i \in 1 .. Len(before) + Len(kept) :
             (before \o kept)[i] = IF i <= Len(before) THEN before[i] ELSE kept[i - Len(before)]
  BY ConcatProperties
<1>3. ASSUME NEW i \in 1 .. Len(kept) PROVE (before \o kept)[Len(before) + i] = kept[i]
  <2>1. /\ Len(before) + i \in 1 .. Len(before) + Len(kept)
        /\ ~(Len(before) + i <= Len(before)) /\ Len(before) + i - Len(before) = i
    BY <1>1
  <2>2. QED
    BY <1>2, <2>1
<1> DEFINE front == before \o kept
<1> HIDE DEF front
<1>4. /\ Len(front \o behind) = Len(front) + Len(behind)
      /\ \A i \in 1 .. Len(front) + Len(behind) :
             (front \o behind)[i] = IF i <= Len(front) THEN front[i] ELSE behind[i - Len(front)]
  BY <1>2, ConcatProperties DEF front
<1>5. Len(front) = Len(before) + Len(kept)
  BY <1>2 DEF front
<1>6. ASSUME NEW i \in 1 .. Len(kept) PROVE (front \o behind)[Len(before) + i] = front[Len(before) + i]
  <2>1. /\ Len(before) + i \in 1 .. Len(front) + Len(behind)
        /\ Len(before) + i <= Len(front)
    BY <1>1, <1>5
  <2>2. QED
    BY <1>4, <2>1
<1>7. Len(before) \in 0 .. Len(front) - Len(kept) /\ Len(before) \in 0 .. Len(front \o behind) - Len(kept)
  BY <1>1, <1>4, <1>5
<1>8. QED
  BY <1>2, <1>3, <1>6, <1>7 DEF front

\* The newest k directories are among those left, one after the other and unchanged.
HasNewest(left, dirs, k) ==
    \E at \in 0 .. Len(left) - k :
        \A i \in 1 .. k : left[at + i] = dirs[Len(dirs) - k + i]

\* Retention cut short has the directories to keep, though not always as the last ones.
LEMMA HalfPrunedHasNewest ==
    ASSUME NEW S, NEW dirs \in Seq(S), NEW keep \in Nat \ {0},
           NEW after \in PrunedPartWay(dirs, keep), Partial \in S
    PROVE  Len(dirs) > keep /\ HasNewest(after, dirs, keep)
<1>1. PICK done \in 0 .. (Len(dirs) - keep - 1) : after \in HalfPruned(dirs, keep, done)
  BY DEF PrunedPartWay
<1> DEFINE doomed == Len(dirs) - keep
           n == Len(dirs)
           older == SubSeq(dirs, 1, doomed - done - 1)
           kept == SubSeq(dirs, doomed + 1, n)
           next == <<dirs[doomed - done]>>
           gone == <<Partial>>
<1>2. n \in Nat /\ doomed \in Int /\ doomed - done - 1 \in Int /\ doomed >= 1
      /\ doomed - done - 1 < n /\ doomed + 1 \in Int /\ doomed + 1 >= 1 /\ doomed + 1 <= n
      /\ doomed - done \in 1 .. n /\ n > keep /\ n - (doomed + 1) + 1 = keep
  BY <1>1, LenProperties
<1>3. \A i \in 1 .. doomed - done - 1 : dirs[i] \in S
  BY <1>2, ElementOfSeq, LenProperties
<1>4. \A i \in doomed + 1 .. n : dirs[i] \in S
  BY <1>2, ElementOfSeq, LenProperties
<1>5. older \in Seq(S)
  BY <1>2, <1>3, SubSeqProperties
<1>6. /\ kept \in Seq(S) /\ Len(kept) = keep
      /\ \A i \in 1 .. keep : kept[i] = dirs[doomed + 1 + i - 1]
  BY <1>2, <1>4, SubSeqProperties
<1>7. \A i \in 1 .. keep : doomed + 1 + i - 1 = n - keep + i
  BY <1>2
<1>8. gone \in Seq(S) /\ next \in Seq(S)
  <2>1. dirs[doomed - done] \in S
    BY <1>2, ElementOfSeq
  <2>2. QED
    BY <2>1
<1>9. after \in {older \o next \o kept, older \o gone \o kept, older \o kept \o gone}
  BY <1>1 DEF HalfPruned
<1>10. \A i \in 1 .. keep : kept[i] = dirs[n - keep + i]
  BY <1>6, <1>7
<1> HIDE DEF older, kept, doomed, next, gone, n
<1>11. ASSUME NEW before \in Seq(S)
       PROVE  HasNewest(before \o kept, dirs, keep) /\ HasNewest(before \o kept \o gone, dirs, keep)
  <2>1. /\ Len(before) \in 0 .. Len(before \o kept) - keep
        /\ Len(before) \in 0 .. Len(before \o kept \o gone) - keep
        /\ \A i \in 1 .. keep : (before \o kept)[Len(before) + i] = kept[i]
        /\ \A i \in 1 .. keep : (before \o kept \o gone)[Len(before) + i] = kept[i]
    <3>1. /\ Len(before) \in 0 .. Len(before \o kept) - Len(kept)
          /\ Len(before) \in 0 .. Len(before \o kept \o gone) - Len(kept)
          /\ \A i \in 1 .. Len(kept) : (before \o kept)[Len(before) + i] = kept[i]
          /\ \A i \in 1 .. Len(kept) : (before \o kept \o gone)[Len(before) + i] = kept[i]
      <4>1. kept \in Seq(S) /\ gone \in Seq(S)
        BY <1>6, <1>8
      <4>2. Len(before) \in 0 .. Len(before \o kept) - Len(kept)
        BY <4>1, Blocks, Zenon
      <4>3. Len(before) \in 0 .. Len(before \o kept \o gone) - Len(kept)
        BY <4>1, Blocks, Zenon
      <4>4. \A i \in 1 .. Len(kept) : (before \o kept)[Len(before) + i] = kept[i]
        BY <4>1, Blocks, Zenon
      <4>5. \A i \in 1 .. Len(kept) : (before \o kept \o gone)[Len(before) + i] = kept[i]
        <5>1. \A b, k, g \in Seq(S) : \A i \in 1 .. Len(k) : (b \o k \o g)[Len(b) + i] = k[i]
          BY Blocks
        <5>2. QED
          BY <4>1, <5>1, Zenon
      <4>6. QED
        BY <4>2, <4>3, <4>4, <4>5
    <3>2. QED
      BY <1>6, <3>1
  <2>2. QED
    BY <1>10, <2>1 DEF HasNewest, n
<1>12. older \o next \in Seq(S) /\ older \o gone \in Seq(S)
  BY <1>5, <1>8, ConcatProperties
<1>13. HasNewest(after, dirs, keep)
  BY <1>5, <1>9, <1>11, <1>12
<1>14. QED
  BY <1>2, <1>13 DEF n

(***************************************************************************)
(* Retention, run to its end or cut short by an error or a crash, never    *)
(* touches the directories it is to keep: the newest ones stay, whole, in  *)
(* their order, all of them when there are no more; and when it is done,   *)
(* nothing else is left (pruneBackups).                                    *)
(***************************************************************************)
THEOREM PruneKeepsNewest ==
    ASSUME NEW S, Partial \in S, NEW dirs \in Seq(S), Len(dirs) >= 1, NEW keep \in Nat \ {0}
    PROVE  LET k == IF keep >= Len(dirs) THEN Len(dirs) ELSE keep
           IN  /\ Len(Pruned(dirs, keep)) = k
               /\ \A left \in {Pruned(dirs, keep)} \cup PrunedPartWay(dirs, keep) :
                      HasNewest(left, dirs, k)
<1>1. Len(dirs) \in Nat
  BY LenProperties
<1>2. CASE keep >= Len(dirs)
  <2>1. Pruned(dirs, keep) = dirs
    BY <1>2 DEF Pruned
  <2>2. HasNewest(dirs, dirs, Len(dirs))
    <3>1. 0 \in 0 .. Len(dirs) - Len(dirs) /\ \A i \in 1 .. Len(dirs) : 0 + i = Len(dirs) - Len(dirs) + i
      BY <1>1
    <3>2. QED
      BY <3>1 DEF HasNewest
  <2>3. \A left \in PrunedPartWay(dirs, keep) : FALSE
    BY <1>1, <1>2, HalfPrunedHasNewest
  <2>4. QED
    BY <1>2, <2>1, <2>2, <2>3
<1>3. CASE ~(keep >= Len(dirs))
  <2> DEFINE m == Len(dirs) - keep + 1
             n == Len(dirs)
  <2>1. m \in Int /\ n \in Int /\ m <= n /\ 1 <= m /\ n - m + 1 = keep
    BY <1>1, <1>3
  <2>2. \A i \in m .. n : dirs[i] \in S
    BY <2>1, ElementOfSeq, LenProperties
  <2>3. /\ Len(SubSeq(dirs, m, n)) = keep
        /\ \A i \in 1 .. keep : SubSeq(dirs, m, n)[i] = dirs[m + i - 1]
    BY <2>1, <2>2, SubSeqProperties
  <2>4. Pruned(dirs, keep) = SubSeq(dirs, m, n)
    BY <1>3 DEF Pruned
  <2>5. \A i \in 1 .. keep : m + i - 1 = n - keep + i /\ 0 + i = i
    BY <1>1
  <2>6. 0 \in 0 .. keep - keep
    OBVIOUS
  <2> HIDE DEF m
  <2>7. HasNewest(Pruned(dirs, keep), dirs, keep)
    <3> DEFINE left == SubSeq(dirs, m, n)
    <3>1. Len(left) = keep /\ \A i \in 1 .. keep : left[0 + i] = dirs[n - keep + i]
      BY <2>3, <2>5
    <3> HIDE DEF left
    <3>2. HasNewest(left, dirs, keep)
      BY <3>1, <2>6 DEF HasNewest
    <3>3. QED
      BY <3>2, <2>4 DEF left
  <2>8. QED
    BY <1>3, <2>3, <2>4, <2>7, HalfPrunedHasNewest
<1>4. QED
  BY <1>2, <1>3

\* Retention that is cut short still has the newest directory.
LEMMA PartWayKeepsNewest ==
    ASSUME NEW S, NEW dirs \in Seq(S), NEW keep \in Nat \ {0},
           NEW after \in PrunedPartWay(dirs, keep), Partial \in S
    PROVE  \E i \in DOMAIN after : after[i] = dirs[Len(dirs)]
<1>1. Len(dirs) > keep /\ HasNewest(after, dirs, keep)
  BY HalfPrunedHasNewest
<1>2. PICK at \in 0 .. Len(after) - keep :
           \A i \in 1 .. keep : after[at + i] = dirs[Len(dirs) - keep + i]
  BY <1>1 DEF HasNewest
<1>3. after \in Seq(S)
  BY HalfPrunedFacts
<1>4. Len(after) \in Nat /\ DOMAIN after = 1 .. Len(after) /\ Len(dirs) \in Nat
  BY <1>3, LenProperties
<1>5. after[at + keep] = dirs[Len(dirs) - keep + keep]
  BY <1>2
<1>6. Len(dirs) - keep + keep = Len(dirs) /\ at + keep \in 1 .. Len(after)
  BY <1>2, <1>4
<1>7. QED
  BY <1>4, <1>5, <1>6

\* Restore handles one of the items that are left.
LEMMA LastOfFacts ==
    ASSUME NEW left \in SUBSET Items, left # {}
    PROVE  LastOf(left) \in left
<1>1. \E i \in left : \A j \in left : Position[j] <= Position[i]
  BY DEF Items, Position
<1>2. QED
  BY <1>1 DEF LastOf

-----------------------------------------------------------------------------
(* The steps of an operation                                               *)

\* The steps outside the lock.
Outside == {"idle", "lock"}

\* The steps of a transaction that was admitted.
Underway == Steps \ {"idle", "lock", "decide", "unlock"}

\* The steps only install and repair take.
Forward == {"hook", "copy", "verify", "define", "load", "autostart", "start",
            "health", "commit"}

\* The steps after the snapshot was completed.
WithSnapshot == Forward \cup
    {"retain", "disable", "undefine", "unload", "rmbinary", "rmmanifest",
     "rbstop", "rbdisable", "wipe", "refill", "reload", "reenable", "resume"}

\* The steps of a rollback up to the last item restored.
Undoing == {"rbstop", "rbdisable", "wipe", "refill"}

\* The newest snapshot is complete and covers what the transaction of p changes.
OwnSnapshot(p) ==
    /\ Len(backups) >= 1
    /\ Own.complete
    /\ DOMAIN Own.image = Covered(p)

\* What process p relies on at its step.
Local(p) ==
    /\ pc[p] # "idle" => req[p] \in Requests
    /\ pc[p] \in Forward => req[p].op # "remove"
    /\ pc[p] \in Underway /\ req[p].op # "remove" => tx[p].src # None
    /\ pc[p] = "archive" => Len(backups) >= 1 /\ Own = Partial
    /\ pc[p] \in WithSnapshot => OwnSnapshot(p)
    /\ pc[p] \in Undoing => tx[p].left # {} /\ tx[p].left \subseteq Covered(p)

Base == TypeOK /\ MutualExclusion /\ \A p \in Procs : Local(p)

-----------------------------------------------------------------------------

\* The assumptions a proof about types needs.
LEMMA ConstantFacts ==
    /\ None \in Contents /\ Foreign \in Contents /\ Corrupt \in Contents
    /\ Builds \subseteq Contents
    /\ \A b \in Builds : b # None
    /\ Corrupt # None
    /\ None \notin Procs
    /\ \A r \in Requests : r \in RequestType
    /\ EffectiveKeep(KeepBackups) \in Nat \ {0}
BY ContentsAssumption, ProcsAssumption, RequestsAssumption, BoundsAssumption
   DEF Contents, EffectiveKeep

\* Everybody else is outside the lock while p is past it.
LEMMA Alone ==
    ASSUME MutualExclusion, NEW p \in Procs, pc[p] \notin Outside,
           NEW q \in Procs, q # p
    PROVE  pc[q] \in Outside
BY DEF MutualExclusion, Outside

(***************************************************************************)
(* A step of a process that stays past the lock only has to establish its  *)
(* own part of the invariant.                                              *)
(***************************************************************************)
LEMMA OwnStep ==
    ASSUME Base, NEW p \in Procs, pc[p] \notin Outside,
           NEW s \in Steps \ Outside, pc' = [pc EXCEPT ![p] = s],
           lock' = lock, req' = req, TypeOK', Local(p)'
    PROVE  Base'
<1>1. \A q \in Procs : q # p => pc'[q] = pc[q] /\ pc[q] \in Outside
  BY Alone DEF Base, TypeOK
<1>2. MutualExclusion'
  BY <1>1 DEF Base, TypeOK, MutualExclusion, Outside
<1>3. ASSUME NEW q \in Procs, q # p PROVE Local(q)'
  <2>1. pc'[q] \in Outside /\ (pc'[q] # "idle" => req'[q] \in Requests)
    BY <1>1, <1>3 DEF Base, Local
  <2>2. QED
    BY <2>1 DEF Local, Outside, Forward, Underway, WithSnapshot, Undoing
<1>4. QED
  BY <1>2, <1>3 DEF Base

\* The start of an operation, outside the lock or leaving it.
LEMMA BaseOutside ==
    ASSUME Base, NEW p \in Procs,
           Begin(p) \/ Acquire(p) \/ TurnedAway(p) \/ Unlock(p)
    PROVE  Base'
<1>1. CASE Begin(p)
  <2>1. PICK r \in Requests : req' = [req EXCEPT ![p] = r]
    BY <1>1 DEF Begin
  <2>2. pc[p] = "idle" /\ pc' = [pc EXCEPT ![p] = "lock"] /\ UNCHANGED <<lock, tx, host>>
    BY <1>1 DEF Begin, Goto
  <2>3. TypeOK'
    BY <2>1, <2>2 DEF Base, TypeOK, Steps, host
  <2>4. MutualExclusion'
    BY <2>2 DEF Base, TypeOK, MutualExclusion
  <2>5. ASSUME NEW q \in Procs PROVE Local(q)'
    BY <2>1, <2>2 DEF Base, TypeOK, Local, host, Forward, Underway, WithSnapshot, Undoing,
       OwnSnapshot, Own, Covered, OldService, NewService
  <2>6. QED
    BY <2>3, <2>4, <2>5 DEF Base
<1>2. CASE Acquire(p)
  <2>1. pc[p] = "lock" /\ pc' = [pc EXCEPT ![p] = "decide"] /\ lock = None /\ lock' = p
        /\ UNCHANGED <<req, tx, host>>
    BY <1>2 DEF Acquire, Goto, LockFree
  <2>2. TypeOK'
    BY <2>1 DEF Base, TypeOK, Steps, host
  <2>3. MutualExclusion'
    BY <2>1, ConstantFacts DEF Base, TypeOK, MutualExclusion
  <2>4. ASSUME NEW q \in Procs PROVE Local(q)'
    BY <2>1 DEF Base, TypeOK, Local, host, Forward, Underway, WithSnapshot, Undoing,
       OwnSnapshot, Own, Covered, OldService, NewService
  <2>5. QED
    BY <2>2, <2>3, <2>4 DEF Base
<1>3. CASE TurnedAway(p)
  <2>1. pc[p] = "lock" /\ pc' = [pc EXCEPT ![p] = "idle"]
        /\ req' = [req EXCEPT ![p] = NoRequest] /\ UNCHANGED <<lock, tx, host>>
    BY <1>3 DEF TurnedAway, Goto
  <2>2. TypeOK'
    BY <2>1 DEF Base, TypeOK, Steps, host
  <2>3. MutualExclusion'
    BY <2>1 DEF Base, TypeOK, MutualExclusion
  <2>4. ASSUME NEW q \in Procs PROVE Local(q)'
    BY <2>1 DEF Base, TypeOK, Local, host, Forward, Underway, WithSnapshot, Undoing,
       OwnSnapshot, Own, Covered, OldService, NewService
  <2>5. QED
    BY <2>2, <2>3, <2>4 DEF Base
<1>4. CASE Unlock(p)
  <2>1. pc[p] = "unlock" /\ pc' = [pc EXCEPT ![p] = "idle"] /\ lock' = None
        /\ req' = [req EXCEPT ![p] = NoRequest] /\ tx' = [tx EXCEPT ![p] = NoTx]
        /\ UNCHANGED host
    BY <1>4 DEF Unlock, Goto
  <2>2. TypeOK'
    <3>1. NoTx \in TxType
      BY ConstantFacts DEF NoTx, TxType, ManifestType, NotObserved, Observations, Outcomes
    <3>2. QED
      BY <2>1, <3>1 DEF Base, TypeOK, Steps, host
  <2>3. \A q \in Procs : q # p => pc[q] \in Outside
    BY <2>1, Alone DEF Base, Outside
  <2>4. MutualExclusion'
    BY <2>1, <2>3 DEF Base, TypeOK, MutualExclusion, Outside
  <2>5. ASSUME NEW q \in Procs PROVE Local(q)'
    BY <2>1, <2>3 DEF Base, TypeOK, Local, Forward, Underway, WithSnapshot, Undoing, Outside
  <2>6. QED
    BY <2>2, <2>4, <2>5 DEF Base
<1>5. QED
  BY <1>1, <1>2, <1>3, <1>4

\* What p's own part of the invariant gives once its request is known.
LEMMA RequestFacts ==
    ASSUME Base, NEW p \in Procs, pc[p] # "idle"
    PROVE  /\ req[p] \in RequestType
           /\ Covered(p) \in SUBSET Items
           /\ "binary" \in Covered(p)
<1>1. req[p] \in RequestType
  BY ConstantFacts DEF Base, Local
<1>2. QED
  BY <1>1 DEF Covered, Items

\* A transaction that ends keeps its type.
LEMMA FinishTypes ==
    ASSUME TypeOK, NEW p \in Procs, NEW o \in Outcomes, Finish(p, o)
    PROVE  /\ pc' = [pc EXCEPT ![p] = "unlock"]
           /\ pc' \in [Procs -> Steps]
           /\ tx' \in [Procs -> TxType]
BY DEF Finish, Goto, TypeOK, Steps, TxType

\* The snapshot type admits every snapshot of some items.
LEMMA SnapshotTypes ==
    /\ Partial \in SnapshotType
    /\ \A S \in SUBSET Items : \A image \in [S -> Contents] : Complete(image) \in SnapshotType
<1>1. NoImage \in [{} -> Contents]
  BY DEF NoImage
<1>2. QED
  BY <1>1 DEF Partial, Complete, SnapshotType

\* The decision fixes what the transaction saw; the host stays as it is.
LEMMA AdmitFacts ==
    ASSUME TypeOK, NEW p \in Procs, Admit(p)
    PROVE  /\ pc[p] = "decide"
           /\ Admissible(req[p])
           /\ UNCHANGED <<lock, req, disk, manifest, service, backups, sound>>
           /\ misread' \in BOOLEAN
           /\ \E old \in Observations :
                 /\ old \in IF manifest.service THEN Seen ELSE {NotObserved}
                 /\ tx' = [tx EXCEPT ![p].src = SourceHash(req[p]),
                                     ![p].was = manifest,
                                     ![p].old = old]
                 /\ pc' = [pc EXCEPT ![p] = IF old.running THEN "stop" ELSE "snapshot"]
                 /\ misread' = IF ~manifest.service THEN misread
                               ELSE IF Right(old, service) THEN misread /\ old.running
                               ELSE TRUE
<1> DEFINE Looks == IF manifest.service THEN Seen ELSE {NotObserved}
<1>1. /\ pc[p] = "decide"
      /\ Admissible(req[p])
      /\ UNCHANGED <<lock, req, disk, manifest, service, backups, sound>>
  BY DEF Admit
<1>2. PICK old \in Looks :
         /\ tx' = [tx EXCEPT ![p].src = SourceHash(req[p]),
                             ![p].was = manifest,
                             ![p].old = old]
         /\ pc' = [pc EXCEPT ![p] = IF old.running THEN "stop" ELSE "snapshot"]
         /\ misread' = IF ~manifest.service THEN misread
                       ELSE IF Right(old, service) THEN misread /\ old.running
                       ELSE TRUE
  BY DEF Admit, Goto
<1>3. Looks \in SUBSET Observations
  BY DEF Seen, Inspections, NotObserved, Observations
<1>4. old \in Observations
  BY <1>2, <1>3
<1>5. misread' \in BOOLEAN
  BY <1>2, <1>4 DEF TypeOK, Observations
<1>6. QED
  BY <1>1, <1>2, <1>4, <1>5

\* The decision.
LEMMA BaseDecide ==
    ASSUME Base, NEW p \in Procs, Admit(p) \/ Refuse(p)
    PROVE  Base'
<1>1. CASE Admit(p)
  <2>0. TypeOK
    BY DEF Base
  <2>9. /\ pc[p] = "decide"
        /\ Admissible(req[p])
        /\ UNCHANGED <<lock, req, disk, manifest, service, backups, sound>>
        /\ misread' \in BOOLEAN
    BY <1>1, <2>0, AdmitFacts
  <2>3. PICK old \in Observations :
           /\ tx' = [tx EXCEPT ![p].src = SourceHash(req[p]),
                               ![p].was = manifest,
                               ![p].old = old]
           /\ pc' = [pc EXCEPT ![p] = IF old.running THEN "stop" ELSE "snapshot"]
    BY <1>1, <2>0, AdmitFacts
  <2> DEFINE s == IF old.running THEN "stop" ELSE "snapshot"
  <2>1. /\ pc[p] = "decide"
        /\ Admissible(req[p])
        /\ tx' = [tx EXCEPT ![p].src = SourceHash(req[p]),
                            ![p].was = manifest,
                            ![p].old = old]
        /\ pc' = [pc EXCEPT ![p] = s]
        /\ UNCHANGED <<lock, req, disk, manifest, service, backups, sound>>
        /\ misread' \in BOOLEAN
    BY <2>9, <2>3
  <2>2. s \in {"stop", "snapshot"}
    OBVIOUS
  <2>4. SourceHash(req[p]) \in Contents
        /\ (req[p].op # "remove" => SourceHash(req[p]) # None)
    <3>1. req[p] \in RequestType
      BY <2>1, RequestFacts
    <3>2. req[p].op # "remove" => SourcePresent(req[p])
      BY <2>1, <3>1 DEF Admissible, RequestType
    <3>3. disk["binary"] \in Contents
      BY DEF Base, TypeOK, Items
    <3>4. QED
      BY <3>1, <3>2, <3>3, ConstantFacts DEF SourceHash, SourcePresent, RequestType
  <2> HIDE DEF s
  <2>5. TypeOK'
    <3>1. tx' \in [Procs -> TxType]
      <4>1. tx \in [Procs -> TxType] /\ manifest \in ManifestType
        BY DEF Base, TypeOK
      <4>2. [tx[p] EXCEPT !.src = SourceHash(req[p]), !.was = manifest, !.old = old] \in TxType
        BY <2>3, <2>4, <4>1 DEF TxType
      <4>3. QED
        BY <2>1, <4>1, <4>2
    <3>2. pc' \in [Procs -> Steps]
      BY <2>1, <2>2 DEF Base, TypeOK, Steps
    <3>3. QED
      BY <2>1, <3>1, <3>2 DEF Base, TypeOK
  <2>6. Local(p)'
    BY <2>1, <2>2, <2>4 DEF Base, TypeOK, Local, Forward, WithSnapshot, Undoing, TxType
  <2>7. QED
    BY <2>1, <2>2, <2>5, <2>6, OwnStep DEF Outside, Steps
<1>2. CASE Refuse(p)
  <2>1. Finish(p, "refused")
    BY <1>2 DEF Refuse
  <2>2. pc[p] = "decide" /\ UNCHANGED <<lock, req, host>>
    BY <1>2 DEF Refuse
  <2>3. /\ pc' = [pc EXCEPT ![p] = "unlock"] /\ pc' \in [Procs -> Steps]
        /\ tx' \in [Procs -> TxType]
    BY <2>1, FinishTypes DEF Outcomes, Base
  <2>4. TypeOK'
    BY <2>2, <2>3 DEF Base, TypeOK, host
  <2>5. Local(p)'
    BY <2>2, <2>3 DEF Base, TypeOK, Local, Forward, WithSnapshot, Undoing, Underway
  <2>6. QED
    BY <2>2, <2>3, <2>4, <2>5, OwnStep DEF Outside, Steps
<1>3. QED
  BY <1>1, <1>2

(***************************************************************************)
(* Three kinds of steps under way: going on to a step that relies on       *)
(* nothing new, beginning a rollback, and ending the operation.            *)
(***************************************************************************)
LEMMA Advance ==
    ASSUME Base, NEW p \in Procs, pc[p] \in Underway,
           NEW s \in Underway \ ({"archive"} \cup Undoing),
           s \in Forward => req[p].op # "remove",
           s \in WithSnapshot => pc[p] \in WithSnapshot,
           pc' = [pc EXCEPT ![p] = s],
           tx' \in [Procs -> TxType],
           tx'[p].src = tx[p].src, tx'[p].was = tx[p].was,
           UNCHANGED <<lock, req, backups>>,
           disk' \in [Items -> Contents], manifest' \in ManifestType,
           service' \in ServiceType, sound' \in BOOLEAN, misread' \in BOOLEAN
    PROVE  Base'
<1>1. TypeOK'
  BY DEF Base, TypeOK, Underway
<1>2. Covered(p)' = Covered(p)
  BY DEF Covered, OldService, NewService
<1>3. OwnSnapshot(p)' <=> OwnSnapshot(p)
  BY <1>2 DEF OwnSnapshot, Own
<1>4. Local(p)'
  BY <1>3 DEF Base, TypeOK, Local, Underway
<1>5. QED
  BY <1>1, <1>4, OwnStep DEF Underway, Outside

\* Turning to the rollback leaves every item of the snapshot to be restored.
LEMMA Retreat ==
    ASSUME Base, NEW p \in Procs, pc[p] \in WithSnapshot, RollBack(p),
           UNCHANGED <<lock, req, manifest, service, backups, sound>>,
           disk' \in [Items -> Contents], misread' \in BOOLEAN
    PROVE  Base'
<1> DEFINE s == IF NewService(p) THEN "rbstop" ELSE "wipe"
<1>1. pc' = [pc EXCEPT ![p] = s] /\ s \in {"rbstop", "wipe"}
  BY DEF RollBack, Goto
<1>2. pc[p] \in Underway
  BY DEF WithSnapshot, Underway, Steps, Forward
<1>3. Covered(p) \in SUBSET Items /\ "binary" \in Covered(p)
  BY <1>2, RequestFacts DEF Underway
<1>4. tx' \in [Procs -> TxType] /\ tx'[p].was = tx[p].was /\ tx'[p].src = tx[p].src
      /\ tx'[p].left = Covered(p)
  <2>1. tx \in [Procs -> TxType]
    BY DEF Base, TypeOK
  <2>2. [tx[p] EXCEPT !.mutated = TRUE, !.left = Covered(p)] \in TxType
    BY <1>3, <2>1 DEF TxType
  <2>3. tx' = [tx EXCEPT ![p] = [tx[p] EXCEPT !.mutated = TRUE, !.left = Covered(p)]]
    BY <2>1 DEF RollBack
  <2>4. QED
    BY <2>1, <2>2, <2>3 DEF TxType
<1> HIDE DEF s
<1>5. TypeOK'
  BY <1>1, <1>4 DEF Base, TypeOK, Steps
<1>6. Covered(p)' = Covered(p)
  BY <1>4 DEF Covered, OldService, NewService
<1>7. OwnSnapshot(p)
  BY DEF Base, Local
<1>8. OwnSnapshot(p)'
  BY <1>6, <1>7 DEF OwnSnapshot, Own
<1>9. Local(p)'
  <2>1. pc'[p] \in {"rbstop", "wipe"}
    BY <1>1 DEF Base, TypeOK
  <2>2. req[p] \in Requests /\ (req[p].op # "remove" => tx[p].src # None)
    BY <1>2 DEF Base, Local, Underway
  <2>3. tx'[p].left # {} /\ tx'[p].left \subseteq Covered(p)'
    BY <1>3, <1>4, <1>6
  <2>4. pc'[p] \notin Forward /\ pc'[p] # "archive"
    BY <2>1 DEF Forward
  <2>5. QED
    BY <2>2, <2>3, <2>4, <1>4, <1>8 DEF Local
<1>10. QED
  BY <1>1, <1>2, <1>5, <1>9, OwnStep DEF Underway, Outside, Steps

\* A transaction that turns to the release of its lock keeps Base.
LEMMA Ending ==
    ASSUME Base, NEW p \in Procs, pc[p] \notin Outside,
           pc' = [pc EXCEPT ![p] = "unlock"],
           tx' \in [Procs -> TxType],
           UNCHANGED <<lock, req>>,
           disk' \in [Items -> Contents], manifest' \in ManifestType,
           service' \in ServiceType, sound' \in BOOLEAN,
           backups' \in Seq(SnapshotType), misread' \in BOOLEAN
    PROVE  Base'
<1>1. TypeOK'
  BY DEF Base, TypeOK, Steps
<1>2. Local(p)'
  BY DEF Base, TypeOK, Local, Outside, Forward, Underway, WithSnapshot, Undoing
<1>3. QED
  BY <1>1, <1>2, OwnStep DEF Outside, Steps

\* An error before or after the first change.
LEMMA Failing ==
    ASSUME Base, NEW p \in Procs, pc[p] \in WithSnapshot, Fail(p),
           UNCHANGED <<lock, req, manifest, service, backups, sound>>,
           disk' \in [Items -> Contents], misread' \in BOOLEAN
    PROVE  Base'
<1>1. CASE tx[p].mutated
  BY <1>1, Retreat DEF Fail
<1>2. CASE ~tx[p].mutated
  <2>1. Finish(p, "failed")
    BY <1>2 DEF Fail
  <2>2. pc' = [pc EXCEPT ![p] = "unlock"] /\ tx' \in [Procs -> TxType]
    BY <2>1, FinishTypes DEF Base, Outcomes
  <2>3. QED
    BY <2>2, Ending DEF Base, TypeOK, WithSnapshot, Forward, Outside
<1>3. QED
  BY <1>1, <1>2

-----------------------------------------------------------------------------
(* Base is preserved by every step                                         *)

\* What the service manager's commands return.
LEMMA ServiceFacts ==
    ASSUME TypeOK
    PROVE  /\ Stopped(service) \in ServiceType
           /\ Started(service, disk["binary"]) \in ServiceType
           /\ Restarted(service, Program) \in ServiceType
           /\ \A on \in BOOLEAN : Autostart(service, on) \in ServiceType
           /\ \A r \in BOOLEAN : Exited(service, r) \in ServiceType
<1>1. disk["binary"] \in Contents /\ None \in Contents /\ Program \in Contents
  BY ConstantFacts DEF TypeOK, Items, Program, Contents
<1>2. QED
  BY <1>1 DEF TypeOK, Stopped, Started, Restarted, Autostart, Exited, ServiceType,
     ServiceStates

\* What a process under way knows of its own transaction.
LEMMA TxFacts ==
    ASSUME TypeOK, NEW p \in Procs
    PROVE  /\ tx[p] \in TxType
           /\ [tx EXCEPT ![p].mutated = TRUE] \in [Procs -> TxType]
           /\ [tx EXCEPT ![p].mutated = TRUE][p].src = tx[p].src
           /\ [tx EXCEPT ![p].mutated = TRUE][p].was = tx[p].was
<1>1. tx \in [Procs -> TxType]
  BY DEF TypeOK
<1>2. [tx[p] EXCEPT !.mutated = TRUE] \in TxType
  BY <1>1 DEF TxType
<1>3. QED
  BY <1>1, <1>2 DEF TxType

\* The steps up to the mutation keep Base.
LEMMA BasePrepare ==
    ASSUME Base, NEW p \in Procs, Prepare(p), misread' \in BOOLEAN
    PROVE  Base'
<1> USE DEF Outcomes
<1>1. CASE StopOld(p)
  <2>1. pc[p] = "stop" /\ pc' = [pc EXCEPT ![p] = "snapshot"] /\ service' = Stopped(service)
        /\ UNCHANGED <<lock, req, tx, disk, manifest, backups, sound>>
    BY <1>1 DEF StopOld, Goto
  <2>2. QED
    BY <2>1, Advance, ServiceFacts
    DEF Base, TypeOK, Underway, Steps, Forward, WithSnapshot, Undoing
<1>2. CASE StopOldFails(p)
  BY <1>2, FinishTypes, Ending DEF StopOldFails, MayFail, Base, TypeOK, host, Outside
<1>3. CASE OpenSnapshot(p)
  <2>1. pc[p] = "snapshot" /\ pc' = [pc EXCEPT ![p] = "archive"]
        /\ backups' = Opened(backups)
        /\ UNCHANGED <<lock, req, tx, disk, manifest, service, sound>>
    BY <1>3 DEF OpenSnapshot, Goto
  <2>2. backups \in Seq(SnapshotType) /\ Partial \in SnapshotType
    BY SnapshotTypes DEF Base, TypeOK
  <2>3. /\ backups' \in Seq(SnapshotType)
        /\ Len(backups') = Len(backups) + 1
        /\ backups'[Len(backups) + 1] = Partial
        /\ Len(backups) \in Nat
    BY <2>1, <2>2, OpenedFacts, LenProperties
  <2>4. TypeOK'
    BY <2>1, <2>3 DEF Base, TypeOK, Steps
  <2>5. Len(backups') >= 1 /\ Own' = Partial
    BY <2>3 DEF Own
  <2>6. Local(p)'
    BY <2>1, <2>5 DEF Base, TypeOK, Local, Forward, Underway, WithSnapshot, Undoing, Steps
  <2>7. QED
    BY <2>1, <2>4, <2>6, OwnStep DEF Outside, Steps
<1>4. CASE FillSnapshot(p)
  <2> DEFINE s == AfterSnapshot(p)
             image == [i \in Covered(p) |-> disk[i]]
  <2>1. pc[p] = "archive" /\ pc' = [pc EXCEPT ![p] = s]
        /\ backups' = Filled(backups, image)
        /\ UNCHANGED <<lock, req, tx, disk, manifest, service, sound>>
    BY <1>4 DEF FillSnapshot, Goto
  <2>2. s \in {"hook", "copy", "disable", "undefine", "rmbinary"}
        /\ (s \in {"hook", "copy"} => req[p].op # "remove")
    BY DEF AfterSnapshot
  <2>3. Covered(p) \in SUBSET Items
    BY <2>1, RequestFacts
  <2>4. image \in [Covered(p) -> Contents]
    BY <2>3 DEF Base, TypeOK
  <2>5. Complete(image) \in SnapshotType
    BY <2>3, <2>4, SnapshotTypes
  <2>6. Len(backups) >= 1 /\ backups \in Seq(SnapshotType)
    BY <2>1 DEF Base, Local, TypeOK
  <2> HIDE DEF image, s
  <2>7. /\ backups' \in Seq(SnapshotType)
        /\ Len(backups') = Len(backups)
        /\ backups'[Len(backups)] = Complete(image)
    BY <2>1, <2>5, <2>6, FilledFacts
  <2>8. TypeOK'
    BY <2>1, <2>2, <2>7 DEF Base, TypeOK, Steps
  <2>9. OwnSnapshot(p)'
    <3>1. Covered(p)' = Covered(p)
      BY <2>1 DEF Covered, OldService, NewService
    <3>2. Own' = Complete(image)
      BY <2>7 DEF Own
    <3>3. DOMAIN image = Covered(p)
      BY <2>4
    <3>4. QED
      BY <2>6, <2>7, <3>1, <3>2, <3>3 DEF OwnSnapshot, Complete
  <2>10. Local(p)'
    <3>1. pc'[p] = s
      BY <2>1 DEF Base, TypeOK
    <3>2. req[p] \in Requests /\ (req[p].op # "remove" => tx[p].src # None)
      BY <2>1 DEF Base, Local, Underway, Steps
    <3>3. QED
      BY <2>1, <2>2, <2>9, <3>1, <3>2 DEF Local, Forward, Undoing
  <2>11. QED
    BY <2>1, <2>2, <2>8, <2>10, OwnStep DEF Outside, Steps
<1>5. ASSUME pc[p] \in {"snapshot", "archive"}, AfterFailedSnapshot(p),
             UNCHANGED <<lock, req, disk, manifest, service, sound>>,
             backups' \in Seq(SnapshotType)
      PROVE  Base'
  <2>1. CASE tx[p].old.running
    <3>1. pc' = [pc EXCEPT ![p] = "restart"] /\ tx' = tx
      BY <1>5, <2>1 DEF AfterFailedSnapshot, Goto
    <3>2. TypeOK'
      BY <1>5, <3>1 DEF Base, TypeOK, Steps
    <3>3. Local(p)'
      BY <1>5, <3>1 DEF Base, TypeOK, Local, Forward, Underway, WithSnapshot, Undoing, Steps
    <3>4. QED
      BY <1>5, <3>1, <3>2, <3>3, OwnStep DEF Outside, Steps
  <2>2. CASE ~tx[p].old.running
    BY <1>5, <2>2, FinishTypes, Ending DEF AfterFailedSnapshot, Base, TypeOK, Outside
  <2>3. QED
    BY <2>1, <2>2
<1>6. CASE OpenSnapshotFails(p)
  BY <1>5, <1>6 DEF OpenSnapshotFails, host, Base, TypeOK
<1>7. CASE FillSnapshotFails(p)
  <2>1. pc[p] = "archive" /\ AfterFailedSnapshot(p)
        /\ UNCHANGED <<lock, req, disk, manifest, service, sound>>
        /\ backups' \in {Discarded(backups), backups}
    BY <1>7 DEF FillSnapshotFails, MayFail
  <2>2. Len(backups) >= 1 /\ backups \in Seq(SnapshotType)
    BY <2>1 DEF Base, Local, TypeOK
  <2>3. backups' \in Seq(SnapshotType)
    BY <2>1, <2>2, DiscardedFacts
  <2>4. QED
    BY <1>5, <2>1, <2>3
<1>8. CASE RestartOld(p)
  <2>1. PICK o \in {"failed", "dirty"} : Finish(p, o)
    BY <1>8 DEF RestartOld
  <2>2. pc[p] = "restart" /\ UNCHANGED <<lock, req, disk, manifest, backups, sound>>
        /\ service' \in {service, Started(service, disk["binary"])}
    BY <1>8 DEF RestartOld
  <2>3. QED
    BY <2>1, <2>2, FinishTypes, Ending, ServiceFacts DEF Base, TypeOK, Outside
<1>9. QED
  BY <1>1, <1>2, <1>3, <1>4, <1>6, <1>7, <1>8 DEF Prepare

\* The disk after one of its items was changed.
LEMMA DiskFacts ==
    ASSUME TypeOK, NEW i \in Items, NEW c \in Contents
    PROVE  [disk EXCEPT ![i] = c] \in [Items -> Contents]
BY DEF TypeOK

\* The steps of an install or repair after it keep Base.
LEMMA BaseInstall ==
    ASSUME Base, NEW p \in Procs,
           \/ Hook(p) \/ HookFails(p) \/ Copy(p) \/ Verify(p) \/ Define(p)
           \/ DefineFails(p) \/ Load(p) \/ SetAutostart(p) \/ Start(p)
           \/ StartFails(p) \/ Healthy(p) \/ Commit(p), misread' \in BOOLEAN
    PROVE  Base'
<1> USE DEF Underway, Steps, Forward, WithSnapshot, Undoing
<1>1. TypeOK /\ (pc[p] \in Forward => /\ req[p] \in RequestType
                                      /\ req[p].op # "remove"
                                      /\ tx[p].src # None)
  BY RequestFacts DEF Base, Local
<1>2. /\ disk \in [Items -> Contents]
      /\ pc[p] \in Forward => [disk EXCEPT !["data"] = req[p].build] \in [Items -> Contents]
      /\ pc[p] \in Forward => [disk EXCEPT !["unit"] = req[p].build] \in [Items -> Contents]
  BY <1>1, DiskFacts, ConstantFacts DEF Items, RequestType, TypeOK
<1>3. CASE Hook(p)
  <2>1. /\ pc[p] = "hook" /\ pc' = [pc EXCEPT ![p] = "copy"]
        /\ tx' = [tx EXCEPT ![p].mutated = TRUE]
        /\ disk' \in {disk, [disk EXCEPT !["data"] = req[p].build]}
        /\ UNCHANGED <<lock, req, manifest, service, backups, sound>>
    BY <1>3 DEF Hook, Goto
  <2>2. QED
    BY <1>1, <1>2, <2>1, TxFacts, Advance DEF TypeOK
<1>4. CASE HookFails(p)
  BY <1>1, <1>2, <1>4, Retreat DEF HookFails, MayFail
<1>5. CASE Copy(p)
  <2>1. /\ pc[p] = "copy" /\ pc' = [pc EXCEPT ![p] = "verify"]
        /\ tx' = [tx EXCEPT ![p].mutated = TRUE]
        /\ UNCHANGED <<lock, req, manifest, service, backups, sound>>
    BY <1>5 DEF Copy, Goto
  <2>2. PICK c \in {IF req[p].self THEN disk["binary"] ELSE req[p].build}
                   \cup (IF "call" \in Events /\ ~req[p].self THEN {Corrupt} ELSE {}) :
            disk' = [disk EXCEPT !["binary"] = c]
    BY <1>5 DEF Copy
  <2>3. c \in Contents
    BY <1>1, <2>1, <2>2, ConstantFacts DEF RequestType, TypeOK, Items
  <2>4. disk' \in [Items -> Contents]
    BY <1>1, <2>2, <2>3, DiskFacts DEF Items
  <2>5. QED
    BY <1>1, <2>1, <2>4, TxFacts, Advance DEF TypeOK
<1>6. CASE Verify(p)
  <2>1. pc[p] = "verify" /\ UNCHANGED <<lock, req, host>>
    BY <1>6 DEF Verify
  <2>2. CASE HashesAgree(p)
    <3>1. pc' = [pc EXCEPT ![p] = AfterVerify(p)] /\ tx' = tx
      BY <1>6, <2>2 DEF Verify, Goto
    <3>2. AfterVerify(p) \in {"disable", "undefine", "define", "health"}
      BY DEF AfterVerify, WithNewService
    <3>3. QED
      BY <1>1, <2>1, <3>1, <3>2, Advance DEF TypeOK, host
  <2>3. CASE ~HashesAgree(p)
    BY <1>1, <1>6, <2>1, <2>3, Failing DEF Verify, host, TypeOK
  <2>4. QED
    BY <2>2, <2>3
<1>7. CASE Define(p)
  <2>1. /\ pc[p] = "define" /\ pc' = [pc EXCEPT ![p] = "load"]
        /\ disk' = [disk EXCEPT !["unit"] = req[p].build]
        /\ UNCHANGED <<lock, req, tx, manifest, service, backups, sound>>
    BY <1>7 DEF Define, Goto
  <2>2. QED
    BY <1>1, <1>2, <2>1, Advance DEF TypeOK
<1>8. CASE DefineFails(p)
  BY <1>1, <1>2, <1>8, Failing DEF DefineFails, MayFail
<1>9. CASE Load(p)
  <2>1. PICK s \in {"autostart", "start"} : pc' = [pc EXCEPT ![p] = s]
    BY <1>9 DEF Load, Goto
  <2>2. pc[p] = "load" /\ UNCHANGED <<lock, req, tx, host>>
    BY <1>9 DEF Load
  <2>3. QED
    BY <1>1, <2>1, <2>2, Advance DEF TypeOK, host
<1>10. CASE SetAutostart(p)
  <2>1. pc[p] = "autostart" /\ pc' = [pc EXCEPT ![p] = "start"]
        /\ service' = Autostart(service, req[p].auto)
        /\ UNCHANGED <<lock, req, tx, disk, manifest, backups, sound>>
    BY <1>10 DEF SetAutostart, Goto
  <2>2. req[p].auto \in BOOLEAN
    BY <1>1, <2>1 DEF RequestType
  <2>3. QED
    BY <1>1, <2>1, <2>2, ServiceFacts, Advance DEF TypeOK
<1>11. CASE Start(p)
  <2>1. pc[p] = "start" /\ pc' = [pc EXCEPT ![p] = "health"]
        /\ service' = Started(service, disk["binary"])
        /\ UNCHANGED <<lock, req, tx, disk, manifest, backups, sound>>
    BY <1>11 DEF Start, Goto
  <2>2. QED
    BY <1>1, <2>1, ServiceFacts, Advance DEF TypeOK
<1>12. CASE StartFails(p)
  BY <1>1, <1>12, Failing DEF StartFails, host, TypeOK
<1>13. CASE Healthy(p)
  <2>1. pc[p] = "health" /\ pc' = [pc EXCEPT ![p] = "commit"] /\ UNCHANGED <<lock, req, tx, host>>
    BY <1>13 DEF Healthy, Goto
  <2>2. QED
    BY <1>1, <2>1, Advance DEF TypeOK, host
<1>14. CASE Commit(p)
  <2>1. pc[p] = "commit" /\ pc' = [pc EXCEPT ![p] = "retain"]
        /\ manifest' = NewManifest(p) /\ sound' = TRUE
        /\ UNCHANGED <<lock, req, tx, disk, service, backups>>
    BY <1>14 DEF Commit, Goto
  <2>2. NewManifest(p) \in ManifestType
    <3>1. tx[p].src \in Contents /\ tx[p].src # None
      BY <1>1, <2>1, TxFacts DEF TxType
    <3>2. NewService(p) \in BOOLEAN
      BY <1>1, <2>1 DEF NewService, RequestType
    <3>3. QED
      BY <1>1, <2>1, <3>1, <3>2 DEF NewManifest, ManifestType, RequestType
  <2>3. QED
    BY <1>1, <2>1, <2>2, Advance DEF TypeOK
<1>15. QED
  BY <1>3, <1>4, <1>5, <1>6, <1>7, <1>8, <1>9, <1>10, <1>11, <1>12, <1>13, <1>14

\* So do those of a removal, a failing call and retention.
LEMMA BaseRemove ==
    ASSUME Base, NEW p \in Procs,
           \/ Disable(p) \/ Undefine(p) \/ UndefineFails(p) \/ Unload(p)
           \/ RemoveBinary(p) \/ RemoveManifest(p) \/ CallFails(p)
           \/ Retain(p) \/ RetainFails(p), misread' \in BOOLEAN
    PROVE  Base'
<1> USE DEF Underway, Steps, Forward, WithSnapshot, Undoing
<1>1. TypeOK /\ backups \in Seq(SnapshotType) /\ disk \in [Items -> Contents]
  BY DEF Base, TypeOK
<1>2. CASE Disable(p)
  <2>1. pc[p] = "disable" /\ pc' = [pc EXCEPT ![p] = "undefine"]
        /\ service' = Autostart(service, FALSE)
        /\ UNCHANGED <<lock, req, tx, disk, manifest, backups, sound>>
    BY <1>2 DEF Disable, Goto
  <2>2. QED
    BY <1>1, <2>1, ServiceFacts, Advance DEF TypeOK
<1>3. CASE Undefine(p)
  <2>1. pc[p] = "undefine" /\ pc' = [pc EXCEPT ![p] = "unload"]
        /\ tx' = [tx EXCEPT ![p].mutated = TRUE]
        /\ disk' = [disk EXCEPT !["unit"] = None]
        /\ UNCHANGED <<lock, req, manifest, service, backups, sound>>
    BY <1>3 DEF Undefine, Goto
  <2>2. disk' \in [Items -> Contents]
    BY <1>1, <2>1, DiskFacts, ConstantFacts DEF Items
  <2>3. QED
    BY <1>1, <2>1, <2>2, TxFacts, Advance DEF TypeOK
<1>4. CASE UndefineFails(p)
  BY <1>1, <1>4, Retreat DEF UndefineFails, MayFail, host
<1>5. CASE Unload(p)
  <2>1. pc[p] = "unload" /\ UNCHANGED <<lock, req, tx, host>>
    BY <1>5 DEF Unload
  <2>2. PICK s \in {"rmbinary", "define", "health"} :
            /\ pc' = [pc EXCEPT ![p] = s]
            /\ s # "rmbinary" => req[p].op # "remove"
    BY <1>5 DEF Unload, Goto, WithNewService
  <2>3. QED
    BY <1>1, <2>1, <2>2, Advance DEF TypeOK, host
<1>6. CASE RemoveBinary(p)
  <2>1. pc[p] = "rmbinary" /\ pc' = [pc EXCEPT ![p] = "rmmanifest"]
        /\ tx' = [tx EXCEPT ![p].mutated = TRUE]
        /\ disk' = [disk EXCEPT !["binary"] = None]
        /\ UNCHANGED <<lock, req, manifest, service, backups, sound>>
    BY <1>6 DEF RemoveBinary, Goto
  <2>2. disk' \in [Items -> Contents]
    BY <1>1, <2>1, DiskFacts, ConstantFacts DEF Items
  <2>3. QED
    BY <1>1, <2>1, <2>2, TxFacts, Advance DEF TypeOK
<1>7. CASE RemoveManifest(p)
  <2>1. pc[p] = "rmmanifest" /\ pc' = [pc EXCEPT ![p] = "retain"]
        /\ manifest' = NotInstalled /\ sound' = TRUE
        /\ UNCHANGED <<lock, req, tx, disk, service, backups>>
    BY <1>7 DEF RemoveManifest, Goto
  <2>2. QED
    BY <1>1, <2>1, Advance DEF TypeOK, ManifestType
<1>8. CASE CallFails(p)
  BY <1>1, <1>8, Failing DEF CallFails, MayFail, PlainCalls, host
<1>9. CASE Retain(p)
  <2>1. pc[p] = "retain" /\ Finish(p, "done")
        /\ UNCHANGED <<lock, req, disk, manifest, service, sound>>
        /\ \/ backups' = Pruned(backups, EffectiveKeep(KeepBackups))
           \/ backups' = Discarded(backups)
           \/ backups' = Damaged(backups, Len(backups))
    BY <1>9 DEF Retain
  <2>2. Len(backups) >= 1 /\ Len(backups) \in 1 .. Len(backups)
    BY <1>1, <2>1, LenProperties DEF Base, Local, OwnSnapshot
  <2>3. backups' \in Seq(SnapshotType)
    BY <1>1, <2>1, <2>2, PrunedFacts, DiscardedFacts, DamagedFacts, SnapshotTypes,
       ConstantFacts
  <2>4. QED
    BY <1>1, <2>1, <2>3, FinishTypes, Ending DEF TypeOK, Outcomes, Outside
<1>10. CASE RetainFails(p)
  <2>1. pc[p] = "retain" /\ Finish(p, "untidy")
        /\ UNCHANGED <<lock, req, disk, manifest, service, sound>>
        /\ backups' \in {backups} \cup PrunedPartWay(backups, EffectiveKeep(KeepBackups))
    BY <1>10 DEF RetainFails, MayFail
  <2>2. backups' \in Seq(SnapshotType)
    BY <1>1, <2>1, HalfPrunedFacts, SnapshotTypes, ConstantFacts
  <2>3. QED
    BY <1>1, <2>1, <2>2, FinishTypes, Ending DEF TypeOK, Outcomes, Outside
<1>11. QED
  BY <1>2, <1>3, <1>4, <1>5, <1>6, <1>7, <1>8, <1>9, <1>10

\* The end of a rollback, and a step of it that notes whether its call succeeded.
LEMMA CloseTypes ==
    ASSUME TypeOK, NEW p \in Procs, NEW clean \in BOOLEAN, Close(p, clean)
    PROVE  /\ pc' = [pc EXCEPT ![p] = "unlock"]
           /\ tx' \in [Procs -> TxType]
           /\ sound' \in BOOLEAN
           /\ sound' => sound
<1>1. [tx[p] EXCEPT !.clean = clean, !.left = {},
                    !.outcome = IF clean THEN "rolledback" ELSE "dirty"] \in TxType
  BY DEF TypeOK, TxType, Outcomes
<1>2. QED
  BY <1>1 DEF Close, Goto, TypeOK

\* Noting what a call of the rollback returned, and what is left to restore.
LEMMA NotedTypes ==
    ASSUME TypeOK, NEW p \in Procs, NEW ok \in BOOLEAN, NEW left \in SUBSET Items,
           \/ tx' = tx
           \/ tx' = [tx EXCEPT ![p].clean = ok]
           \/ tx' = [tx EXCEPT ![p].left = left, ![p].clean = ok]
    PROVE  /\ tx' \in [Procs -> TxType]
           /\ tx'[p].src = tx[p].src
           /\ tx'[p].was = tx[p].was
           /\ tx'[p].left \in {left, tx[p].left}
<1>1. tx \in [Procs -> TxType]
  BY DEF TypeOK
<1>2. [tx[p] EXCEPT !.clean = ok] \in TxType
  BY <1>1 DEF TxType
<1>3. [tx[p] EXCEPT !.left = left, !.clean = ok] \in TxType
  BY <1>1 DEF TxType
<1>4. CASE tx' = tx
  BY <1>1, <1>4
<1>5. CASE tx' = [tx EXCEPT ![p].clean = ok]
  BY <1>1, <1>2, <1>5 DEF TxType
<1>6. CASE tx' = [tx EXCEPT ![p].left = left, ![p].clean = ok]
  BY <1>1, <1>3, <1>6 DEF TxType
<1>7. QED
  BY <1>4, <1>5, <1>6

\* A step of the rollback towards an item of the snapshot still to be restored.
LEMMA ToRestore ==
    ASSUME Base, NEW p \in Procs, pc[p] \in WithSnapshot,
           NEW s \in Undoing, pc' = [pc EXCEPT ![p] = s],
           tx' \in [Procs -> TxType],
           tx'[p].src = tx[p].src, tx'[p].was = tx[p].was,
           tx'[p].left # {}, tx'[p].left \subseteq Covered(p),
           UNCHANGED <<lock, req, manifest, backups>>,
           disk' \in [Items -> Contents],
           service' \in ServiceType, sound' \in BOOLEAN, misread' \in BOOLEAN
    PROVE  Base'
<1>1. TypeOK'
  BY DEF Base, TypeOK, Steps, Undoing
<1>2. Covered(p)' = Covered(p)
  BY DEF Covered, OldService, NewService
<1>3. OwnSnapshot(p)'
  BY <1>2 DEF Base, Local, OwnSnapshot, Own
<1>4. pc'[p] \in Undoing /\ req[p] \in Requests /\ (req[p].op # "remove" => tx[p].src # None)
  BY DEF Base, TypeOK, Local, Underway, WithSnapshot, Undoing, Forward, Steps
<1>5. Local(p)'
  BY <1>2, <1>3, <1>4 DEF Local, Forward, Undoing
<1>6. QED
  BY <1>1, <1>5, OwnStep DEF Outside, Steps, WithSnapshot, Forward, Undoing

\* An item that was wiped or refilled is no longer left, the others still are.
LEMMA BaseItemDone ==
    ASSUME Base, NEW p \in Procs, pc[p] \in {"wipe", "refill"},
           NEW item, NEW ok \in BOOLEAN, ItemDone(p, item, ok),
           UNCHANGED <<lock, req, manifest, service, backups>>,
           disk' \in [Items -> Contents], misread' \in BOOLEAN
    PROVE  Base'
<1> DEFINE left == Remaining(p, item, ok)
<1>1. pc[p] \in WithSnapshot /\ pc[p] \in Underway /\ TypeOK
  BY DEF WithSnapshot, Underway, Forward, Steps, Base
<1>2. left \subseteq Covered(p) /\ left \in SUBSET Items /\ {} \in SUBSET Items
  <2>1. pc[p] \in Undoing /\ pc[p] # "idle"
    BY DEF Undoing
  <2>2. tx[p].left \subseteq Covered(p) /\ Covered(p) \in SUBSET Items
    BY <2>1, RequestFacts DEF Base, Local
  <2>3. QED
    BY <2>2 DEF Remaining
<1>3. CASE left # {}
  <2>1. /\ pc' = [pc EXCEPT ![p] = "wipe"]
        /\ tx' = [tx EXCEPT ![p].left = left, ![p].clean = tx[p].clean /\ ok]
        /\ UNCHANGED sound
    BY <1>3 DEF ItemDone, Goto
  <2> HIDE DEF left
  <2>2. /\ tx' \in [Procs -> TxType] /\ tx'[p].src = tx[p].src
        /\ tx'[p].was = tx[p].was /\ tx'[p].left = left
    <3>1. (tx[p].clean /\ ok) \in BOOLEAN
      OBVIOUS
    <3>2. tx \in [Procs -> TxType]
      BY <1>1 DEF TypeOK
    <3>3. QED
      BY <1>1, <1>2, <2>1, <3>1, <3>2, NotedTypes DEF TxType
  <2>3. "wipe" \in Undoing
    BY DEF Undoing
  <2>4. QED
    BY <1>1, <1>2, <1>3, <2>1, <2>2, <2>3, ToRestore DEF TypeOK
<1>4. CASE left = {} /\ (OldService(p) \/ NewService(p))
  <2>1. /\ pc' = [pc EXCEPT ![p] = "reload"]
        /\ tx' = [tx EXCEPT ![p].left = {}, ![p].clean = tx[p].clean /\ ok]
        /\ UNCHANGED sound
    BY <1>4 DEF ItemDone, Goto
  <2>2. "reload" \in Underway \ ({"archive"} \cup Undoing) /\ "reload" \notin Forward
    BY DEF Underway, Forward, Steps, Undoing
  <2>3. /\ tx' \in [Procs -> TxType] /\ tx'[p].src = tx[p].src
        /\ tx'[p].was = tx[p].was
    <3>1. (tx[p].clean /\ ok) \in BOOLEAN
      OBVIOUS
    <3>2. QED
      BY <1>1, <1>2, <2>1, <3>1, NotedTypes
  <2>4. "reload" \in WithSnapshot => pc[p] \in WithSnapshot
    BY <1>1
  <2>5. QED
    BY <1>1, <2>1, <2>2, <2>3, <2>4, Advance DEF TypeOK
<1>5. CASE left = {} /\ ~(OldService(p) \/ NewService(p))
  <2>1. Close(p, tx[p].clean /\ ok)
    BY <1>5 DEF ItemDone
  <2>2. (tx[p].clean /\ ok) \in BOOLEAN
    OBVIOUS
  <2>3. QED
    BY <1>1, <2>1, <2>2, CloseTypes, Ending DEF TypeOK, Underway, Outside
<1>6. QED
  BY <1>3, <1>4, <1>5

\* Every step of a rollback keeps Base.
LEMMA BaseRollback ==
    ASSUME Base, NEW p \in Procs, UndoStep(p), misread' \in BOOLEAN
    PROVE  Base'
<1> USE DEF Underway, Steps, Forward, WithSnapshot, Undoing
<1>1. TypeOK /\ disk \in [Items -> Contents]
  BY DEF Base, TypeOK
<1>2. ASSUME pc[p] \in {"wipe", "refill"}
      PROVE  /\ LastOf(tx[p].left) \in tx[p].left
             /\ LastOf(tx[p].left) \in Items
             /\ Own.image[LastOf(tx[p].left)] \in Contents
  <2>1. tx[p].left # {} /\ tx[p].left \subseteq Covered(p) /\ OwnSnapshot(p)
    BY <1>2 DEF Base, Local
  <2>2. Covered(p) \in SUBSET Items
    BY <1>2, RequestFacts
  <2>3. LastOf(tx[p].left) \in tx[p].left
    BY <2>1, <2>2, LastOfFacts
  <2>4. Own \in SnapshotType
    BY <1>1, <2>1, LenProperties, ElementOfSeq DEF TypeOK, OwnSnapshot, Own
  <2>5. PICK S \in SUBSET Items : Own.image \in [S -> Contents]
    BY <2>4 DEF SnapshotType
  <2>6. QED
    BY <2>1, <2>2, <2>3, <2>5 DEF OwnSnapshot
<1>3. ASSUME pc[p] \in {"rbstop", "rbdisable"}, NEW s \in {"rbdisable", "wipe"},
             pc' = [pc EXCEPT ![p] = s], NEW ok \in BOOLEAN,
             tx' = tx \/ tx' = [tx EXCEPT ![p].clean = ok],
             UNCHANGED <<lock, req, disk, manifest, backups, sound>>,
             service' \in ServiceType
      PROVE  Base'
  <2>1. tx[p].left # {} /\ tx[p].left \subseteq Covered(p) /\ tx[p].left \in SUBSET Items
    BY <1>1, <1>3 DEF Base, Local, TypeOK, TxType
  <2>2. /\ tx' \in [Procs -> TxType] /\ tx'[p].src = tx[p].src
        /\ tx'[p].was = tx[p].was /\ tx'[p].left = tx[p].left
    BY <1>1, <1>3, <2>1, NotedTypes
  <2>3. QED
    BY <1>1, <1>3, <2>1, <2>2, ToRestore DEF TypeOK
\* Going on with reload, reenable or resume, or closing.
<1>4. ASSUME pc[p] \in WithSnapshot, NEW more \in BOOLEAN, NEW ok \in BOOLEAN,
             NEW s \in {"reenable", "resume"}, Onward(p, ok, more, s),
             UNCHANGED <<lock, req, disk, manifest, backups>>,
             service' \in ServiceType
      PROVE  Base'
  <2>1. (tx[p].clean /\ ok) \in BOOLEAN /\ pc[p] \in Underway
    BY <1>4
  <2>2. CASE more
    <3>1. /\ pc' = [pc EXCEPT ![p] = s]
          /\ tx' = [tx EXCEPT ![p].clean = tx[p].clean /\ ok]
          /\ UNCHANGED sound
      BY <1>4, <2>2 DEF Onward, Goto
    <3>2. /\ tx' \in [Procs -> TxType] /\ tx'[p].src = tx[p].src
          /\ tx'[p].was = tx[p].was
      BY <1>1, <2>1, <3>1, NotedTypes
    <3>3. QED
      BY <1>1, <1>4, <2>1, <3>1, <3>2, Advance DEF TypeOK
  <2>3. CASE ~more
    <3>1. Close(p, tx[p].clean /\ ok)
      BY <1>4, <2>3 DEF Onward
    <3>2. QED
      BY <1>1, <1>4, <2>1, <3>1, CloseTypes, Ending DEF TypeOK, Outside
  <2>4. QED
    BY <2>2, <2>3
<1>5. CASE RbStop(p)
  <2>1. PICK ok \in BOOLEAN : tx' = [tx EXCEPT ![p].clean = tx[p].clean /\ ok]
    BY <1>5 DEF RbStop
  <2>2. PICK s \in {"rbdisable", "wipe"} : pc' = [pc EXCEPT ![p] = s]
    BY <1>5 DEF RbStop, Goto
  <2>3. /\ pc[p] = "rbstop" /\ UNCHANGED <<lock, req, disk, manifest, backups, sound>>
        /\ service' \in {service, Stopped(service)}
    BY <1>5 DEF RbStop
  <2>4. (tx[p].clean /\ ok) \in BOOLEAN
    OBVIOUS
  <2>5. service' \in ServiceType
    BY <1>1, <2>3, ServiceFacts DEF TypeOK
  <2>6. QED
    BY <1>3, <2>1, <2>2, <2>3, <2>4, <2>5
<1>6. CASE RbInspectFails(p)
  <2>1. /\ pc[p] = "rbstop" /\ pc' = [pc EXCEPT ![p] = "wipe"]
        /\ tx' = [tx EXCEPT ![p].clean = FALSE]
        /\ UNCHANGED <<lock, req, host>>
    BY <1>6 DEF RbInspectFails, RollbackMayFail, Goto
  <2>2. QED
    BY <1>1, <1>3, <2>1 DEF host, TypeOK
<1>7. CASE RbDisable(p)
  <2>1. /\ pc[p] = "rbdisable" /\ pc' = [pc EXCEPT ![p] = "wipe"]
        /\ tx' = tx \/ tx' = [tx EXCEPT ![p].clean = FALSE]
        /\ UNCHANGED <<lock, req, disk, manifest, backups, sound>>
        /\ service' \in {service, Autostart(service, FALSE)}
    BY <1>7 DEF RbDisable, Goto
  <2>2. service' \in ServiceType
    BY <1>1, <2>1, ServiceFacts DEF TypeOK
  <2>3. QED
    BY <1>3, <2>1, <2>2
<1>8. CASE Wipe(p)
  <2> DEFINE item == LastOf(tx[p].left)
  <2>1. /\ pc[p] = "wipe" /\ disk' = [disk EXCEPT ![item] = None]
        /\ UNCHANGED <<lock, req, manifest, service, backups>>
    BY <1>8 DEF Wipe
  <2>2. item \in Items
    BY <1>2, <2>1
  <2>3. disk' \in [Items -> Contents]
    BY <1>1, <2>1, <2>2, DiskFacts, ConstantFacts
  <2>4. CASE Own.image[item] # None
    <3>1. pc' = [pc EXCEPT ![p] = "refill"] /\ UNCHANGED <<tx, sound>>
      BY <1>8, <2>4 DEF Wipe, Goto
    <3>2. tx[p].left # {} /\ tx[p].left \subseteq Covered(p)
      BY <2>1 DEF Base, Local
    <3>3. QED
      BY <1>1, <2>1, <2>3, <3>1, <3>2, ToRestore DEF TypeOK
  <2>5. CASE Own.image[item] = None
    <3>1. ItemDone(p, item, TRUE)
      BY <1>8, <2>5 DEF Wipe
    <3>2. QED
      BY <2>1, <2>3, <3>1, BaseItemDone
  <2>6. QED
    BY <2>4, <2>5
<1>9. CASE WipeFails(p)
  <2>1. /\ pc[p] = "wipe" /\ ItemDone(p, LastOf(tx[p].left), FALSE)
        /\ UNCHANGED <<lock, req, manifest, service, backups>>
    BY <1>9 DEF WipeFails, RollbackMayFail
  <2>2. disk' \in {disk, [disk EXCEPT !["data"] = Corrupt]}
    BY <1>9 DEF WipeFails, WipedPartWay
  <2>3. disk' \in [Items -> Contents]
    BY <1>1, <2>2, DiskFacts, ConstantFacts DEF Items
  <2>4. QED
    BY <2>1, <2>3, BaseItemDone
<1>10. CASE Refill(p)
  <2>1. /\ pc[p] = "refill" /\ ItemDone(p, LastOf(tx[p].left), TRUE)
        /\ disk' = [disk EXCEPT ![LastOf(tx[p].left)] = Own.image[LastOf(tx[p].left)]]
        /\ UNCHANGED <<lock, req, manifest, service, backups>>
    BY <1>10 DEF Refill
  <2>2. disk' \in [Items -> Contents]
    BY <1>1, <1>2, <2>1, DiskFacts
  <2>3. QED
    BY <2>1, <2>2, BaseItemDone
<1>11. CASE RefillFails(p)
  <2>1. PICK c \in {Corrupt, None} :
            disk' \in {disk, [disk EXCEPT ![LastOf(tx[p].left)] = c]}
    BY <1>11 DEF RefillFails
  <2>2. /\ pc[p] = "refill" /\ ItemDone(p, LastOf(tx[p].left), FALSE)
        /\ UNCHANGED <<lock, req, manifest, service, backups>>
    BY <1>11 DEF RefillFails, RollbackMayFail
  <2>3. disk' \in [Items -> Contents]
    BY <1>1, <1>2, <2>1, <2>2, DiskFacts, ConstantFacts
  <2>4. QED
    BY <2>2, <2>3, BaseItemDone
<1>12. CASE RbReload(p)
  <2>1. PICK ok \in BOOLEAN : Onward(p, ok, AfterReload(p), "reenable")
    BY <1>12 DEF RbReload
  <2>2. pc[p] = "reload" /\ UNCHANGED <<lock, req, disk, manifest, service, backups>>
    BY <1>12 DEF RbReload
  <2>3. AfterReload(p) \in BOOLEAN
    BY DEF AfterReload
  <2>4. QED
    BY <1>1, <1>4, <2>1, <2>2, <2>3 DEF TypeOK
<1>13. CASE RbEnable(p)
  <2>1. PICK ok \in BOOLEAN :
            /\ service' = IF ok THEN Autostart(service, tx[p].old.enabled) ELSE service
            /\ Onward(p, ok, tx[p].old.running, "resume")
    BY <1>13 DEF RbEnable
  <2>2. pc[p] = "reenable" /\ UNCHANGED <<lock, req, disk, manifest, backups>>
    BY <1>13 DEF RbEnable
  <2>3. tx[p].old.enabled \in BOOLEAN /\ tx[p].old.running \in BOOLEAN
    BY <1>1 DEF TypeOK, TxType, Observations
  <2>4. service' \in ServiceType
    BY <1>1, <2>1, <2>3, ServiceFacts DEF TypeOK
  <2>5. QED
    BY <1>4, <2>1, <2>2, <2>3, <2>4
<1>14. CASE RbStart(p)
  <2>1. PICK ok \in BOOLEAN :
            /\ service' = IF ok THEN Started(service, disk["binary"]) ELSE service
            /\ Close(p, tx[p].clean /\ ok)
    BY <1>14 DEF RbStart
  <2>2. pc[p] = "resume" /\ UNCHANGED <<lock, req, disk, manifest, backups>>
    BY <1>14 DEF RbStart
  <2>3. (tx[p].clean /\ ok) \in BOOLEAN
    OBVIOUS
  <2>4. service' \in ServiceType
    BY <1>1, <2>1, ServiceFacts DEF TypeOK
  <2>5. QED
    BY <1>1, <2>1, <2>2, <2>3, <2>4, CloseTypes, Ending DEF TypeOK, Outside
<1>15. QED
  BY <1>5, <1>6, <1>7, <1>8, <1>9, <1>10, <1>11, <1>12, <1>13, <1>14 DEF UndoStep

\* A process that dies leaves nothing another one relies on.
LEMMA BaseCrash ==
    ASSUME Base, NEW p \in Procs, Crash(p), misread' \in BOOLEAN
    PROVE  Base'
<1>1. /\ pc' = [pc EXCEPT ![p] = "idle"] /\ req' = [req EXCEPT ![p] = NoRequest]
      /\ tx' = [tx EXCEPT ![p] = NoTx] /\ lock' = IF lock = p THEN None ELSE lock
      /\ pc[p] # "idle" /\ sound' \in BOOLEAN /\ UNCHANGED <<manifest, service>>
  BY DEF Crash
<1>2. disk' \in [Items -> Contents]
  <2>1. CASE pc[p] = "refill"
    <3>1. LastOf(tx[p].left) \in Items
      BY <1>1, <2>1, RequestFacts, LastOfFacts DEF Base, Local, Undoing
    <3>2. disk' \in {disk, [disk EXCEPT ![LastOf(tx[p].left)] = Corrupt]}
      BY <2>1 DEF Crash
    <3>3. QED
      BY <3>1, <3>2, DiskFacts, ConstantFacts DEF Base, TypeOK
  <2>2. CASE pc[p] = "wipe"
    <3>1. disk' \in {disk, [disk EXCEPT !["data"] = Corrupt]}
      BY <2>2 DEF Crash, WipedPartWay
    <3>2. QED
      BY <3>1, DiskFacts, ConstantFacts DEF Base, TypeOK, Items
  <2>3. CASE pc[p] \notin {"wipe", "refill"}
    BY <2>3 DEF Crash, Base, TypeOK
  <2>4. QED
    BY <2>1, <2>2, <2>3
<1>3. backups' \in Seq(SnapshotType) /\ (pc[p] # "retain" => backups' = backups)
  <2>1. CASE pc[p] = "retain"
    <3>1. Len(backups) >= 1 /\ backups \in Seq(SnapshotType)
      BY <2>1 DEF Base, TypeOK, Local, WithSnapshot, OwnSnapshot
    <3>2. Len(backups) \in 1 .. Len(backups)
      BY <3>1, LenProperties
    <3>3. \/ backups' = backups
          \/ backups' \in PrunedPartWay(backups, EffectiveKeep(KeepBackups))
          \/ backups' = Damaged(backups, Len(backups))
      BY <2>1 DEF Crash
    <3>4. QED
      BY <2>1, <3>1, <3>2, <3>3, HalfPrunedFacts, DamagedFacts, SnapshotTypes, ConstantFacts
  <2>2. CASE pc[p] # "retain"
    BY <2>2 DEF Crash, Base, TypeOK
  <2>3. QED
    BY <2>1, <2>2
<1>4. TypeOK'
  <2>1. NoTx \in TxType
    BY ConstantFacts DEF NoTx, TxType, ManifestType, NotObserved, Observations, Outcomes
  <2>2. QED
    BY <1>1, <1>2, <1>3, <2>1 DEF Base, TypeOK, Steps
<1>5. MutualExclusion'
  BY <1>1 DEF Base, TypeOK, MutualExclusion
<1>6. ASSUME NEW q \in Procs PROVE Local(q)'
  <2>1. CASE q = p
    BY <1>1, <2>1 DEF Base, TypeOK, Local, Forward, Underway, WithSnapshot, Undoing
  <2>2. CASE q # p /\ pc[p] \in Outside
    <3>1. pc'[q] = pc[q] /\ req'[q] = req[q] /\ tx'[q] = tx[q] /\ backups' = backups
      BY <1>1, <1>3, <2>2 DEF Base, TypeOK, Outside
    <3>2. Local(q)
      BY DEF Base
    <3>3. QED
      BY <3>1, <3>2 DEF Local, OwnSnapshot, Own, Covered, OldService, NewService
  <2>3. CASE q # p /\ pc[p] \notin Outside
    <3>1. pc[q] \in Outside
      BY <2>3, Alone DEF Base
    <3>2. pc'[q] = pc[q] /\ req'[q] = req[q]
      BY <1>1, <2>3 DEF Base, TypeOK
    <3>3. QED
      BY <3>1, <3>2
      DEF Base, Local, Outside, Forward, Underway, WithSnapshot, Undoing
  <2>4. QED
    BY <2>1, <2>2, <2>3
<1>7. QED
  BY <1>4, <1>5, <1>6 DEF Base

\* What happens around SvcForge touches the host only.
LEMMA BaseEnvironment ==
    ASSUME Base, Environment \/ UNCHANGED vars, misread' \in BOOLEAN
    PROVE  Base'
<1>1. UNCHANGED <<lock, pc, req, tx, manifest, backups>>
  BY DEF Environment, ServiceWrites, ServiceExits, ServiceRestarts, Drift, vars
<1>2. TypeOK'
  <2>1. CASE ServiceWrites
    <3>1. service.image \in Contents
      BY DEF Base, TypeOK, ServiceType
    <3>2. QED
      BY <1>1, <2>1, <3>1, DiskFacts DEF Base, TypeOK, ServiceWrites, Items
  <2>2. CASE ServiceExits
    <3>1. service' \in ServiceType
      <4>1. \E r \in BOOLEAN : service' = Exited(service, r)
        BY <2>2 DEF ServiceExits
      <4>2. \A r \in BOOLEAN : Exited(service, r) \in ServiceType
        BY ServiceFacts DEF Base
      <4>3. QED
        BY <4>1, <4>2
    <3>2. UNCHANGED <<disk, sound>>
      BY <2>2 DEF ServiceExits
    <3>3. QED
      BY <1>1, <3>1, <3>2 DEF Base, TypeOK
  <2>3. CASE ServiceRestarts
    <3>1. service' = Restarted(service, Program) /\ UNCHANGED <<disk, sound>>
      BY <2>3 DEF ServiceRestarts
    <3>2. service' \in ServiceType
      BY <3>1, ServiceFacts DEF Base
    <3>3. QED
      BY <1>1, <3>1, <3>2 DEF Base, TypeOK
  <2>4. CASE Drift
    <3>1. \A i \in Items : \A c \in {None, Corrupt} : [disk EXCEPT ![i] = c] \in [Items -> Contents]
      BY DiskFacts, ConstantFacts DEF Base
    <3>2. disk' \in [Items -> Contents]
      BY <2>4, <3>1 DEF Drift, Items
    <3>3. QED
      BY <1>1, <2>4, <3>2 DEF Base, TypeOK, Drift
  <2>5. CASE UNCHANGED vars
    BY <2>5 DEF Base, TypeOK, vars
  <2>6. QED
    BY <2>1, <2>2, <2>3, <2>4, <2>5 DEF Environment
<1>3. MutualExclusion'
  BY <1>1 DEF Base, MutualExclusion
<1>4. ASSUME NEW q \in Procs PROVE Local(q)'
  BY <1>1 DEF Base, Local, OwnSnapshot, Own, Covered, OldService, NewService
<1>5. QED
  BY <1>2, <1>3, <1>4 DEF Base

\* Base holds at first.
LEMMA BaseInit == Init => Base
<1> SUFFICES ASSUME Init PROVE Base
  OBVIOUS
<1>1. TypeOK
  <2>1. NoTx \in TxType /\ NoRequest \in {NoRequest}
    BY ConstantFacts DEF NoTx, TxType, ManifestType, NotObserved, Observations, Outcomes
  <2>2. disk \in [Items -> Contents]
    BY InitAssumption, ConstantFacts DEF Init, Items
  <2>3. service \in ServiceType
    <3>1. NoService \in ServiceType
      BY ConstantFacts DEF NoService, ServiceType, ServiceStates
    <3>2. service = NoService \/ service \in InitServices
      BY DEF Init
    <3>3. QED
      BY <3>1, <3>2, InitAssumption
  <2>4. backups \in Seq(SnapshotType)
    BY EmptySeq DEF Init
  <2>5. QED
    BY <2>1, <2>2, <2>3, <2>4 DEF Init, TypeOK, Steps, ManifestType
<1>2. \A q \in Procs : pc[q] = "idle"
  BY DEF Init
<1>3. QED
  BY <1>1, <1>2
  DEF Base, MutualExclusion, Local, Forward, Underway, WithSnapshot, Undoing

\* Whatever happens, the history of the inspections keeps its type.
LEMMA MisreadType ==
    ASSUME TypeOK, [Next]_vars
    PROVE  misread' \in BOOLEAN
<1>1. misread \in BOOLEAN
  BY DEF TypeOK
<1>2. ASSUME NEW p \in Procs, Admit(p) PROVE misread' \in BOOLEAN
  BY <1>2, AdmitFacts
<1>3. ASSUME NEW p \in Procs, RbStop(p) PROVE misread' \in BOOLEAN
  BY <1>1, <1>3 DEF RbStop
<1>4. ASSUME NEW p \in Procs, StopOld(p) PROVE misread' \in BOOLEAN
  BY <1>1, <1>4 DEF StopOld
<1>5. ASSUME NEW p \in Procs, Begin(p) \/ Step(p) \/ Crash(p) PROVE misread' \in BOOLEAN
  <2>1. CASE Begin(p) \/ Enter(p) \/ Crash(p)
    BY <1>1, <1>2, <2>1 DEF Begin, Enter, Acquire, TurnedAway, Refuse, Unlock, Crash, host
  <2>2. CASE Prepare(p)
    BY <1>1, <1>4, <2>2 DEF Prepare, StopOldFails, OpenSnapshot, OpenSnapshotFails,
       FillSnapshot, FillSnapshotFails, RestartOld, host
  <2>3. CASE Mutate(p)
    BY <1>1, <2>3 DEF Mutate, Hook, HookFails, Copy, Verify, Define, DefineFails, Load,
       SetAutostart, Start, StartFails, Healthy, Commit, Disable, Undefine, UndefineFails,
       Unload, RemoveBinary, RemoveManifest, CallFails, Retain, RetainFails, host
  <2>4. CASE UndoStep(p)
    BY <1>1, <1>3, <2>4 DEF UndoStep, RbInspectFails, RbDisable, Wipe, WipeFails, Refill,
       RefillFails, RbReload, RbEnable, RbStart, host
  <2>5. QED
    BY <1>5, <2>1, <2>2, <2>3, <2>4 DEF Step
<1>6. CASE Environment \/ UNCHANGED vars
  BY <1>1, <1>6 DEF Environment, ServiceWrites, ServiceExits, ServiceRestarts, Drift, vars
<1>7. QED
  BY <1>5, <1>6 DEF Next

\* Base is inductive.
LEMMA BaseStep ==
    ASSUME Base, [Next]_vars
    PROVE  Base'
<1>3. misread' \in BOOLEAN
  BY MisreadType DEF Base
<1>1. ASSUME NEW p \in Procs, Begin(p) \/ Step(p) \/ Crash(p) PROVE Base'
  BY <1>1, <1>3, BaseOutside, BaseDecide, BasePrepare, BaseInstall, BaseRemove, BaseRollback,
     BaseCrash
  DEF Step, Enter, Mutate
<1>2. QED
  BY <1>1, <1>3, BaseEnvironment DEF Next

-----------------------------------------------------------------------------

\* The lifecycle keeps every variable in its type, whatever fails or crashes.
THEOREM TypeCorrect == Spec => []TypeOK
<1>1. Init => Base
  BY BaseInit
<1>2. Base /\ [Next]_vars => Base'
  BY BaseStep
<1>3. Base => TypeOK
  BY DEF Base
<1>4. QED
  BY <1>1, <1>2, <1>3, PTL DEF Spec

\* No two processes are ever past the lifecycle lock (executePlatform, lock_linux.go).
THEOREM LockProtects == Spec => []MutualExclusion
<1>1. Init => Base
  BY BaseInit
<1>2. Base /\ [Next]_vars => Base'
  BY BaseStep
<1>3. Base => MutualExclusion
  BY DEF Base
<1>4. QED
  BY <1>1, <1>2, <1>3, PTL DEF Spec

-----------------------------------------------------------------------------
(* The installed binary is never lost.  Somebody who alters the installed  *)
(* files is outside what SvcForge can promise: "drift" is left out.        *)

\* The steps of install and repair between the comparison of the hashes and the commit.
Verified == {"disable", "undefine", "unload", "define", "load", "autostart",
             "start", "health", "commit"}

\* What keeps the binary of the manifest recoverable while p is at its step.
Keeps(p) ==
    /\ pc[p] \in Verified /\ req[p].op # "remove" => disk["binary"] = tx[p].src
    /\ pc[p] \in WithSnapshot \ {"retain"} /\ Installed => Saved(manifest.hash)
    /\ pc[p] = "retain" /\ Installed => disk["binary"] = manifest.hash

Safe == Base /\ RecoverableBinary /\ \A p \in Procs : Keeps(p)

\* Process p goes to step s; nobody else moves.
Moves(p, s) ==
    /\ pc' = [pc EXCEPT ![p] = s]
    /\ \A q \in Procs \ {p} : req'[q] = req[q] /\ tx'[q] = tx[q]

\* A step that changes neither the binary nor the snapshots nor the manifest.
LEMMA SafeQuiet ==
    ASSUME Safe, Base', NEW p \in Procs, NEW s \in Steps \ {"retain"}, Moves(p, s),
           UNCHANGED <<manifest, backups>>, disk'["binary"] = disk["binary"],
           s \in Verified /\ req'[p].op # "remove" => disk["binary"] = tx'[p].src,
           s \in WithSnapshot => pc[p] \in WithSnapshot \ {"retain"}
    PROVE  Safe'
<1>1. pc \in [Procs -> Steps]
  BY DEF Safe, Base, TypeOK
<1>2. Installed' = Installed /\ Saved(manifest.hash)' = Saved(manifest.hash)
  BY DEF Installed, Saved
<1>3. RecoverableBinary'
  BY <1>2 DEF Safe, RecoverableBinary
<1>4. ASSUME NEW q \in Procs PROVE Keeps(q)'
  <2>1. CASE q = p
    BY <1>1, <1>2, <2>1 DEF Moves, Safe, Keeps
  <2>2. CASE q # p
    BY <1>1, <1>2, <2>2 DEF Moves, Safe, Keeps
  <2>3. QED
    BY <2>1, <2>2
<1>5. QED
  BY <1>3, <1>4 DEF Safe

\* After the snapshot, until the commit, the snapshot alone keeps the binary.
LEMMA SafeChange ==
    ASSUME Safe, Base', NEW p \in Procs, pc[p] \in WithSnapshot \ {"retain"},
           NEW s \in Steps \ (Verified \cup {"retain"}), Moves(p, s),
           UNCHANGED <<manifest, backups>>
    PROVE  Safe'
<1>1. pc \in [Procs -> Steps] /\ pc[p] \notin Outside
  BY DEF Safe, Base, TypeOK, WithSnapshot, Forward, Outside
<1>2. Installed' = Installed /\ Saved(manifest.hash)' = Saved(manifest.hash)
  BY DEF Installed, Saved
<1>3. Installed => Saved(manifest.hash)
  BY DEF Safe, Keeps
<1>4. RecoverableBinary'
  BY <1>2, <1>3 DEF RecoverableBinary
<1>5. ASSUME NEW q \in Procs PROVE Keeps(q)'
  <2>1. CASE q = p
    BY <1>1, <1>2, <1>3, <2>1 DEF Moves, Keeps
  <2>2. CASE q # p
    <3>1. pc'[q] \in Outside
      BY <1>1, <2>2, Alone DEF Moves, Safe, Base
    <3>2. QED
      BY <3>1 DEF Keeps, Outside, Verified, WithSnapshot, Forward
  <2>3. QED
    BY <2>1, <2>2
<1>6. QED
  BY <1>4, <1>5 DEF Safe

\* A step past the lock to one that relies on nothing.
LEMMA SafeElsewhere ==
    ASSUME Safe, Base', NEW p \in Procs, pc[p] \notin Outside,
           NEW s \in Steps, Moves(p, s), RecoverableBinary', Keeps(p)'
    PROVE  Safe'
<1>1. pc \in [Procs -> Steps]
  BY DEF Safe, Base, TypeOK
<1>2. ASSUME NEW q \in Procs, q # p PROVE Keeps(q)'
  <2>1. pc'[q] \in Outside
    BY <1>1, <1>2, Alone DEF Moves, Safe, Base
  <2>2. QED
    BY <2>1 DEF Keeps, Outside, Verified, WithSnapshot, Forward
<1>3. QED
  BY <1>2 DEF Safe

\* Where an error and the steps of a rollback lead.
LEMMA FailMoves ==
    ASSUME NEW p \in Procs, TypeOK, UNCHANGED req, Fail(p) \/ RollBack(p)
    PROVE  \E s \in {"rbstop", "wipe", "unlock"} : Moves(p, s)
BY DEF Fail, RollBack, Finish, Goto, Moves, TypeOK

\* The step a rollback turns to after one of its own.
LEMMA UndoMoves ==
    ASSUME NEW p \in Procs, TypeOK, UNCHANGED req,
           \/ \E clean \in BOOLEAN : Close(p, clean)
           \/ \E item \in Items, ok \in BOOLEAN : ItemDone(p, item, ok)
           \/ \E ok, more \in BOOLEAN : Onward(p, ok, more, "reenable") \/ Onward(p, ok, more, "resume")
    PROVE  \E s \in {"wipe", "reload", "reenable", "resume", "unlock"} : Moves(p, s)
BY DEF Close, ItemDone, Onward, Goto, Moves, TypeOK

\* Entering and leaving an operation.
LEMMA SafeEnter ==
    ASSUME Safe, Base', NEW p \in Procs, Begin(p) \/ Enter(p)
    PROVE  Safe'
<1>1. TypeOK
  BY DEF Safe, Base
<1>2. PICK s \in {"lock", "decide", "idle", "stop", "snapshot", "unlock"} : Moves(p, s)
  BY <1>1 DEF Begin, Enter, Acquire, TurnedAway, Admit, Refuse, Unlock, Finish, Goto, Moves, TypeOK
<1>3. UNCHANGED <<disk, manifest, backups>>
  BY DEF Begin, Enter, Acquire, TurnedAway, Admit, Refuse, Unlock, host
<1>4. s \in Steps \ {"retain"} /\ s \notin Verified /\ s \notin WithSnapshot
  BY DEF Steps, Verified, WithSnapshot, Forward
<1>5. QED
  BY <1>2, <1>3, <1>4, SafeQuiet

\* Stopping, and snapshots: while one is made the others stay.
LEMMA SafePrepare ==
    ASSUME Safe, Base', NEW p \in Procs, Prepare(p)
    PROVE  Safe'
<1>1. TypeOK /\ backups \in Seq(SnapshotType) /\ disk \in [Items -> Contents]
  BY DEF Safe, Base, TypeOK
<1>2. CASE StopOld(p) \/ StopOldFails(p) \/ OpenSnapshotFails(p) \/ RestartOld(p)
  <2>1. PICK s \in {"snapshot", "unlock", "restart"} : Moves(p, s)
    BY <1>1, <1>2 DEF StopOld, StopOldFails, OpenSnapshotFails, AfterFailedSnapshot,
       RestartOld, Finish, Goto, Moves, TypeOK, host
  <2>2. UNCHANGED <<disk, manifest, backups>>
    BY <1>2 DEF StopOld, StopOldFails, OpenSnapshotFails, RestartOld, host
  <2>3. s \in Steps \ {"retain"} /\ s \notin Verified /\ s \notin WithSnapshot
    BY DEF Steps, Verified, WithSnapshot, Forward
  <2>4. QED
    BY <2>1, <2>2, <2>3, SafeQuiet
\* When every usable snapshot stays, what was recoverable still is.
<1>3. ASSUME \A i \in DOMAIN backups : backups[i].complete =>
                i \in DOMAIN backups' /\ backups'[i] = backups[i],
             UNCHANGED <<disk, manifest>>
      PROVE  RecoverableBinary'
  <2>1. Saved(manifest.hash) => Saved(manifest.hash)'
    BY <1>3 DEF Saved
  <2>2. QED
    BY <1>3, <2>1 DEF Safe, RecoverableBinary, Installed
<1>4. CASE OpenSnapshot(p)
  <2>1. /\ pc[p] = "snapshot" /\ Moves(p, "archive") /\ backups' = Opened(backups)
        /\ UNCHANGED <<disk, manifest>>
    BY <1>4 DEF OpenSnapshot, Goto, Moves
  <2>2. /\ Len(backups') = Len(backups) + 1
        /\ \A i \in 1 .. Len(backups) : backups'[i] = backups[i]
        /\ DOMAIN backups = 1 .. Len(backups) /\ Len(backups) \in Nat
        /\ DOMAIN backups' = 1 .. Len(backups')
    <3>1. backups' \in Seq(SnapshotType)
      BY DEF Base, TypeOK
    <3>2. QED
      BY <1>1, <2>1, <3>1, OpenedFacts, SnapshotTypes, LenProperties
  <2>3. RecoverableBinary'
    BY <1>3, <2>1, <2>2
  <2>4. Keeps(p)'
    BY <1>1, <2>1 DEF Moves, Keeps, TypeOK, Verified, WithSnapshot, Forward
  <2>5. QED
    BY <2>1, <2>3, <2>4, SafeElsewhere DEF Outside, Steps
<1>5. CASE FillSnapshotFails(p)
  <2>1. /\ pc[p] = "archive" /\ AfterFailedSnapshot(p)
        /\ UNCHANGED <<lock, req, disk, manifest, service, sound>>
        /\ backups' \in {Discarded(backups), backups}
    BY <1>5 DEF FillSnapshotFails, MayFail
  <2>2. PICK s \in {"restart", "unlock"} : Moves(p, s)
    BY <1>1, <2>1 DEF AfterFailedSnapshot, Finish, Goto, Moves, TypeOK
  <2>3. Len(backups) >= 1 /\ backups[Len(backups)] = Partial
    BY <2>1 DEF Safe, Base, Local, Own
  <2>4. /\ Len(Discarded(backups)) = Len(backups) - 1
        /\ Discarded(backups) \in Seq(SnapshotType)
        /\ \A i \in 1 .. Len(backups) - 1 : Discarded(backups)[i] = backups[i]
        /\ DOMAIN backups = 1 .. Len(backups) /\ Len(backups) \in Nat
        /\ DOMAIN Discarded(backups) = 1 .. Len(Discarded(backups))
    BY <1>1, <2>3, DiscardedFacts, LenProperties
  <2>5. ~backups[Len(backups)].complete
    BY <2>3 DEF Partial
  <2>6. ASSUME NEW i \in DOMAIN backups, backups[i].complete
        PROVE  i \in DOMAIN backups' /\ backups'[i] = backups[i]
    <3>1. i # Len(backups)
      BY <2>5, <2>6
    <3>2. i \in 1 .. Len(backups) - 1
      BY <2>4, <2>6, <3>1
    <3>3. QED
      BY <2>1, <2>4, <3>2
  <2>7. RecoverableBinary'
    BY <1>3, <2>1, <2>6
  <2>8. Keeps(p)'
    BY <1>1, <2>2 DEF Moves, Keeps, TypeOK, Verified, WithSnapshot, Forward
  <2>9. QED
    BY <2>1, <2>2, <2>7, <2>8, SafeElsewhere DEF Outside, Steps
<1>6. CASE FillSnapshot(p)
  <2> DEFINE image == [i \in Covered(p) |-> disk[i]]
  <2>1. /\ pc[p] = "archive" /\ Moves(p, AfterSnapshot(p))
        /\ backups' = Filled(backups, image)
        /\ UNCHANGED <<req, disk, manifest>>
    BY <1>6 DEF FillSnapshot, Goto, Moves
  <2>2. AfterSnapshot(p) \in {"hook", "copy", "disable", "undefine", "rmbinary"}
        /\ (AfterSnapshot(p) \in Verified => req[p].op = "remove")
    BY DEF AfterSnapshot, Verified
  <2>3. Len(backups) >= 1 /\ backups[Len(backups)] = Partial
    BY <2>1 DEF Safe, Base, Local, Own
  <2>4. "binary" \in Covered(p) /\ Covered(p) \in SUBSET Items
    BY <2>1, RequestFacts DEF Safe
  <2>5. Complete(image) \in SnapshotType
    <3>1. image \in [Covered(p) -> Contents]
      BY <1>1, <2>4
    <3>2. QED
      BY <2>4, <3>1, SnapshotTypes
  <2>6. "binary" \in DOMAIN image /\ image["binary"] = disk["binary"]
    BY <2>4
  <2> HIDE DEF image
  <2>7. /\ backups' \in Seq(SnapshotType)
        /\ Len(backups') = Len(backups)
        /\ \A i \in 1 .. Len(backups) - 1 : backups'[i] = backups[i]
        /\ backups'[Len(backups)] = Complete(image)
    BY <1>1, <2>1, <2>3, <2>5, FilledFacts
  <2>8. DOMAIN backups = 1 .. Len(backups) /\ DOMAIN backups' = 1 .. Len(backups)
        /\ Len(backups) \in Nat
    BY <1>1, <2>7, LenProperties
  <2>9. Saved(disk["binary"])'
    <3>1. Len(backups) \in DOMAIN backups'
      BY <2>3, <2>8
    <3>2. QED
      BY <2>1, <2>6, <2>7, <3>1 DEF Saved, Complete
  <2>10. ASSUME NEW i \in DOMAIN backups, backups[i].complete
         PROVE  i \in DOMAIN backups' /\ backups'[i] = backups[i]
    <3>1. i # Len(backups)
      BY <2>3, <2>10 DEF Partial
    <3>2. i \in 1 .. Len(backups) - 1
      BY <2>8, <2>10, <3>1
    <3>3. QED
      BY <2>7, <2>8, <3>2
  <2>11. Saved(manifest.hash) => Saved(manifest.hash)'
    BY <2>1, <2>10 DEF Saved
  <2>12. Installed => Saved(manifest.hash)'
    BY <2>1, <2>9, <2>11 DEF Safe, RecoverableBinary
  <2>13. RecoverableBinary'
    BY <2>1, <2>12 DEF RecoverableBinary, Installed
  <2>14. Keeps(p)'
    <3>1. pc'[p] = AfterSnapshot(p)
      BY <1>1, <2>1 DEF Moves, TypeOK
    <3>2. QED
      BY <2>1, <2>2, <2>12, <3>1 DEF Keeps, Installed
  <2>15. QED
    BY <2>1, <2>2, <2>13, <2>14, SafeElsewhere DEF Outside, Steps
<1>7. QED
  BY <1>2, <1>4, <1>5, <1>6 DEF Prepare

\* The changes of install, repair and remove, and the commit.
LEMMA SafeMutate ==
    ASSUME Safe, Base', NEW p \in Procs, Mutate(p)
    PROVE  Safe'
<1> USE DEF Steps, Verified, WithSnapshot, Forward, Undoing
<1>1. TypeOK /\ disk \in [Items -> Contents]
  BY DEF Safe, Base, TypeOK
\* Before the hashes are compared, and where an error leads.
<1>2. CASE Hook(p) \/ Copy(p)
  <2>1. PICK s \in {"copy", "verify"} : Moves(p, s)
    BY <1>1, <1>2 DEF Hook, Copy, Goto, Moves, TypeOK
  <2>2. pc[p] \in {"hook", "copy"} /\ UNCHANGED <<manifest, backups>>
    BY <1>2 DEF Hook, Copy
  <2>3. QED
    BY <2>1, <2>2, SafeChange
<1>3. CASE HookFails(p) \/ DefineFails(p) \/ StartFails(p) \/ UndefineFails(p) \/ CallFails(p)
  <2>1. pc[p] \in WithSnapshot \ {"retain"} /\ UNCHANGED <<req, manifest, backups>>
        /\ (Fail(p) \/ RollBack(p))
    BY <1>3 DEF HookFails, DefineFails, StartFails, UndefineFails, CallFails, MayFail,
       PlainCalls, host
  <2>2. PICK s \in {"rbstop", "wipe", "unlock"} : Moves(p, s)
    BY <1>1, <2>1, FailMoves
  <2>3. QED
    BY <2>1, <2>2, SafeChange
<1>4. CASE Verify(p)
  <2>1. pc[p] = "verify" /\ UNCHANGED <<req, disk, manifest, backups>>
    BY <1>4 DEF Verify, host
  <2>2. CASE HashesAgree(p)
    <3>1. Moves(p, AfterVerify(p)) /\ tx' = tx /\ disk["binary"] = tx[p].src
      BY <1>4, <2>1, <2>2 DEF Verify, Goto, Moves, HashesAgree
    <3>2. AfterVerify(p) \in {"disable", "undefine", "define", "health"}
      BY DEF AfterVerify, WithNewService
    <3>3. QED
      BY <2>1, <3>1, <3>2, SafeQuiet
  <2>3. CASE ~HashesAgree(p)
    <3>1. Fail(p)
      BY <1>4, <2>3 DEF Verify
    <3>2. PICK s \in {"rbstop", "wipe", "unlock"} : Moves(p, s)
      BY <1>1, <2>1, <3>1, FailMoves
    <3>3. QED
      BY <2>1, <3>2, SafeChange
  <2>4. QED
    BY <2>2, <2>3
\* After they were compared, the binary stays as it is.
<1>5. CASE Define(p) \/ Load(p) \/ SetAutostart(p) \/ Start(p) \/ Healthy(p)
  <2>1. PICK s \in {"load", "autostart", "start", "health", "commit"} : Moves(p, s)
    BY <1>5 DEF Define, Load, SetAutostart, Start, Healthy, Goto, Moves
  <2>2. /\ pc[p] \in {"define", "load", "autostart", "start", "health"}
        /\ UNCHANGED <<req, tx, manifest, backups>> /\ disk'["binary"] = disk["binary"]
    BY <1>1, <1>5 DEF Define, Load, SetAutostart, Start, Healthy, host, Items
  <2>3. req[p].op # "remove" => disk["binary"] = tx[p].src
    BY <2>2 DEF Safe, Keeps
  <2>4. QED
    BY <2>1, <2>2, <2>3, SafeQuiet
<1>6. CASE Disable(p) \/ Undefine(p) \/ Unload(p)
  <2>1. PICK s \in {"undefine", "unload", "rmbinary", "define", "health"} : Moves(p, s)
    BY <1>1, <1>6 DEF Disable, Undefine, Unload, WithNewService, Goto, Moves, TypeOK
  <2>2. /\ pc[p] \in {"disable", "undefine", "unload"}
        /\ UNCHANGED <<req, manifest, backups>> /\ disk'["binary"] = disk["binary"]
        /\ tx'[p].src = tx[p].src
    <3>1. CASE Disable(p) \/ Unload(p)
      BY <3>1 DEF Disable, Unload, host
    <3>2. CASE Undefine(p)
      <4>1. tx' = [tx EXCEPT ![p].mutated = TRUE] /\ disk' = [disk EXCEPT !["unit"] = None]
            /\ pc[p] = "undefine" /\ UNCHANGED <<req, manifest, backups>>
        BY <3>2 DEF Undefine
      <4>2. tx'[p].src = tx[p].src
        BY <1>1, <4>1, TxFacts
      <4>3. disk'["binary"] = disk["binary"]
        BY <1>1, <4>1 DEF Items
      <4>4. QED
        BY <4>1, <4>2, <4>3
    <3>3. QED
      BY <1>6, <3>1, <3>2
  <2>3. req[p].op # "remove" => disk["binary"] = tx[p].src
    BY <2>2 DEF Safe, Keeps
  <2>4. QED
    BY <2>1, <2>2, <2>3, SafeQuiet
<1>7. CASE RemoveBinary(p)
  <2>1. pc[p] = "rmbinary" /\ Moves(p, "rmmanifest") /\ UNCHANGED <<manifest, backups>>
    BY <1>1, <1>7 DEF RemoveBinary, Goto, Moves, TypeOK
  <2>2. QED
    BY <2>1, SafeChange
<1>8. CASE Commit(p)
  <2>1. /\ pc[p] = "commit" /\ Moves(p, "retain") /\ manifest' = NewManifest(p)
        /\ UNCHANGED <<req, tx, disk, backups>>
    BY <1>8 DEF Commit, Goto, Moves
  <2>2. req[p].op # "remove"
    BY <2>1 DEF Safe, Base, Local
  <2>3. disk["binary"] = tx[p].src
    BY <2>1, <2>2 DEF Safe, Keeps
  <2>4. disk'["binary"] = manifest'.hash
    BY <2>1, <2>3 DEF NewManifest
  <2>5. RecoverableBinary'
    BY <2>4 DEF RecoverableBinary
  <2>6. Keeps(p)'
    <3>1. pc'[p] = "retain"
      BY <1>1, <2>1 DEF Moves, TypeOK
    <3>2. QED
      BY <2>4, <3>1 DEF Keeps
  <2>7. QED
    BY <2>1, <2>5, <2>6, SafeElsewhere DEF Outside
<1>9. CASE RemoveManifest(p)
  <2>1. pc[p] = "rmmanifest" /\ Moves(p, "retain") /\ manifest' = NotInstalled
    BY <1>9 DEF RemoveManifest, Goto, Moves
  <2>2. ~Installed'
    BY <2>1 DEF Installed
  <2>3. Keeps(p)'
    <3>1. pc'[p] = "retain"
      BY <1>1, <2>1 DEF Moves, TypeOK
    <3>2. QED
      BY <2>2, <3>1 DEF Keeps
  <2>4. QED
    BY <2>1, <2>2, <2>3, SafeElsewhere DEF Outside, RecoverableBinary
\* Retention: the commit is done, the binary itself is what the manifest says.
<1>10. CASE Retain(p) \/ RetainFails(p)
  <2>1. pc[p] = "retain" /\ Moves(p, "unlock") /\ UNCHANGED <<disk, manifest>>
    BY <1>1, <1>10 DEF Retain, RetainFails, MayFail, Finish, Goto, Moves, TypeOK
  <2>2. RecoverableBinary'
    BY <2>1 DEF Safe, Keeps, RecoverableBinary, Installed
  <2>3. Keeps(p)'
    <3>1. pc'[p] = "unlock"
      BY <1>1, <2>1 DEF Moves, TypeOK
    <3>2. QED
      BY <3>1 DEF Keeps
  <2>4. QED
    BY <2>1, <2>2, <2>3, SafeElsewhere DEF Outside
<1>11. QED
  BY <1>2, <1>3, <1>4, <1>5, <1>6, <1>7, <1>8, <1>9, <1>10 DEF Mutate

\* A rollback changes what it likes: the snapshot it restores from stays.
LEMMA SafeUndo ==
    ASSUME Safe, Base', NEW p \in Procs, UndoStep(p)
    PROVE  Safe'
<1> USE DEF Steps, Verified, WithSnapshot, Forward, Undoing
<1>1. TypeOK
  BY DEF Safe, Base
<1>2. pc[p] \in WithSnapshot \ {"retain"} /\ UNCHANGED <<req, manifest, backups>>
  BY DEF UndoStep, RbStop, RbInspectFails, RbDisable, Wipe, WipeFails, Refill, RefillFails,
     RbReload, RbEnable, RbStart, RollbackMayFail, host
<1>3. \E s \in {"rbdisable", "wipe", "refill", "reload", "reenable", "resume", "unlock"} :
          Moves(p, s)
  <2>1. CASE RbStop(p) \/ RbInspectFails(p) \/ RbDisable(p)
    BY <1>1, <2>1 DEF RbStop, RbInspectFails, RbDisable, Goto, Moves, TypeOK
  <2>2. CASE Wipe(p) \/ WipeFails(p) \/ Refill(p) \/ RefillFails(p)
    <3>1. LastOf(tx[p].left) \in Items
      <4>1. pc[p] \in Undoing /\ pc[p] # "idle"
        BY <2>2 DEF Wipe, WipeFails, Refill, RefillFails, RollbackMayFail
      <4>2. QED
        BY <4>1, RequestFacts, LastOfFacts DEF Safe, Base, Local
    <3>2. \/ \E ok \in BOOLEAN : ItemDone(p, LastOf(tx[p].left), ok)
          \/ pc' = [pc EXCEPT ![p] = "refill"] /\ UNCHANGED <<tx, sound>>
      BY <2>2 DEF Wipe, WipeFails, Refill, RefillFails, Goto
    <3>3. QED
      BY <1>1, <1>2, <3>1, <3>2, UndoMoves DEF Moves
  <2>3. CASE RbReload(p) \/ RbEnable(p) \/ RbStart(p)
    <3>1. tx[p].clean \in BOOLEAN /\ tx[p].old.running \in BOOLEAN /\ AfterReload(p) \in BOOLEAN
      BY <1>1 DEF TypeOK, TxType, Observations, AfterReload
    <3>2. \/ \E ok \in BOOLEAN : Onward(p, ok, AfterReload(p), "reenable")
          \/ \E ok \in BOOLEAN : Onward(p, ok, tx[p].old.running, "resume")
          \/ \E clean \in BOOLEAN : Close(p, clean)
      BY <2>3, <3>1 DEF RbReload, RbEnable, RbStart
    <3>3. QED
      BY <1>1, <1>2, <3>1, <3>2, UndoMoves
  <2>4. QED
    BY <2>1, <2>2, <2>3 DEF UndoStep
<1>4. QED
  BY <1>2, <1>3, SafeChange

\* A crash, at whatever step.
LEMMA SafeCrash ==
    ASSUME Safe, Base', NEW p \in Procs, Crash(p)
    PROVE  Safe'
<1> USE DEF Steps, Verified, WithSnapshot, Forward, Undoing
<1>1. TypeOK
  BY DEF Safe, Base
<1>2. Moves(p, "idle") /\ UNCHANGED manifest
  BY <1>1 DEF Crash, Moves, TypeOK
<1>3. CASE pc[p] = "refill"
  BY <1>2, <1>3, SafeChange DEF Crash
<1>4. CASE pc[p] = "retain"
  <2>1. UNCHANGED disk
    BY <1>4 DEF Crash
  <2>2. RecoverableBinary'
    BY <1>2, <1>4, <2>1 DEF Safe, Keeps, RecoverableBinary, Installed
  <2>3. Keeps(p)'
    <3>1. pc'[p] = "idle"
      BY <1>1, <1>2 DEF Moves, TypeOK
    <3>2. QED
      BY <3>1 DEF Keeps
  <2>4. QED
    BY <1>2, <1>4, <2>2, <2>3, SafeElsewhere DEF Outside
<1>5. CASE pc[p] \notin {"refill", "retain"}
  <2>1. disk'["binary"] = disk["binary"] /\ UNCHANGED backups
    BY <1>1, <1>5 DEF Crash, WipedPartWay, TypeOK, Items
  <2>2. QED
    BY <1>2, <1>5, <2>1, SafeQuiet
<1>6. QED
  BY <1>3, <1>4, <1>5

\* Whoever else acts on the host, without altering files, keeps Safe.
LEMMA SafeEnvironment ==
    ASSUME Safe, Base', "drift" \notin Events, Environment \/ UNCHANGED vars
    PROVE  Safe'
<1>1. UNCHANGED <<pc, req, tx, manifest, backups>> /\ disk'["binary"] = disk["binary"]
  BY DEF Environment, ServiceWrites, ServiceExits, ServiceRestarts, Drift, vars, Safe, Base,
     TypeOK, Items
<1>2. RecoverableBinary'
  BY <1>1 DEF Safe, RecoverableBinary, Installed, Saved
<1>3. ASSUME NEW q \in Procs PROVE Keeps(q)'
  BY <1>1 DEF Safe, Keeps, Installed, Saved
<1>4. QED
  BY <1>2, <1>3 DEF Safe

\* Safe holds at first: nothing is installed.
LEMMA SafeInit == Init => Safe
<1> SUFFICES ASSUME Init PROVE Safe
  OBVIOUS
<1>1. Base /\ ~Installed /\ \A q \in Procs : pc[q] = "idle"
  BY BaseInit DEF Init, Installed
<1>2. QED
  BY <1>1 DEF Safe, RecoverableBinary, Keeps, Verified, WithSnapshot, Forward

\* Safe is inductive as long as nobody alters the files.
LEMMA SafeStep ==
    ASSUME Safe, "drift" \notin Events, [Next]_vars
    PROVE  Safe'
<1>1. Base'
  BY BaseStep DEF Safe
<1>2. ASSUME NEW p \in Procs, Begin(p) \/ Step(p) \/ Crash(p) PROVE Safe'
  BY <1>1, <1>2, SafeEnter, SafePrepare, SafeMutate, SafeUndo, SafeCrash DEF Step
<1>3. QED
  BY <1>1, <1>2, SafeEnvironment DEF Next

(***************************************************************************)
(* As long as nobody but SvcForge alters the installed files, the binary   *)
(* the manifest records is installed or in a usable snapshot: at every     *)
(* moment, whatever call fails, whichever process dies at whichever step,  *)
(* and however few snapshots the retention policy keeps.                   *)
(***************************************************************************)
THEOREM BinaryIsRecoverable ==
    ASSUME "drift" \notin Events
    PROVE  Spec => []RecoverableBinary
<1>1. Init => Safe
  BY SafeInit
<1>2. Safe /\ [Next]_vars => Safe'
  BY SafeStep
<1>3. Safe => RecoverableBinary
  BY DEF Safe
<1>4. QED
  BY <1>1, <1>2, <1>3, PTL DEF Spec

-----------------------------------------------------------------------------
(* Lifecycle implements Transaction                                        *)

\* The steps of a transaction that has not committed.
Before == Underway \ {"retain"}

\* The files of the installation that the snapshot of p covers.
Files(p) == Covered(p) \ {"data"}

\* What was read at the admission still holds, and was enough for the operation.
Admitted(p) ==
    pc[p] \in Before =>
        /\ manifest = tx[p].was
        /\ req[p].op = "remove" => HadInstall(p)
        /\ tx[p].old.enabled => OldService(p)

\* A fresh install found nothing where it writes, or the very binary it installs.
Vacated(p) ==
    pc[p] \in Before /\ req[p].op # "remove" /\ ~HadInstall(p) =>
        /\ Effective("binary") \in {None, tx[p].src}
        /\ NewService(p) => Effective("unit") = None

\* The steps of a rollback.
Restoring == Undoing \cup {"reload", "reenable", "resume"}

\* The steps that deal with a service are those of an operation that has one.
Routed(p) ==
    /\ pc[p] \in {"define", "load", "autostart", "start"} => NewService(p)
    /\ pc[p] \in {"disable", "undefine", "unload"} => OldService(p) /\ ~NewService(p)
    /\ pc[p] \in {"rmbinary", "rmmanifest"} => req[p].op = "remove"
    /\ pc[p] \in {"verify"} \cup Verified /\ req[p].op # "remove" => tx[p].mutated
    /\ pc[p] \in Restoring => tx[p].mutated

\* What the steps done so far have made of the files.
Reached(p) ==
    /\ pc[p] \in Verified /\ req[p].op # "remove" => disk["binary"] = tx[p].src
    /\ pc[p] = "rmmanifest" => disk["binary"] = None
    /\ pc[p] \in {"load", "autostart", "start", "health", "commit"} /\ NewService(p)
          => disk["unit"] = req[p].build
    /\ pc[p] \in {"unload", "health", "commit", "rmbinary", "rmmanifest"}
       /\ OldService(p) /\ ~NewService(p) => disk["unit"] = None

\* Before the first change, and behind a rollback without errors, the files are as saved.
Intact(p) ==
    /\ pc[p] \in Undecidable /\ ~tx[p].mutated =>
          \A i \in Files(p) : disk[i] = Own.image[i]
    /\ pc[p] \in Undoing /\ tx[p].clean =>
          \A i \in Files(p) \ tx[p].left : disk[i] = Own.image[i]
    /\ pc[p] \in Restoring \ Undoing /\ tx[p].clean =>
          \A i \in Files(p) : disk[i] = Own.image[i]

Fits(p) == Admitted(p) /\ Vacated(p) /\ Routed(p) /\ Reached(p) /\ Intact(p)

Exact == Base /\ \A p \in Procs : Fits(p)

-----------------------------------------------------------------------------
(* What is installed while an operation is under way                       *)

\* How the sets of steps lie within each other.
LEMMA UndecidableSteps ==
    /\ Undecidable = WithSnapshot \ {"retain"}
    /\ Undecidable \subseteq Before /\ Before \subseteq Steps
    /\ Before \cap Outside = {}
BY DEF Undecidable, WithSnapshot, Forward, Before, Underway, Steps, Outside

\* Past the lock, what is installed is the snapshot or the disk of the one at work.
LEMMA EffectiveOf ==
    ASSUME Base, NEW p \in Procs, pc[p] \notin Outside, NEW i \in Items
    PROVE  Effective(i) = IF pc[p] \in Undecidable /\ i \in Covered(p)
                          THEN Own.image[i] ELSE disk[i]
<1>1. lock = p /\ p # None
  BY ConstantFacts DEF Base, MutualExclusion, Outside
<1>2. QED
  BY <1>1 DEF Effective, Pending

\* A snapshot holds contents.
LEMMA ImageTypes ==
    ASSUME Base, NEW p \in Procs, pc[p] \in WithSnapshot
    PROVE  \A i \in Covered(p) : Own.image[i] \in Contents
<1>1. OwnSnapshot(p) /\ backups \in Seq(SnapshotType)
  BY DEF Base, Local, TypeOK
<1>2. Own \in SnapshotType
  BY <1>1, LenProperties, ElementOfSeq DEF OwnSnapshot, Own
<1>3. PICK S \in SUBSET Items : Own.image \in [S -> Contents]
  BY <1>2 DEF SnapshotType
<1>4. QED
  BY <1>1, <1>3 DEF OwnSnapshot

\* What is installed is contents, be it that of the disk or of a snapshot.
LEMMA EffectiveTypes ==
    ASSUME Base, NEW i \in Items
    PROVE  Effective(i) \in Contents
<1>1. disk[i] \in Contents
  BY DEF Base, TypeOK
<1>2. CASE Pending(i)
  <2>1. lock \in Procs /\ pc[lock] \in WithSnapshot /\ i \in Covered(lock)
    BY <1>2, UndecidableSteps DEF Pending, Base, TypeOK
  <2>2. QED
    BY <1>2, <2>1, ImageTypes DEF Effective
<1>3. QED
  BY <1>1, <1>2 DEF Effective

\* What is installed has its type, and so it has in the next state.
Viewed == \A i \in Items : Effective(i) \in Contents

\* The same in the next state.
LEMMA EffectiveTypesNext == Base' => Viewed'
<1>1. Base => Viewed
  BY EffectiveTypes DEF Viewed
<1>2. QED
  BY <1>1, PTL

\* The transaction p, on its way from its snapshot to its end, changes only what it saved.
LEMMA SameView ==
    ASSUME Base, Base', NEW p \in Procs, pc[p] \in Undecidable,
           NEW s \in Undecidable, pc' = [pc EXCEPT ![p] = s],
           UNCHANGED <<lock, req, backups>>, tx'[p].was = tx[p].was,
           \A i \in {"binary", "unit"} \ Covered(p) : disk'[i] = disk[i]
    PROVE  \A i \in {"binary", "unit"} : Effective(i)' = Effective(i)
<1>1. pc'[p] = s /\ pc[p] \notin Outside /\ pc'[p] \notin Outside
  BY UndecidableSteps DEF Base, TypeOK
<1>2. Covered(p)' = Covered(p)
  BY DEF Covered, OldService, NewService
<1>3. Own' = Own
  BY DEF Own
<1>4. lock = p /\ lock' = p /\ p # None
  BY <1>1, ConstantFacts DEF Base, MutualExclusion, Outside
<1>5. QED
  BY <1>1, <1>2, <1>3, <1>4 DEF Effective, Pending

\* Everybody else is outside the lock and fits trivially: a step past the lock only has to show its own part.
LEMMA FitsAlone ==
    ASSUME Exact, Base', NEW p \in Procs, pc[p] \notin Outside, NEW s \in Steps,
           pc' = [pc EXCEPT ![p] = s], Fits(p)'
    PROVE  Exact'
<1>1. ASSUME NEW q \in Procs, q # p PROVE Fits(q)'
  <2>1. pc[q] \in Outside
    BY <1>1, Alone DEF Exact, Base
  <2>2. pc'[q] \in Outside
    BY <1>1, <2>1 DEF Exact, Base, TypeOK
  <2>3. QED
    BY <2>2 DEF Fits, Admitted, Vacated, Routed, Reached, Intact, Outside, Before,
       Underway, Verified, Undecidable, Undoing, Restoring
<1>2. QED
  BY <1>1 DEF Exact

\* At these steps nothing is relied on.
LEMMA Rests ==
    ASSUME Exact, Base', NEW p \in Procs, pc[p] \notin Outside,
           NEW s \in {"idle", "decide", "retain", "unlock"}, pc' = [pc EXCEPT ![p] = s]
    PROVE  Exact'
<1>1. pc'[p] = s /\ s \in Steps
  BY DEF Exact, Base, TypeOK, Steps
<1>2. Fits(p)'
  BY <1>1 DEF Fits, Admitted, Vacated, Routed, Reached, Intact, Before, Underway,
     Verified, Undecidable, Undoing, Restoring
<1>3. QED
  BY <1>1, <1>2, FitsAlone

\* A step that goes on with the operation without changing what is installed.
LEMMA GoesOn ==
    ASSUME Exact, Base', NEW p \in Procs, pc[p] \in Before,
           NEW s \in Before, pc' = [pc EXCEPT ![p] = s],
           UNCHANGED <<lock, req, manifest>>,
           tx'[p].src = tx[p].src, tx'[p].was = tx[p].was, tx'[p].old = tx[p].old,
           \A i \in {"binary", "unit"} : Effective(i)' = Effective(i),
           Routed(p)', Reached(p)', Intact(p)'
    PROVE  Exact'
<1>1. pc'[p] = s /\ s \in Steps /\ pc[p] \notin Outside
  BY UndecidableSteps DEF Exact, Base, TypeOK
<1>2. Admitted(p) /\ Vacated(p)
  BY DEF Exact, Fits
<1>3. Admitted(p)' /\ Vacated(p)'
  BY <1>1, <1>2 DEF Admitted, Vacated, HadInstall, OldService, NewService
<1>4. QED
  BY <1>1, <1>3, FitsAlone DEF Fits

(***************************************************************************)
(* A step of p between steps at which it has no pending change leaves what *)
(* is installed as it is, if it leaves the files.                          *)
(***************************************************************************)
LEMMA ViewKept ==
    ASSUME Base, NEW p \in Procs, pc[p] \notin Undecidable, pc'[p] \notin Undecidable,
           \A q \in Procs \ {p} : pc'[q] = pc[q] /\ req'[q] = req[q] /\ tx'[q] = tx[q],
           \/ lock' = lock /\ backups' = backups
           \/ {lock, lock'} \subseteq {None, p},
           \A i \in {"binary", "unit"} : disk'[i] = disk[i]
    PROVE  \A i \in {"binary", "unit"} : Effective(i)' = Effective(i)
<1>1. CASE lock' = lock /\ backups' = backups /\ lock \in Procs \ {p}
  BY <1>1 DEF Effective, Pending, Own, Covered, OldService, NewService
<1>2. CASE {lock, lock'} \subseteq {None, p}
  BY <1>2 DEF Effective, Pending
<1>3. QED
  BY <1>1, <1>2 DEF Base, TypeOK

\* What happens to a process outside the lock does not concern the one at work.
LEMMA ExactAside ==
    ASSUME Exact, Base', NEW p \in Procs, pc[p] \in Outside,
           pc'[p] \in {"idle", "lock", "decide"},
           \A q \in Procs \ {p} : pc'[q] = pc[q] /\ req'[q] = req[q] /\ tx'[q] = tx[q],
           \A i \in {"binary", "unit"} : Effective(i)' = Effective(i) /\ disk'[i] = disk[i],
           UNCHANGED <<manifest, backups>>
    PROVE  Exact'
<1>1. Fits(p)'
  BY DEF Fits, Admitted, Vacated, Routed, Reached, Intact, Before, Underway,
     Verified, Undecidable, Undoing, Restoring
<1>2. ASSUME NEW q \in Procs \ {p} PROVE Fits(q)'
  <2>1. Fits(q) /\ UNCHANGED <<pc[q], req[q], tx[q], Own>>
    BY DEF Exact, Own
  <2>2. UNCHANGED <<Covered(q), Files(q), OldService(q), NewService(q), HadInstall(q)>>
        /\ "data" \notin Files(q) /\ Files(q) \subseteq {"binary", "unit"}
    BY <2>1 DEF Covered, Files, OldService, NewService, HadInstall
  <2>3. Admitted(q)' /\ Vacated(q)'
    BY <2>1, <2>2 DEF Fits, Admitted, Vacated
  <2>4. Routed(q)' /\ Reached(q)'
    BY <2>1, <2>2 DEF Fits, Routed, Reached, Restoring, Undoing
  <2>5. Intact(q)'
    BY <2>1, <2>2 DEF Fits, Intact, Restoring, Undoing
  <2>6. QED
    BY <2>3, <2>4, <2>5 DEF Fits
<1>3. QED
  BY <1>1, <1>2 DEF Exact

-----------------------------------------------------------------------------
(* What a step looks like from outside                                     *)

\* Nothing but the beginning or the end of an operation is seen.
LEMMA SeenEdge ==
    ASSUME \A i \in {"binary", "unit"} : Effective(i)' = Effective(i),
           UNCHANGED <<manifest, sound>>,
           \/ lock' = lock
           \/ lock = None /\ lock' \in Procs
           \/ lock # None /\ lock' = None
    PROVE  [T!Next]_(T!vars)
BY DEF T!Next, T!Begin, T!End, T!vars

\* A step that leaves the host in doubt.
LEMMA SeenDoubt ==
    ASSUME Base', UNCHANGED manifest, sound' = FALSE, lock' \in {lock, None}
    PROVE  [T!Next]_(T!vars)
<1>1. \A i \in Items : Effective(i)' \in Contents
  BY EffectiveTypesNext DEF Viewed
<1>2. QED
  BY <1>1 DEF T!Next, T!Interrupt, Items

-----------------------------------------------------------------------------
(* Every step fits, and is a step of Transaction or none                   *)

\* Entering and leaving an operation.
LEMMA ExactEnter ==
    ASSUME Exact, Base', NEW p \in Procs,
           \/ Begin(p) \/ Acquire(p) \/ TurnedAway(p) \/ Refuse(p) \/ Unlock(p)
    PROVE  Exact' /\ [T!Next]_(T!vars)
<1>1. pc \in [Procs -> Steps] /\ req \in [Procs -> Requests \cup {NoRequest}]
      /\ tx \in [Procs -> TxType] /\ None \notin Procs
  BY ConstantFacts DEF Exact, Base, TypeOK
<1>2. CASE Begin(p) \/ TurnedAway(p) \/ Acquire(p)
  <2>1. /\ pc[p] \in Outside /\ pc'[p] \in {"idle", "lock", "decide"}
        /\ \A q \in Procs \ {p} : pc'[q] = pc[q] /\ req'[q] = req[q] /\ tx'[q] = tx[q]
        /\ lock' = lock \/ (lock = None /\ lock' = p)
        /\ UNCHANGED host
    BY <1>1, <1>2 DEF Begin, TurnedAway, Acquire, LockFree, Goto, Outside
  <2>2. pc[p] \notin Undecidable /\ pc'[p] \notin Undecidable
    BY <2>1 DEF Undecidable, Outside
  <2>3. \A i \in {"binary", "unit"} : Effective(i)' = Effective(i)
    BY <2>1, <2>2, ViewKept DEF host, Exact
  <2>4. QED
    BY <2>1, <2>3, ExactAside, SeenEdge DEF host
<1>3. CASE Refuse(p) \/ Unlock(p)
  <2>1. /\ pc[p] \in {"decide", "unlock"} /\ pc[p] \notin Outside
        /\ \E s \in {"idle", "unlock"} : pc' = [pc EXCEPT ![p] = s]
        /\ \A q \in Procs \ {p} : pc'[q] = pc[q] /\ req'[q] = req[q] /\ tx'[q] = tx[q]
        /\ lock' = lock \/ lock' = None
        /\ UNCHANGED host
    BY <1>1, <1>3 DEF Refuse, Unlock, Finish, Goto, Outside
  <2>2. pc[p] \notin Undecidable /\ pc'[p] \notin Undecidable
    BY <1>1, <2>1 DEF Undecidable
  <2>3. lock = p
    BY <2>1 DEF Exact, Base, MutualExclusion, Outside
  <2>4. \A i \in {"binary", "unit"} : Effective(i)' = Effective(i)
    BY <2>1, <2>2, <2>3, ViewKept DEF host, Exact
  <2>5. Exact'
    BY <2>1, Rests
  <2>6. [T!Next]_(T!vars)
    BY <1>1, <2>1, <2>3, <2>4, SeenEdge DEF host
  <2>7. QED
    BY <2>5, <2>6
<1>4. QED
  BY <1>2, <1>3

\* The decision is where a transaction learns what it relies on.
LEMMA ExactAdmit ==
    ASSUME Exact, Base', NEW p \in Procs, Admit(p)
    PROVE  Exact' /\ [T!Next]_(T!vars)
<1>20. TypeOK
  BY DEF Exact, Base
<1>21. /\ pc[p] = "decide"
       /\ Admissible(req[p])
       /\ UNCHANGED <<lock, req, disk, manifest, service, backups, sound>>
  BY <1>20, AdmitFacts
<1>22. PICK old \in Observations :
          /\ old \in IF manifest.service THEN Seen ELSE {NotObserved}
          /\ tx' = [tx EXCEPT ![p].src = SourceHash(req[p]),
                              ![p].was = manifest,
                              ![p].old = old]
          /\ pc' = [pc EXCEPT ![p] = IF old.running THEN "stop" ELSE "snapshot"]
  BY <1>20, AdmitFacts
<1> DEFINE s == IF old.running THEN "stop" ELSE "snapshot"
<1>1. /\ pc[p] = "decide"
      /\ Admissible(req[p])
      /\ tx' = [tx EXCEPT ![p].src = SourceHash(req[p]),
                          ![p].was = manifest,
                          ![p].old = old]
      /\ pc' = [pc EXCEPT ![p] = s]
      /\ UNCHANGED <<lock, req, disk, manifest, service, backups, sound>>
  BY <1>21, <1>22
<1>2. s \in {"stop", "snapshot"} /\ (old.enabled => manifest.service)
  BY <1>22 DEF NotObserved
<1> HIDE DEF s
<1>3. pc'[p] = s /\ tx \in [Procs -> TxType] /\ pc[p] \notin Outside
  BY <1>1 DEF Exact, Base, TypeOK, Outside
<1>4. tx'[p].src = SourceHash(req[p]) /\ tx'[p].was = manifest /\ tx'[p].old = old
      /\ \A q \in Procs \ {p} : pc'[q] = pc[q] /\ req'[q] = req[q] /\ tx'[q] = tx[q]
  BY <1>1, <1>3 DEF TxType, Exact, Base, TypeOK
<1>5. req[p] \in RequestType
  BY <1>1, RequestFacts DEF Exact
<1>6. \A i \in {"binary", "unit"} : Effective(i)' = Effective(i) /\ Effective(i) = disk[i]
  <2>1. pc[p] \notin Undecidable /\ pc'[p] \notin Undecidable
    BY <1>1, <1>2, <1>3 DEF Undecidable
  <2>2. QED
    BY <1>1, <1>3, <1>4, <2>1, ViewKept, EffectiveOf DEF Exact, Items
<1>7. Admitted(p)'
  BY <1>1, <1>2, <1>4, <1>5 DEF Admitted, HadInstall, OldService, Admissible, Installed,
     RequestType
<1>8. Vacated(p)'
  <2>1. SUFFICES ASSUME req[p].op # "remove", ~Installed
                 PROVE  /\ disk["binary"] \in {None, SourceHash(req[p])}
                        /\ req[p].service => disk["unit"] = None
    BY <1>1, <1>4, <1>6 DEF Vacated, HadInstall, NewService, Installed
  <2>2. PathsFree(req[p])
    BY <1>1, <1>5, <2>1 DEF Admissible, RequestType
  <2>3. QED
    BY <2>1, <2>2 DEF PathsFree, SourceHash
<1>9. Routed(p)' /\ Reached(p)' /\ Intact(p)'
  BY <1>2, <1>3 DEF Routed, Reached, Intact, Verified, Undecidable, Undoing,
     Restoring
<1>10. Exact'
  BY <1>1, <1>2, <1>3, <1>7, <1>8, <1>9, FitsAlone DEF Fits, Steps
<1>11. [T!Next]_(T!vars)
  BY <1>1, <1>6, SeenEdge
<1>12. QED
  BY <1>10, <1>11

\* Stopping the service and making the snapshot: the files stay as they are.
LEMMA ExactPrepare ==
    ASSUME Exact, Base', NEW p \in Procs, Prepare(p)
    PROVE  Exact' /\ [T!Next]_(T!vars)
<1> DEFINE Preparing == {"stop", "snapshot", "archive", "restart"}
<1>1. pc \in [Procs -> Steps] /\ tx \in [Procs -> TxType]
  BY DEF Exact, Base, TypeOK
<1>2. /\ pc[p] \in Preparing
      /\ UNCHANGED <<lock, req, disk, manifest, sound>>
  BY DEF Prepare, StopOld, StopOldFails, OpenSnapshot, OpenSnapshotFails, FillSnapshot,
     FillSnapshotFails, RestartOld, MayFail, host
<1>3. pc[p] \in Before /\ pc[p] \notin Undecidable /\ pc[p] \notin Outside /\ lock = p
  BY <1>2 DEF Before, Underway, Steps, Undecidable, Outside, Exact, Base, MutualExclusion
<1>4. CASE FillSnapshot(p)
  <2> DEFINE s == AfterSnapshot(p)
             image == [i \in Covered(p) |-> disk[i]]
  <2>1. pc[p] = "archive" /\ pc' = [pc EXCEPT ![p] = s]
        /\ backups' = Filled(backups, image) /\ UNCHANGED tx
    BY <1>4 DEF FillSnapshot, Goto
  <2>2. Covered(p) \in SUBSET Items /\ Complete(image) \in SnapshotType
    <3>1. Covered(p) \in SUBSET Items
      BY <2>1, RequestFacts DEF Exact
    <3>2. image \in [Covered(p) -> Contents]
      BY <3>1 DEF Exact, Base, TypeOK
    <3>3. QED
      BY <3>1, <3>2, SnapshotTypes
  <2>3. Len(backups) >= 1 /\ backups \in Seq(SnapshotType)
    BY <2>1 DEF Exact, Base, Local, TypeOK
  <2>4. Own' = Complete(image)
    <3> HIDE DEF image
    <3>1. Len(backups') = Len(backups) /\ backups'[Len(backups)] = Complete(image)
      BY <2>1, <2>2, <2>3, FilledFacts
    <3>2. QED
      BY <3>1 DEF Own
  <2>5. Covered(p)' = Covered(p)
    BY <1>2, <2>1 DEF Covered, OldService, NewService
  <2>6. \A i \in Covered(p) : Own'.image[i] = disk[i]
    BY <2>4 DEF Complete
  <2>7. pc'[p] = s /\ s \in {"hook", "copy", "disable", "undefine", "rmbinary"}
    BY <1>1, <2>1 DEF AfterSnapshot
  <2>8. \A i \in {"binary", "unit"} : Effective(i) = disk[i] /\ Effective(i)' = disk[i]
    <3>1. \A i \in {"binary", "unit"} : Effective(i) = disk[i]
      BY <1>3, EffectiveOf DEF Exact, Items
    <3>2. \A i \in {"binary", "unit"} : Effective(i)' \in {Own'.image[i], disk[i]}
                                        /\ (i \notin Covered(p) => Effective(i)' = disk[i])
      BY <1>2, <1>3, <2>5 DEF Effective, Pending
    <3>3. QED
      BY <2>6, <3>1, <3>2
  <2>9. Admitted(p)
    BY DEF Exact, Fits
  <2>10. Routed(p)' /\ Reached(p)'
    <3>1. UNCHANGED <<req[p], tx[p]>>
      BY <1>2, <2>1
    <3>2. CASE req[p].op # "remove"
      BY <2>7, <3>1, <3>2 DEF AfterSnapshot, Routed, Reached, Verified, Restoring, Undoing
    <3>3. CASE req[p].op = "remove"
      BY <1>3, <2>7, <2>9, <3>1, <3>3
      DEF AfterSnapshot, Routed, Reached, Admitted, OldService, NewService,
         Restoring, Undoing
    <3>4. QED
      BY <3>2, <3>3
  <2>11. Intact(p)'
    BY <1>2, <2>1, <2>5, <2>6, <2>7 DEF Intact, Files, Undoing, Restoring
  <2> HIDE DEF s
  <2>12. s \in Before
    BY <2>7 DEF Before, Underway, Steps
  <2>13. Exact'
    BY <1>2, <1>3, <2>1, <2>8, <2>10, <2>11, <2>12, GoesOn
  <2>14. [T!Next]_(T!vars)
    BY <1>2, <2>8, SeenEdge
  <2>15. QED
    BY <2>13, <2>14
<1>5. CASE ~FillSnapshot(p)
  <2>1. \/ \E s \in {"snapshot", "archive", "restart"} :
               pc' = [pc EXCEPT ![p] = s] /\ UNCHANGED tx
        \/ \E o \in Outcomes : Finish(p, o)
    BY <1>5 DEF Prepare, StopOld, StopOldFails, OpenSnapshot, OpenSnapshotFails,
       FillSnapshotFails, AfterFailedSnapshot, RestartOld, Goto, Outcomes
  <2>2. \E s \in {"snapshot", "archive", "restart", "unlock"} : pc' = [pc EXCEPT ![p] = s]
    BY <2>1 DEF Finish, Goto
  <2>3. /\ pc'[p] \in {"snapshot", "archive", "restart", "unlock"}
        /\ \A q \in Procs \ {p} : pc'[q] = pc[q] /\ req'[q] = req[q] /\ tx'[q] = tx[q]
    BY <1>1, <1>2, <2>1 DEF Finish, Goto
  <2>4. pc'[p] \notin Undecidable
    BY <2>3 DEF Undecidable
  <2>5. \A i \in {"binary", "unit"} : Effective(i)' = Effective(i)
    BY <1>2, <1>3, <2>3, <2>4, ViewKept DEF Exact
  <2>6. ASSUME pc' = [pc EXCEPT ![p] = "unlock"] PROVE Exact'
    BY <1>3, <2>6, Rests
  <2>7. ASSUME \E s \in {"snapshot", "archive", "restart"} :
                  pc' = [pc EXCEPT ![p] = s] /\ UNCHANGED tx
        PROVE  Exact'
    <3>1. PICK s \in {"snapshot", "archive", "restart"} : pc' = [pc EXCEPT ![p] = s]
      BY <2>7
    <3>2. s \in Before /\ pc'[p] = s
      BY <1>1, <3>1 DEF Before, Underway, Steps
    <3>3. Routed(p)' /\ Reached(p)' /\ Intact(p)'
      BY <3>2 DEF Routed, Reached, Intact, Verified, Undecidable, Undoing,
         Restoring
    <3>4. UNCHANGED tx
      BY <2>7
    <3>5. QED
      BY <1>2, <1>3, <2>5, <3>1, <3>2, <3>3, <3>4, GoesOn
  <2>8. Exact'
    BY <2>1, <2>6, <2>7 DEF Finish, Goto
  <2>9. [T!Next]_(T!vars)
    BY <1>2, <2>5, SeenEdge
  <2>10. QED
    BY <2>8, <2>9
<1>6. QED
  BY <1>4, <1>5

\* Every step but the commit leaves the view, if it changes only what is covered.
LEMMA ExactOnward ==
    ASSUME Exact, Base', NEW p \in Procs, pc[p] \in Undecidable,
           NEW s \in Undecidable, pc' = [pc EXCEPT ![p] = s],
           UNCHANGED <<lock, req, manifest, backups>>,
           tx'[p].src = tx[p].src, tx'[p].was = tx[p].was, tx'[p].old = tx[p].old,
           \A i \in {"binary", "unit"} \ Covered(p) : disk'[i] = disk[i],
           sound' = sound \/ sound' = FALSE,
           Routed(p)', Reached(p)', Intact(p)'
    PROVE  Exact' /\ [T!Next]_(T!vars)
<1>1. pc[p] \in Before /\ s \in Before
  BY UndecidableSteps
<1>2. \A i \in {"binary", "unit"} : Effective(i)' = Effective(i)
  BY SameView DEF Exact
<1>3. Exact'
  BY <1>1, <1>2, GoesOn
<1>4. [T!Next]_(T!vars)
  BY <1>2, SeenEdge, SeenDoubt
<1>5. QED
  BY <1>3, <1>4

\* The end of an operation that has left, or brought back, what was saved.
LEMMA ExactOver ==
    ASSUME Exact, Base', NEW p \in Procs, pc[p] \in Undecidable,
           pc' = [pc EXCEPT ![p] = "unlock"],
           UNCHANGED <<lock, req, manifest, backups>>,
           \A i \in {"binary", "unit"} \ Covered(p) : disk'[i] = disk[i],
           \/ sound' = FALSE
           \/ sound' = sound /\ \A i \in Files(p) : disk'[i] = Own.image[i]
    PROVE  Exact' /\ [T!Next]_(T!vars)
<1>1. pc[p] \notin Outside /\ pc'[p] = "unlock" /\ lock = p
  BY UndecidableSteps DEF Exact, Base, TypeOK, MutualExclusion, Outside
<1>2. Exact'
  BY <1>1, Rests
<1>3. CASE sound' = FALSE
  BY <1>2, <1>3, SeenDoubt
<1>4. CASE sound' = sound /\ \A i \in Files(p) : disk'[i] = Own.image[i]
  <2>1. \A i \in {"binary", "unit"} : Effective(i)' = disk'[i]
    BY <1>1 DEF Effective, Pending, Undecidable
  <2>2. \A i \in {"binary", "unit"} :
            Effective(i) = IF i \in Covered(p) THEN Own.image[i] ELSE disk[i]
    BY <1>1, EffectiveOf DEF Exact, Items
  <2>3. \A i \in {"binary", "unit"} : i \in Covered(p) => i \in Files(p)
    BY DEF Files
  <2>4. \A i \in {"binary", "unit"} : Effective(i)' = Effective(i)
    BY <1>4, <2>1, <2>2, <2>3
  <2>5. QED
    BY <1>2, <1>4, <2>4, SeenEdge
<1>5. QED
  BY <1>3, <1>4

\* An error: nothing was changed yet, or the rollback begins.
LEMMA ExactFail ==
    ASSUME Exact, Base', NEW p \in Procs, pc[p] \in Undecidable,
           UNCHANGED <<lock, req, manifest, backups, sound>>,
           \A i \in {"binary", "unit"} \ Covered(p) : disk'[i] = disk[i],
           \/ RollBack(p)
           \/ Fail(p) /\ (tx[p].mutated \/ \A i \in {"binary", "unit"} : disk'[i] = disk[i])
    PROVE  Exact' /\ [T!Next]_(T!vars)
<1>1. pc \in [Procs -> Steps] /\ tx \in [Procs -> TxType]
  BY DEF Exact, Base, TypeOK
<1>2. CASE RollBack(p)
  <2>1. PICK s \in {"rbstop", "wipe"} : pc' = [pc EXCEPT ![p] = s]
    BY <1>2 DEF RollBack, Goto
  <2>2. tx' = [tx EXCEPT ![p].mutated = TRUE, ![p].left = Covered(p)]
    BY <1>2 DEF RollBack
  <2>3. /\ tx'[p].src = tx[p].src /\ tx'[p].was = tx[p].was /\ tx'[p].old = tx[p].old
        /\ tx'[p].mutated /\ tx'[p].left = Covered(p)
    BY <1>1, <2>2 DEF TxType
  <2>4. pc'[p] = s /\ s \in Undecidable
    BY <1>1, <2>1 DEF Undecidable
  <2>5. Covered(p)' = Covered(p)
    BY <2>3 DEF Covered, OldService, NewService
  <2>6. Routed(p)' /\ Reached(p)' /\ Intact(p)'
    BY <2>1, <2>3, <2>4, <2>5 DEF Routed, Reached, Intact, Files, Verified,
       Restoring, Undoing
  <2>7. QED
    BY <2>1, <2>3, <2>4, <2>6, ExactOnward
<1>3. CASE Finish(p, "failed") /\ ~tx[p].mutated
           /\ \A i \in {"binary", "unit"} : disk'[i] = disk[i]
  <2>1. pc' = [pc EXCEPT ![p] = "unlock"]
    BY <1>3 DEF Finish, Goto
  <2>2. \A i \in Files(p) : disk[i] = Own.image[i]
    BY <1>3 DEF Exact, Fits, Intact, Restoring, Undoing
  <2>3. Files(p) \subseteq {"binary", "unit"}
    BY DEF Files, Covered
  <2>4. QED
    BY <1>3, <2>1, <2>2, <2>3, ExactOver
<1>4. QED
  BY <1>2, <1>3 DEF Fail

\* Marking a transaction as mutated changes nothing else of it.
LEMMA Marked ==
    ASSUME TypeOK, NEW p \in Procs, tx' = [tx EXCEPT ![p].mutated = TRUE]
    PROVE  /\ tx'[p].src = tx[p].src /\ tx'[p].was = tx[p].was /\ tx'[p].old = tx[p].old
           /\ tx'[p].mutated
           /\ Covered(p)' = Covered(p) \/ req'[p] # req[p]
<1>1. tx \in [Procs -> TxType]
  BY DEF TypeOK
<1>2. QED
  BY <1>1 DEF TxType, Covered, OldService, NewService

\* The steps of install and repair up to the decision about the hashes.
LEMMA ExactCopy ==
    ASSUME Exact, Base', NEW p \in Procs, Hook(p) \/ HookFails(p) \/ Copy(p) \/ Verify(p)
    PROVE  Exact' /\ [T!Next]_(T!vars)
<1>1. TypeOK /\ disk \in [Items -> Contents] /\ pc \in [Procs -> Steps]
  BY DEF Exact, Base, TypeOK
<1>2. pc[p] \in {"hook", "copy", "verify"} /\ pc[p] \in Undecidable /\ req[p].op # "remove"
      /\ UNCHANGED <<lock, req, manifest, service, backups, sound>>
  BY DEF Hook, HookFails, Copy, Verify, MayFail, Undecidable, host, Exact, Base, Local, Forward
<1>3. "binary" \in Covered(p)
  BY DEF Covered
<1>4. CASE Hook(p)
  <2>1. /\ pc' = [pc EXCEPT ![p] = "copy"] /\ tx' = [tx EXCEPT ![p].mutated = TRUE]
        /\ disk' \in {disk, [disk EXCEPT !["data"] = req[p].build]}
    BY <1>4 DEF Hook, Goto
  <2>2. disk'["binary"] = disk["binary"] /\ disk'["unit"] = disk["unit"]
    BY <1>1, <2>1 DEF Items
  <2>3. pc'[p] = "copy" /\ "copy" \in Undecidable
    BY <1>1, <2>1 DEF Undecidable
  <2>4. Routed(p)' /\ Reached(p)' /\ Intact(p)'
    BY <1>1, <2>1, <2>3, Marked DEF Routed, Reached, Intact, Verified, Undoing,
       Restoring
  <2>5. QED
    BY <1>1, <1>2, <2>1, <2>2, <2>3, <2>4, Marked, ExactOnward
<1>5. CASE HookFails(p)
  <2>1. RollBack(p) /\ disk' \in {disk, [disk EXCEPT !["data"] = req[p].build]}
    BY <1>5 DEF HookFails
  <2>2. disk'["binary"] = disk["binary"] /\ disk'["unit"] = disk["unit"]
    BY <1>1, <2>1 DEF Items
  <2>3. QED
    BY <1>2, <2>1, <2>2, ExactFail
<1>6. CASE Copy(p)
  <2>1. /\ pc' = [pc EXCEPT ![p] = "verify"] /\ tx' = [tx EXCEPT ![p].mutated = TRUE]
        /\ disk'["unit"] = disk["unit"]
    BY <1>1, <1>6 DEF Copy, Goto, Items
  <2>2. pc'[p] = "verify" /\ "verify" \in Undecidable
    BY <1>1, <2>1 DEF Undecidable
  <2>3. Routed(p)' /\ Reached(p)' /\ Intact(p)'
    BY <1>1, <2>1, <2>2, Marked DEF Routed, Reached, Intact, Verified, Undoing,
       Restoring
  <2>4. QED
    BY <1>1, <1>2, <1>3, <2>1, <2>2, <2>3, Marked, ExactOnward
<1>7. CASE Verify(p) /\ HashesAgree(p)
  <2>1. pc[p] = "verify" /\ pc' = [pc EXCEPT ![p] = AfterVerify(p)] /\ UNCHANGED <<tx, disk>>
        /\ disk["binary"] = tx[p].src
    BY <1>7 DEF Verify, Goto, HashesAgree, host
  <2>2. pc'[p] = AfterVerify(p) /\ tx[p].mutated
    BY <1>1, <1>2, <2>1 DEF Exact, Fits, Routed, Restoring, Undoing
  <2>3. AfterVerify(p) \in Undecidable
    BY DEF AfterVerify, WithNewService, Undecidable
  <2>4. UNCHANGED <<OldService(p), NewService(p)>>
    BY <1>2, <2>1 DEF OldService, NewService
  <2>5. Routed(p)'
    BY <1>2, <2>1, <2>2, <2>4 DEF AfterVerify, WithNewService, Routed, Restoring, Undoing
  <2>6. Reached(p)'
    BY <2>1, <2>2, <2>4 DEF AfterVerify, WithNewService, Reached
  <2>7. Intact(p)'
    BY <2>1, <2>2 DEF AfterVerify, WithNewService, Intact, Undoing, Restoring
  <2>8. QED
    BY <1>2, <2>1, <2>3, <2>5, <2>6, <2>7, ExactOnward
<1>8. CASE Verify(p) /\ ~HashesAgree(p)
  BY <1>2, <1>8, ExactFail DEF Verify, host
<1>9. QED
  BY <1>4, <1>5, <1>6, <1>7, <1>8

\* The steps of install and repair that deal with the new service.
LEMMA ExactServe ==
    ASSUME Exact, Base', NEW p \in Procs,
           \/ Define(p) \/ DefineFails(p) \/ Load(p) \/ SetAutostart(p) \/ Start(p)
           \/ StartFails(p) \/ Healthy(p)
    PROVE  Exact' /\ [T!Next]_(T!vars)
<1>1. TypeOK /\ disk \in [Items -> Contents] /\ pc \in [Procs -> Steps]
  BY DEF Exact, Base, TypeOK
<1>2. /\ pc[p] \in {"define", "load", "autostart", "start", "health"}
      /\ pc[p] \in Undecidable /\ req[p].op # "remove"
      /\ UNCHANGED <<lock, req, manifest, backups, sound>>
  BY DEF Define, DefineFails, Load, SetAutostart, Start, StartFails, Healthy, MayFail,
     Undecidable, host, Exact, Base, Local, Forward
<1>3. tx[p].mutated /\ disk["binary"] = tx[p].src /\ Routed(p) /\ Reached(p)
  BY <1>2 DEF Exact, Fits, Routed, Reached, Verified, Restoring, Undoing
<1>4. CASE DefineFails(p) \/ StartFails(p)
  <2>1. /\ Fail(p)
        /\ \/ UNCHANGED disk
           \/ pc[p] = "define" /\ disk' = [disk EXCEPT !["unit"] = req[p].build]
    BY <1>4 DEF DefineFails, StartFails, MayFail, host
  <2>2. pc[p] = "define" => "unit" \in Covered(p)
    BY <1>3 DEF Routed, Covered, Restoring, Undoing
  <2>3. \A i \in {"binary", "unit"} \ Covered(p) : disk'[i] = disk[i]
    BY <1>1, <2>1, <2>2 DEF Items
  <2>4. QED
    BY <1>2, <1>3, <2>1, <2>3, ExactFail
<1>5. CASE Define(p) \/ Load(p) \/ SetAutostart(p) \/ Start(p) \/ Healthy(p)
  <2>1. PICK s \in {"load", "autostart", "start", "health", "commit"} :
            /\ pc' = [pc EXCEPT ![p] = s]
            /\ s \in {"load", "autostart", "start"} => pc[p] \in {"define", "load", "autostart"}
    BY <1>5 DEF Define, Load, SetAutostart, Start, Healthy, Goto
  <2>2. /\ UNCHANGED tx /\ disk'["binary"] = disk["binary"]
        /\ IF pc[p] = "define" THEN disk'["unit"] = req[p].build /\ s = "load"
                               ELSE disk'["unit"] = disk["unit"]
    BY <1>1, <1>5, <2>1 DEF Define, Load, SetAutostart, Start, Healthy, Goto, host, Items
  <2>3. pc'[p] = s /\ s \in Undecidable
    BY <1>1, <2>1 DEF Undecidable
  <2>4. UNCHANGED <<OldService(p), NewService(p)>>
    BY <1>2, <2>2 DEF OldService, NewService
  <2>5. Routed(p)'
    BY <1>2, <1>3, <2>1, <2>2, <2>3, <2>4 DEF Routed, Restoring, Undoing
  <2>6. Reached(p)'
    BY <1>2, <1>3, <2>1, <2>2, <2>3, <2>4 DEF Reached, Routed, Restoring, Undoing
  <2>7. Intact(p)'
    BY <1>3, <2>1, <2>2, <2>3 DEF Intact, Undoing, Restoring
  <2>8. \A i \in {"binary", "unit"} \ Covered(p) : disk'[i] = disk[i]
    BY <1>3, <2>2 DEF Routed, Covered, Restoring, Undoing
  <2>9. QED
    BY <1>2, <2>1, <2>2, <2>3, <2>5, <2>6, <2>7, <2>8, ExactOnward
<1>6. QED
  BY <1>4, <1>5

\* The steps that take a service or the application away.
LEMMA ExactRemove ==
    ASSUME Exact, Base', NEW p \in Procs,
           \/ Disable(p) \/ Undefine(p) \/ UndefineFails(p) \/ Unload(p)
           \/ RemoveBinary(p) \/ CallFails(p)
    PROVE  Exact' /\ [T!Next]_(T!vars)
<1>1. TypeOK /\ disk \in [Items -> Contents] /\ pc \in [Procs -> Steps]
  BY DEF Exact, Base, TypeOK
<1>2. /\ pc[p] \in Undecidable
      /\ UNCHANGED <<lock, req, manifest, backups, sound>>
  BY DEF Disable, Undefine, UndefineFails, Unload, RemoveBinary, CallFails, PlainCalls,
     MayFail, Undecidable, host
<1>3. Routed(p) /\ Reached(p) /\ Intact(p)
  BY DEF Exact, Fits
<1>4. CASE UndefineFails(p) \/ CallFails(p)
  BY <1>2, <1>4, ExactFail DEF UndefineFails, CallFails, host
<1>5. CASE Disable(p) \/ Unload(p)
  <2>1. /\ pc[p] \in {"disable", "unload"}
        /\ pc' = [pc EXCEPT ![p] = IF pc[p] = "disable" THEN "undefine"
                                   ELSE IF req[p].op = "remove" THEN "rmbinary"
                                   ELSE WithNewService(p)]
        /\ UNCHANGED <<tx, disk>>
    BY <1>5 DEF Disable, Unload, Goto, host
  <2> DEFINE s == IF pc[p] = "disable" THEN "undefine"
                  ELSE IF req[p].op = "remove" THEN "rmbinary" ELSE "health"
  <2>2. OldService(p) /\ ~NewService(p)
    BY <1>3, <2>1 DEF Routed, Restoring, Undoing
  <2>3. pc' = [pc EXCEPT ![p] = s] /\ pc'[p] = s
    BY <1>1, <2>1, <2>2 DEF WithNewService
  <2>4. UNCHANGED <<OldService(p), NewService(p), Covered(p), Own>>
    BY <1>2, <2>1 DEF OldService, NewService, Covered, Own
  <2>5. Routed(p)' /\ Reached(p)'
    BY <1>2, <1>3, <2>1, <2>2, <2>3, <2>4 DEF Routed, Reached, Verified, Restoring, Undoing
  <2>6. Intact(p)'
    BY <1>2, <1>3, <2>1, <2>3, <2>4 DEF Intact, Files, Undoing, Restoring
  <2>7. s \in Undecidable
    BY DEF Undecidable
  <2> HIDE DEF s
  <2>8. QED
    BY <1>2, <2>1, <2>3, <2>5, <2>6, <2>7, ExactOnward
<1>6. CASE Undefine(p)
  <2>1. /\ pc[p] = "undefine" /\ pc' = [pc EXCEPT ![p] = "unload"]
        /\ tx' = [tx EXCEPT ![p].mutated = TRUE] /\ disk' = [disk EXCEPT !["unit"] = None]
    BY <1>6 DEF Undefine, Goto
  <2>2. OldService(p) /\ ~NewService(p) /\ "unit" \in Covered(p)
    BY <1>3, <2>1 DEF Routed, Covered, Restoring, Undoing
  <2>3. disk'["binary"] = disk["binary"] /\ disk'["unit"] = None
    BY <1>1, <2>1 DEF Items
  <2>4. pc'[p] = "unload" /\ "unload" \in Undecidable
    BY <1>1, <2>1 DEF Undecidable
  <2>5. /\ tx'[p].src = tx[p].src /\ tx'[p].was = tx[p].was /\ tx'[p].old = tx[p].old
        /\ tx'[p].mutated
    BY <1>1, <2>1, Marked
  <2>6. UNCHANGED <<OldService(p), NewService(p)>>
    BY <1>2, <2>5 DEF OldService, NewService
  <2>7. Routed(p)' /\ Reached(p)' /\ Intact(p)'
    BY <1>2, <1>3, <2>1, <2>2, <2>3, <2>4, <2>5, <2>6
    DEF Routed, Reached, Intact, Verified, Undoing, Restoring
  <2>8. QED
    BY <1>2, <2>1, <2>2, <2>3, <2>4, <2>5, <2>7, ExactOnward
<1>7. CASE RemoveBinary(p)
  <2>1. /\ pc[p] = "rmbinary" /\ pc' = [pc EXCEPT ![p] = "rmmanifest"]
        /\ tx' = [tx EXCEPT ![p].mutated = TRUE] /\ disk' = [disk EXCEPT !["binary"] = None]
    BY <1>7 DEF RemoveBinary, Goto
  <2>2. disk'["binary"] = None /\ disk'["unit"] = disk["unit"] /\ "binary" \in Covered(p)
    BY <1>1, <2>1 DEF Items, Covered
  <2>3. pc'[p] = "rmmanifest" /\ "rmmanifest" \in Undecidable
    BY <1>1, <2>1 DEF Undecidable
  <2>4. /\ tx'[p].src = tx[p].src /\ tx'[p].was = tx[p].was /\ tx'[p].old = tx[p].old
        /\ tx'[p].mutated
    BY <1>1, <2>1, Marked
  <2>5. UNCHANGED <<OldService(p), NewService(p)>>
    BY <1>2, <2>4 DEF OldService, NewService
  <2>6. Routed(p)' /\ Reached(p)' /\ Intact(p)'
    BY <1>2, <1>3, <2>1, <2>2, <2>3, <2>4, <2>5
    DEF Routed, Reached, Intact, Verified, Undoing, Restoring
  <2>7. QED
    BY <1>2, <2>1, <2>2, <2>3, <2>4, <2>6, ExactOnward
<1>8. QED
  BY <1>4, <1>5, <1>6, <1>7

(***************************************************************************)
(* The write of the manifest is the whole install, upgrade or repair: the  *)
(* binary and the definition are there, and nothing was taken over.        *)
(***************************************************************************)
LEMMA ExactCommit ==
    ASSUME Exact, Base', NEW p \in Procs, Commit(p)
    PROVE  Exact' /\ [T!Next]_(T!vars)
<1>1. /\ pc[p] = "commit" /\ pc' = [pc EXCEPT ![p] = "retain"]
      /\ manifest' = NewManifest(p) /\ sound' = TRUE
      /\ UNCHANGED <<lock, req, tx, disk, service, backups>>
  BY DEF Commit, Goto
<1>2. pc'[p] = "retain" /\ pc[p] \notin Outside /\ pc[p] \in Undecidable /\ pc[p] \in Before
  BY <1>1, UndecidableSteps DEF Exact, Base, TypeOK, Undecidable
<1>3. lock = p /\ lock # None
  BY <1>2, ConstantFacts DEF Exact, Base, MutualExclusion, Outside
<1>4. /\ req[p].op # "remove" /\ req[p] \in RequestType
      /\ tx[p].src \in Contents \ {None} /\ disk["binary"] = tx[p].src
  <2>1. req[p].op # "remove" /\ tx[p].src # None
    BY <1>1 DEF Exact, Base, Local, Forward, Underway, Steps
  <2>2. req[p] \in RequestType /\ tx[p].src \in Contents
    BY <1>1, RequestFacts DEF Exact, Base, TypeOK, TxType
  <2>3. QED
    BY <1>1, <2>1, <2>2 DEF Exact, Fits, Reached, Verified
<1>5. \A i \in {"binary", "unit"} : Effective(i)' = disk[i]
  BY <1>1, <1>2, <1>3 DEF Effective, Pending, Undecidable
<1>6. Admitted(p) /\ Vacated(p) /\ Reached(p)
  BY DEF Exact, Fits
<1>7. OldService(p) = manifest.service /\ NewService(p) = req[p].service
      /\ req[p].service \in BOOLEAN /\ req[p].build \in Builds
  BY <1>2, <1>4, <1>6 DEF OldService, NewService, Admitted, RequestType
<1>8. manifest = T!Nothing =>
          /\ Effective("binary") \in {None, tx[p].src}
          /\ req[p].service => Effective("unit") = None
  BY <1>2, <1>4, <1>6, <1>7 DEF Vacated, Admitted, HadInstall, NotInstalled, T!Nothing
<1>9. disk["unit"] = IF req[p].service THEN req[p].build ELSE T!UnitWithoutService
  <2>1. CASE req[p].service
    BY <1>1, <1>6, <1>7, <2>1 DEF Reached
  <2>2. CASE ~req[p].service /\ manifest.service
    BY <1>1, <1>6, <1>7, <2>2 DEF Reached, T!UnitWithoutService
  <2>3. CASE ~req[p].service /\ ~manifest.service
    <3>1. "unit" \notin Covered(p)
      BY <1>4, <1>7, <2>3 DEF Covered
    <3>2. Effective("unit") = disk["unit"]
      BY <1>2, <3>1, EffectiveOf DEF Exact, Items
    <3>3. QED
      BY <2>3, <3>2 DEF T!UnitWithoutService
  <2>4. QED
    BY <1>7, <2>1, <2>2, <2>3
<1>10. manifest' = [build |-> req[p].build, hash |-> disk["binary"], service |-> req[p].service]
  BY <1>1, <1>4, <1>7 DEF NewManifest
<1>11. T!Install
  BY <1>1, <1>3, <1>4, <1>5, <1>7, <1>8, <1>9, <1>10 DEF T!Install, T!Vacant
<1>12. Exact'
  BY <1>1, <1>2, Rests
<1>13. QED
  BY <1>11, <1>12 DEF T!Next

\* The removal of the manifest is the whole remove.
LEMMA ExactRemoved ==
    ASSUME Exact, Base', NEW p \in Procs, RemoveManifest(p)
    PROVE  Exact' /\ [T!Next]_(T!vars)
<1>1. /\ pc[p] = "rmmanifest" /\ pc' = [pc EXCEPT ![p] = "retain"]
      /\ manifest' = NotInstalled /\ sound' = TRUE
      /\ UNCHANGED <<lock, req, tx, disk, service, backups>>
  BY DEF RemoveManifest, Goto
<1>2. pc'[p] = "retain" /\ pc[p] \notin Outside /\ pc[p] \in Undecidable /\ pc[p] \in Before
  BY <1>1, UndecidableSteps DEF Exact, Base, TypeOK, Undecidable
<1>3. lock = p /\ lock # None
  BY <1>2, ConstantFacts DEF Exact, Base, MutualExclusion, Outside
<1>4. \A i \in {"binary", "unit"} : Effective(i)' = disk[i]
  BY <1>1, <1>2, <1>3 DEF Effective, Pending, Undecidable
<1>5. Admitted(p) /\ Routed(p) /\ Reached(p)
  BY DEF Exact, Fits
<1>6. req[p].op = "remove" /\ ~NewService(p) /\ OldService(p) = manifest.service
      /\ manifest # NotInstalled /\ disk["binary"] = None
  BY <1>1, <1>2, <1>5 DEF Routed, Admitted, Reached, NewService, OldService, HadInstall,
     Restoring, Undoing
<1>7. disk["unit"] = T!UnitWithoutService
  <2>1. CASE manifest.service
    BY <1>1, <1>5, <1>6, <2>1 DEF Reached, T!UnitWithoutService
  <2>2. CASE ~manifest.service
    <3>1. Effective("unit") = disk["unit"]
      BY <1>2, <1>6, <2>2, EffectiveOf DEF Exact, Items, Covered
    <3>2. QED
      BY <2>2, <3>1 DEF T!UnitWithoutService
  <2>3. QED
    BY <2>1, <2>2
<1>8. T!Remove
  BY <1>1, <1>3, <1>4, <1>6, <1>7 DEF T!Remove, T!Nothing, NotInstalled
<1>9. Exact'
  BY <1>1, <1>2, Rests
<1>10. QED
  BY <1>8, <1>9 DEF T!Next

\* Retention is not seen.
LEMMA ExactRetain ==
    ASSUME Exact, Base', NEW p \in Procs, Retain(p) \/ RetainFails(p)
    PROVE  Exact' /\ [T!Next]_(T!vars)
<1>1. /\ pc[p] = "retain" /\ pc' = [pc EXCEPT ![p] = "unlock"]
      /\ \E o \in {"done", "untidy"} : tx' = [tx EXCEPT ![p].outcome = o]
      /\ UNCHANGED <<lock, req, disk, manifest, service, sound>>
  BY DEF Retain, RetainFails, MayFail, Finish, Goto
<1>2. /\ pc[p] \notin Undecidable /\ pc'[p] \notin Undecidable /\ pc[p] \notin Outside
      /\ \A q \in Procs \ {p} : pc'[q] = pc[q] /\ req'[q] = req[q] /\ tx'[q] = tx[q]
  BY <1>1 DEF Exact, Base, TypeOK, Undecidable, Outside
<1>3. lock = p
  BY <1>2 DEF Exact, Base, MutualExclusion, Outside
<1>4. \A i \in {"binary", "unit"} : Effective(i)' = Effective(i)
  BY <1>1, <1>2, <1>3, ViewKept DEF Exact
<1>5. QED
  BY <1>1, <1>2, <1>4, Rests, SeenEdge

\* The first steps of a rollback only see to the new service.
LEMMA ExactUndoService ==
    ASSUME Exact, Base', NEW p \in Procs, RbStop(p) \/ RbInspectFails(p) \/ RbDisable(p)
    PROVE  Exact' /\ [T!Next]_(T!vars)
<1>1. /\ pc[p] \in {"rbstop", "rbdisable"} /\ pc[p] \in Undecidable /\ pc[p] \in Undoing
      /\ UNCHANGED <<lock, req, disk, manifest, backups, sound>>
  BY DEF RbStop, RbInspectFails, RbDisable, RollbackMayFail, Undecidable, Undoing, host
<1>2. PICK s \in {"rbdisable", "wipe"} : pc' = [pc EXCEPT ![p] = s]
  BY DEF RbStop, RbInspectFails, RbDisable, Goto
<1>3. pc'[p] = s /\ s \in Undecidable /\ tx \in [Procs -> TxType]
  BY <1>2 DEF Exact, Base, TypeOK, Undecidable
<1>4. \/ UNCHANGED tx
      \/ \E ok \in BOOLEAN : tx' = [tx EXCEPT ![p].clean = tx[p].clean /\ ok]
      \/ tx' = [tx EXCEPT ![p].clean = FALSE]
  BY DEF RbStop, RbInspectFails, RbDisable
<1>5. /\ tx'[p].src = tx[p].src /\ tx'[p].was = tx[p].was /\ tx'[p].old = tx[p].old
      /\ tx'[p].mutated = tx[p].mutated /\ tx'[p].left = tx[p].left
      /\ tx'[p].clean => tx[p].clean
  BY <1>3, <1>4 DEF TxType
<1>6. Routed(p) /\ Intact(p)
  BY DEF Exact, Fits
<1>7. UNCHANGED <<Covered(p), Own>>
  BY <1>1, <1>5 DEF Covered, OldService, NewService, Own
<1>8. Routed(p)' /\ Reached(p)'
  BY <1>1, <1>3, <1>5, <1>6 DEF Routed, Reached, Verified, Restoring, Undoing
<1>9. Intact(p)'
  BY <1>1, <1>3, <1>5, <1>6, <1>7 DEF Intact, Files, Routed, Restoring, Undoing
<1>10. QED
  BY <1>1, <1>2, <1>3, <1>5, <1>8, <1>9, ExactOnward

\* One item was restored (ok), or could not be; the others are as they were.
LEMMA ExactItemDone ==
    ASSUME Exact, Base', NEW p \in Procs, pc[p] \in {"wipe", "refill"},
           NEW item \in Covered(p), NEW ok \in BOOLEAN, ItemDone(p, item, ok),
           UNCHANGED <<lock, req, manifest, service, backups>>,
           \A i \in {"binary", "unit"} \ {item} : disk'[i] = disk[i],
           ok /\ item # "data" => disk'[item] = Own.image[item]
    PROVE  Exact' /\ [T!Next]_(T!vars)
<1> DEFINE left == tx[p].left \ {item}
           clean == tx[p].clean /\ ok
<1>1. pc[p] \in Undecidable /\ pc[p] \in Undoing /\ pc[p] \in Restoring
  BY DEF Undecidable, Undoing, Restoring
<1>2. tx[p].mutated /\ Intact(p)
  BY <1>1 DEF Exact, Fits, Routed
<1>3. clean => \A i \in Files(p) \ left : disk'[i] = Own.image[i]
  <2>1. Files(p) \subseteq {"binary", "unit"}
    BY DEF Files, Covered
  <2>2. tx[p].clean => \A i \in Files(p) \ tx[p].left : disk[i] = Own.image[i]
    BY <1>1, <1>2 DEF Intact
  <2>3. QED
    BY <2>1, <2>2
<1>4. tx \in [Procs -> TxType] /\ pc \in [Procs -> Steps]
  BY DEF Exact, Base, TypeOK
<1>5. UNCHANGED Own /\ \A i \in {"binary", "unit"} \ Covered(p) : disk'[i] = disk[i]
  BY DEF Own
<1>6. ItemDone(p, item, ok) <=>
        IF left # {}
        THEN /\ Goto(p, "wipe")
             /\ tx' = [tx EXCEPT ![p].left = left, ![p].clean = clean]
             /\ UNCHANGED sound
        ELSE IF OldService(p) \/ NewService(p)
        THEN /\ Goto(p, "reload")
             /\ tx' = [tx EXCEPT ![p].left = {}, ![p].clean = clean]
             /\ UNCHANGED sound
        ELSE Close(p, clean)
  BY DEF ItemDone, Remaining
<1> HIDE DEF left, clean
<1>7. ASSUME NEW s \in {"wipe", "reload"}, Goto(p, s), UNCHANGED sound,
             tx' = [tx EXCEPT ![p].left = left, ![p].clean = clean],
             s = "reload" => left = {}
      PROVE  Exact' /\ [T!Next]_(T!vars)
  <2>1. /\ tx'[p].src = tx[p].src /\ tx'[p].was = tx[p].was /\ tx'[p].old = tx[p].old
        /\ tx'[p].mutated /\ tx'[p].left = left /\ tx'[p].clean = clean
    BY <1>2, <1>4, <1>7 DEF TxType
  <2>2. pc' = [pc EXCEPT ![p] = s] /\ pc'[p] = s /\ s \in Undecidable
    BY <1>4, <1>7 DEF Goto, Undecidable
  <2>3. Files(p)' = Files(p)
    BY <2>1 DEF Files, Covered, OldService, NewService
  <2>4. Routed(p)' /\ Reached(p)'
    BY <2>1, <2>2 DEF Routed, Reached, Verified
  <2>5. Intact(p)'
    BY <1>3, <1>5, <1>7, <2>1, <2>2, <2>3 DEF Intact, Restoring, Undoing
  <2>6. QED
    BY <1>1, <1>5, <1>7, <2>1, <2>2, <2>4, <2>5, ExactOnward
<1>8. CASE left # {}
  BY <1>6, <1>7, <1>8
<1>9. CASE left = {} /\ (OldService(p) \/ NewService(p))
  BY <1>6, <1>7, <1>9
<1>10. CASE left = {} /\ ~(OldService(p) \/ NewService(p))
  <2>1. Close(p, clean)
    BY <1>6, <1>10
  <2>2. pc' = [pc EXCEPT ![p] = "unlock"] /\ sound' = (sound /\ clean)
    BY <2>1 DEF Close, Goto
  <2>3. sound' = FALSE \/ (sound' = sound /\ \A i \in Files(p) : disk'[i] = Own.image[i])
    BY <1>3, <1>10, <2>2 DEF Exact, Base, TypeOK
  <2>4. QED
    BY <1>1, <1>5, <2>2, <2>3, ExactOver
<1>11. QED
  BY <1>8, <1>9, <1>10

\* Restoring the items of the snapshot, one by one.
LEMMA ExactRestore ==
    ASSUME Exact, Base', NEW p \in Procs,
           Wipe(p) \/ WipeFails(p) \/ Refill(p) \/ RefillFails(p)
    PROVE  Exact' /\ [T!Next]_(T!vars)
<1> DEFINE item == LastOf(tx[p].left)
<1>1. /\ pc[p] \in {"wipe", "refill"} /\ pc[p] \in Undoing /\ pc[p] \in Restoring
      /\ pc[p] \in Undecidable
      /\ UNCHANGED <<lock, req, manifest, service, backups>>
  BY DEF Wipe, WipeFails, Refill, RefillFails, RollbackMayFail, Undoing, Restoring, Undecidable
<1>2. item \in tx[p].left /\ tx[p].left \subseteq Covered(p) /\ Covered(p) \in SUBSET Items
  <2>1. tx[p].left # {} /\ tx[p].left \subseteq Covered(p)
    BY <1>1 DEF Exact, Base, Local
  <2>2. Covered(p) \in SUBSET Items
    BY <1>1, RequestFacts DEF Exact
  <2>3. QED
    BY <2>1, <2>2, LastOfFacts
<1>3. item \in Covered(p) /\ item \in Items /\ disk \in [Items -> Contents]
      /\ pc \in [Procs -> Steps]
  BY <1>2 DEF Exact, Base, TypeOK
<1>4. CASE Wipe(p) /\ Own.image[item] # None
  <2>1. /\ pc' = [pc EXCEPT ![p] = "refill"] /\ disk' = [disk EXCEPT ![item] = None]
        /\ UNCHANGED <<tx, sound>>
    BY <1>4 DEF Wipe, Goto
  <2> HIDE DEF item
  <2>2. \A i \in {"binary", "unit"} \ {item} : disk'[i] = disk[i]
    BY <1>3, <2>1 DEF Items
  <2>3. pc'[p] = "refill" /\ "refill" \in Undecidable
    BY <1>3, <2>1 DEF Undecidable
  <2>4. UNCHANGED <<Files(p), Own>> /\ Files(p) \subseteq {"binary", "unit"}
    BY <1>1, <2>1 DEF Files, Covered, OldService, NewService, Own
  <2>5. Routed(p) /\ Intact(p)
    BY DEF Exact, Fits
  <2>6. Routed(p)' /\ Reached(p)'
    BY <1>1, <2>1, <2>3, <2>5 DEF Routed, Reached, Verified, Restoring, Undoing
  <2>7. Intact(p)'
    <3>1. tx'[p].mutated
      BY <1>1, <2>1, <2>5 DEF Routed
    <3>2. tx'[p].clean => \A i \in Files(p)' \ tx'[p].left : disk'[i] = Own'.image[i]
      BY <1>1, <1>2, <2>1, <2>2, <2>4, <2>5 DEF Intact
    <3>3. QED
      BY <2>3, <3>1, <3>2 DEF Intact, Restoring, Undoing
  <2>8. QED
    BY <1>1, <1>3, <2>1, <2>2, <2>3, <2>6, <2>7, ExactOnward
<1>5. CASE Wipe(p) /\ Own.image[item] = None
  <2>1. disk' = [disk EXCEPT ![item] = None] /\ ItemDone(p, item, TRUE)
    BY <1>5 DEF Wipe
  <2> HIDE DEF item
  <2>2. /\ disk'[item] = Own.image[item]
        /\ \A i \in {"binary", "unit"} \ {item} : disk'[i] = disk[i]
    BY <1>3, <1>5, <2>1 DEF Items
  <2>3. QED
    BY <1>1, <1>3, <2>1, <2>2, ExactItemDone
<1>6. CASE Refill(p)
  <2>1. disk' = [disk EXCEPT ![item] = Own.image[item]] /\ ItemDone(p, item, TRUE)
    BY <1>6 DEF Refill
  <2> HIDE DEF item
  <2>2. /\ disk'[item] = Own.image[item]
        /\ \A i \in {"binary", "unit"} \ {item} : disk'[i] = disk[i]
    BY <1>3, <2>1 DEF Items
  <2>3. QED
    BY <1>1, <1>3, <2>1, <2>2, ExactItemDone
<1>7. CASE WipeFails(p) \/ RefillFails(p)
  <2>1. ItemDone(p, item, FALSE) /\ \E c \in {Corrupt, None} : disk' \in {disk, [disk EXCEPT ![item] = c]}
    BY <1>7 DEF WipeFails, WipedPartWay, RefillFails
  <2> HIDE DEF item
  <2>2. \A i \in {"binary", "unit"} \ {item} : disk'[i] = disk[i]
    BY <1>3, <2>1 DEF Items
  <2>3. QED
    BY <1>1, <1>3, <2>1, <2>2, ExactItemDone
<1>8. QED
  BY <1>4, <1>5, <1>6, <1>7

\* The end of a rollback: the files are restored, the old service is put back.
LEMMA ExactResume ==
    ASSUME Exact, Base', NEW p \in Procs, RbReload(p) \/ RbEnable(p) \/ RbStart(p)
    PROVE  Exact' /\ [T!Next]_(T!vars)
<1>1. /\ pc[p] \in {"reload", "reenable", "resume"} /\ pc[p] \in Undecidable
      /\ pc[p] \in Restoring \ Undoing
      /\ UNCHANGED <<lock, req, disk, manifest, backups>>
  BY DEF RbReload, RbEnable, RbStart, Undecidable, Restoring, Undoing
<1>2. tx \in [Procs -> TxType] /\ pc \in [Procs -> Steps] /\ sound \in BOOLEAN
  BY DEF Exact, Base, TypeOK
<1>3. tx[p].mutated /\ (tx[p].clean => \A i \in Files(p) : disk[i] = Own.image[i])
  BY <1>1 DEF Exact, Fits, Routed, Intact
<1>4. ASSUME NEW s \in {"reenable", "resume"}, NEW ok \in BOOLEAN, Goto(p, s),
             tx' = [tx EXCEPT ![p].clean = tx[p].clean /\ ok], UNCHANGED sound
      PROVE  Exact' /\ [T!Next]_(T!vars)
  <2>1. /\ tx'[p].src = tx[p].src /\ tx'[p].was = tx[p].was /\ tx'[p].old = tx[p].old
        /\ tx'[p].mutated /\ (tx'[p].clean => tx[p].clean)
    BY <1>2, <1>3, <1>4 DEF TxType
  <2>2. pc' = [pc EXCEPT ![p] = s] /\ pc'[p] = s /\ s \in Undecidable
    BY <1>2, <1>4 DEF Goto, Undecidable
  <2>3. UNCHANGED <<Files(p), Own>>
    BY <1>1, <2>1 DEF Files, Covered, OldService, NewService, Own
  <2>4. Routed(p)' /\ Reached(p)' /\ Intact(p)'
    BY <1>1, <1>3, <2>1, <2>2, <2>3 DEF Routed, Reached, Intact, Verified, Restoring, Undoing
  <2>5. QED
    BY <1>1, <1>4, <2>1, <2>2, <2>4, ExactOnward
<1>5. ASSUME NEW ok \in BOOLEAN, Close(p, tx[p].clean /\ ok)
      PROVE  Exact' /\ [T!Next]_(T!vars)
  <2>1. pc' = [pc EXCEPT ![p] = "unlock"] /\ sound' = (sound /\ tx[p].clean /\ ok)
    BY <1>5 DEF Close, Goto
  <2>2. sound' = FALSE \/ (sound' = sound /\ \A i \in Files(p) : disk'[i] = Own.image[i])
    BY <1>1, <1>2, <1>3, <2>1
  <2>3. QED
    BY <1>1, <2>1, <2>2, ExactOver
<1>6. \E ok \in BOOLEAN :
          \/ Close(p, tx[p].clean /\ ok)
          \/ \E s \in {"reenable", "resume"} :
                /\ Goto(p, s) /\ tx' = [tx EXCEPT ![p].clean = tx[p].clean /\ ok]
                /\ UNCHANGED sound
  BY DEF RbReload, RbEnable, RbStart, Onward
<1>7. QED
  BY <1>4, <1>5, <1>6

\* A process that dies: before it changed anything it ends, otherwise it leaves doubt.
LEMMA ExactCrash ==
    ASSUME Exact, Base', NEW p \in Procs, Crash(p)
    PROVE  Exact' /\ [T!Next]_(T!vars)
<1>1. /\ pc' = [pc EXCEPT ![p] = "idle"] /\ req' = [req EXCEPT ![p] = NoRequest]
      /\ tx' = [tx EXCEPT ![p] = NoTx] /\ lock' = (IF lock = p THEN None ELSE lock)
      /\ pc[p] # "idle" /\ sound' = (sound /\ ~Undecided(p)) /\ UNCHANGED manifest
      /\ pc[p] \notin {"wipe", "refill"} => UNCHANGED disk
      /\ pc[p] # "retain" => UNCHANGED backups
  BY DEF Crash
<1>2. /\ pc'[p] = "idle"
      /\ \A q \in Procs \ {p} : pc'[q] = pc[q] /\ req'[q] = req[q] /\ tx'[q] = tx[q]
  BY <1>1 DEF Exact, Base, TypeOK
<1>3. CASE pc[p] \in Outside
  <2>1. UNCHANGED <<disk, backups>>
    BY <1>1, <1>3 DEF Outside
  <2>2. pc[p] \notin Undecidable /\ pc'[p] \notin Undecidable
    BY <1>2, <1>3 DEF Outside, Undecidable
  <2>3. \A i \in {"binary", "unit"} : Effective(i)' = Effective(i)
    <3>1. lock' = lock \/ {lock, lock'} \subseteq {None, p}
      BY <1>1
    <3>2. QED
      BY <1>2, <2>1, <2>2, <3>1, ViewKept DEF Exact
  <2>4. Exact'
    BY <1>1, <1>2, <1>3, <2>1, <2>3, ExactAside
  <2>5. [T!Next]_(T!vars)
    <3>1. sound' = sound \/ sound' = FALSE
      BY <1>1 DEF Exact, Base, TypeOK
    <3>2. lock' = lock \/ (lock # None /\ lock' = None)
      BY <1>1, ConstantFacts
    <3>3. QED
      BY <1>1, <2>3, <3>1, <3>2, SeenEdge, SeenDoubt
  <2>6. QED
    BY <2>4, <2>5
<1>4. CASE pc[p] \notin Outside
  <2>1. lock = p /\ lock' = None /\ p # None
    BY <1>1, <1>4, ConstantFacts DEF Exact, Base, MutualExclusion, Outside
  <2>2. Exact'
    BY <1>1, <1>4, Rests
  <2>3. CASE sound' = FALSE
    BY <1>1, <2>1, <2>2, <2>3, SeenDoubt
  <2>4. CASE sound' # FALSE
    <3>1. sound' = sound /\ ~Undecided(p)
      BY <1>1, <2>4 DEF Exact, Base, TypeOK
    <3>2. pc[p] \notin Restoring
      BY <3>1 DEF Exact, Fits, Routed, Undecided, Restoring, Undoing
    <3>3. pc[p] \in Undecidable => \A i \in Files(p) : disk[i] = Own.image[i]
      BY <3>1 DEF Exact, Fits, Intact, Undecided, Undecidable
    <3>4. UNCHANGED disk
      BY <1>1, <3>2 DEF Restoring, Undoing
    <3>5. \A i \in {"binary", "unit"} : Effective(i)' = disk[i]
      BY <2>1, <3>4 DEF Effective, Pending
    <3>6. \A i \in {"binary", "unit"} : Effective(i) = disk[i]
      BY <1>4, <3>3, EffectiveOf DEF Exact, Items, Files
    <3>7. QED
      BY <1>1, <2>1, <2>2, <3>1, <3>5, <3>6, SeenEdge
  <2>5. QED
    BY <2>3, <2>4
<1>5. QED
  BY <1>3, <1>4

\* The running application writes its data only; whoever alters the files leaves doubt.
LEMMA ExactEnvironment ==
    ASSUME Exact, Base', Environment \/ UNCHANGED vars
    PROVE  Exact' /\ [T!Next]_(T!vars)
<1>1. UNCHANGED <<lock, pc, req, tx, manifest, backups>>
  BY DEF Environment, ServiceWrites, ServiceExits, ServiceRestarts, Drift, vars
<1>2. CASE ~Drift
  <2>1. UNCHANGED sound /\ \A i \in {"binary", "unit"} : disk'[i] = disk[i]
    BY <1>2 DEF Environment, ServiceWrites, ServiceExits, ServiceRestarts, vars, Exact,
       Base, TypeOK, Items
  <2>2. \A i \in {"binary", "unit"} : Effective(i)' = Effective(i)
    BY <1>1, <2>1 DEF Effective, Pending, Own, Covered, OldService, NewService
  <2>3. ASSUME NEW q \in Procs PROVE Fits(q)'
    <3>1. Fits(q) /\ UNCHANGED <<pc[q], req[q], tx[q], Own>>
      BY <1>1 DEF Exact, Own
    <3>2. UNCHANGED <<Covered(q), Files(q), OldService(q), NewService(q), HadInstall(q)>>
          /\ Files(q) \subseteq {"binary", "unit"}
      BY <3>1 DEF Covered, Files, OldService, NewService, HadInstall
    <3>3. Admitted(q)' /\ Vacated(q)'
      BY <1>1, <2>2, <3>1, <3>2 DEF Fits, Admitted, Vacated
    <3>4. Routed(q)' /\ Reached(q)'
      BY <1>1, <2>1, <3>1, <3>2 DEF Fits, Routed, Reached, Restoring, Undoing
    <3>5. Intact(q)'
      BY <2>1, <3>1, <3>2 DEF Fits, Intact, Restoring, Undoing
    <3>6. QED
      BY <3>3, <3>4, <3>5 DEF Fits
  <2>4. QED
    BY <1>1, <2>1, <2>2, <2>3, SeenEdge DEF Exact
<1>3. CASE Drift
  <2>1. lock = None /\ sound' = FALSE
    BY <1>3 DEF Drift
  <2>2. ASSUME NEW q \in Procs PROVE Fits(q)'
    <3>1. pc[q] \in Outside
      BY <2>1, ConstantFacts DEF Exact, Base, MutualExclusion, Outside
    <3>2. QED
      BY <1>1, <3>1 DEF Fits, Admitted, Vacated, Routed, Reached, Intact, Outside, Before,
         Underway, Verified, Undecidable, Undoing, Restoring
  <2>3. QED
    BY <1>1, <2>1, <2>2, SeenDoubt DEF Exact
<1>4. QED
  BY <1>2, <1>3

\* Every step keeps the invariant, and is a step of Transaction or none.
LEMMA ExactStep ==
    ASSUME Exact, [Next]_vars
    PROVE  Exact' /\ [T!Next]_(T!vars)
<1>1. Base'
  BY BaseStep DEF Exact
<1>2. ASSUME NEW p \in Procs, Begin(p) \/ Step(p) \/ Crash(p)
      PROVE  Exact' /\ [T!Next]_(T!vars)
  <2>1. CASE Begin(p) \/ Enter(p)
    BY <1>1, <2>1, ExactEnter, ExactAdmit DEF Enter
  <2>2. CASE Prepare(p)
    BY <1>1, <2>2, ExactPrepare
  <2>3. CASE Mutate(p)
    BY <1>1, <2>3, ExactCopy, ExactServe, ExactRemove, ExactCommit, ExactRemoved, ExactRetain
    DEF Mutate
  <2>4. CASE UndoStep(p)
    BY <1>1, <2>4, ExactUndoService, ExactRestore, ExactResume DEF UndoStep
  <2>5. CASE Crash(p)
    BY <1>1, <2>5, ExactCrash
  <2>6. QED
    BY <1>2, <2>1, <2>2, <2>3, <2>4, <2>5 DEF Step
<1>3. QED
  BY <1>1, <1>2, ExactEnvironment DEF Next

\* Before SvcForge runs nothing is installed, whatever lies at the paths.
LEMMA ExactInit == Init => Exact /\ T!Init
<1> SUFFICES ASSUME Init PROVE Exact /\ T!Init
  OBVIOUS
<1>1. Base /\ lock = None /\ manifest = NotInstalled /\ sound = TRUE
      /\ \A q \in Procs : pc[q] = "idle"
  BY BaseInit DEF Init
<1>2. Exact
  BY <1>1 DEF Exact, Fits, Admitted, Vacated, Routed, Reached, Intact, Before,
     Underway, Verified, Undecidable, Undoing, Restoring
<1>3. Effective("binary") \in Contents /\ Effective("unit") \in Contents
  BY <1>1, EffectiveTypes DEF Items
<1>4. QED
  BY <1>1, <1>2, <1>3 DEF T!Init, T!Nothing, NotInstalled

-----------------------------------------------------------------------------

(***************************************************************************)
(* Lifecycle implements Transaction: whatever call fails, whichever        *)
(* process dies and whoever alters the files, an operation takes effect    *)
(* entirely at the write or the removal of the manifest, or not at all, or *)
(* leaves the doubt a crash, a failed rollback or an alteration leaves     *)
(* (installOrRepairLinux, removeLinux and rollbackLinux).                  *)
(***************************************************************************)
THEOREM Atomic == Spec => ActsAtomically
<1>1. Init => Exact /\ T!Init
  BY ExactInit
<1>2. Exact /\ [Next]_vars => Exact' /\ [T!Next]_(T!vars)
  BY ExactStep
<1>3. QED
  BY <1>1, <1>2, PTL DEF Spec, ActsAtomically, T!Spec

-----------------------------------------------------------------------------

\* A commit and nothing else makes the installation what the manifest says.
LEMMA ConsistentStep == T!Consistent /\ [T!Next]_(T!vars) => T!Consistent'
<1> SUFFICES ASSUME T!Consistent, [T!Next]_(T!vars) PROVE T!Consistent'
  OBVIOUS
<1>1. CASE T!Begin \/ T!End \/ UNCHANGED T!vars
  BY <1>1 DEF T!Begin, T!End, T!vars, T!Consistent, T!Nothing
<1>2. CASE T!Install
  <2>1. PICK b \in Builds, service1 \in BOOLEAN :
           /\ manifest' = [build |-> b, hash |-> Effective("binary")', service |-> service1]
           /\ Effective("unit")' = IF service1 THEN b ELSE T!UnitWithoutService
    BY <1>2 DEF T!Install
  <2>2. manifest'.hash = Effective("binary")'
        /\ (manifest'.service => Effective("unit")' = manifest'.build)
    BY <2>1
  <2> QED
    BY <2>2 DEF T!Consistent
<1>3. CASE T!Remove \/ T!Interrupt
  BY <1>3 DEF T!Remove, T!Interrupt, T!Consistent, T!Nothing
<1>4. QED
  BY <1>1, <1>2, <1>3 DEF T!Next

(***************************************************************************)
(* What follows from the promise of Transaction alone: an installation     *)
(* that is not in doubt is what its manifest says, because a commit        *)
(* records what is on the host and nothing changes the host between        *)
(* commits (WriteManifest at the end of installOrRepairLinux, os.Remove of *)
(* the manifest in removeLinux).                                           *)
(***************************************************************************)
THEOREM CommitsAgree == ActsAtomically => []T!Consistent
<1>1. T!Init => T!Consistent
  BY DEF T!Init, T!Consistent
<1>2. T!Consistent /\ [T!Next]_(T!vars) => T!Consistent'
  BY ConsistentStep
<1>3. QED
  BY <1>1, <1>2, PTL DEF ActsAtomically, T!Spec

(***************************************************************************)
(* Between operations the host is what the manifest says, unless a crash,  *)
(* a failed rollback or somebody who altered the files has left it in      *)
(* doubt since the last commit: the promise of Transaction, read where no  *)
(* operation is under way (WriteManifest after the health check, rollback  *)
(* from the snapshot).                                                     *)
(***************************************************************************)
THEOREM InstallationCoherent == Spec => []Coherent
<1>1. T!Consistent => Coherent
  <2>1. lock = None => Effective("binary") = disk["binary"] /\ Effective("unit") = disk["unit"]
    BY DEF Effective, Pending
  <2>2. QED
    BY <2>1 DEF T!Consistent, T!Nothing, Coherent, Installed, NotInstalled
<1>2. QED
  BY <1>1, Atomic, CommitsAgree, PTL

=============================================================================
