--------------------------- MODULE RetentionProofs ---------------------------
(***************************************************************************)
(* Retention by the clock, proved for every clock, every unit of           *)
(* modification times and every number of snapshots: pruning spares the    *)
(* snapshot of the operation that prunes.                                  *)
(***************************************************************************)
EXTENDS Retention, FiniteSetTheorems, TLAPS

Directories == [id : Nat, born : Nat, mtime : Int, whole : BOOLEAN]

\* The types; os.MkdirTemp never gives a name twice.
Typed ==
    /\ now \in Nat
    /\ turned \in BOOLEAN
    /\ made \in Nat
    /\ dirs \in SUBSET Directories
    /\ \A dir \in dirs : dir.id <= made
    /\ \A a, b \in dirs : a.id = b.id => a = b

\* An operation that has not ended has no outcome, and its directory is there: whole as
\* soon as the files were copied.
Present ==
    /\ pc \in {"idle", "fill", "work", "prune"}
    /\ pc # "idle" => outcome = "none" /\ \E dir \in dirs : dir.id = made
    /\ pc \in {"work", "prune"} => \A dir \in dirs : dir.id = made => dir.whole

\* While the clock only goes forward, every directory is of the past ...
Past ==
    ~turned => \A dir \in dirs : dir.mtime <= now \div Unit /\ dir.born < now

\* ... and the one of the operation under way is the youngest by its name, and from the
\* moment it was filled none was modified later.
Youngest ==
    ~turned /\ pc # "idle" =>
        \A own, other \in dirs : own.id = made /\ other.id # made =>
            /\ other.born < own.born
            /\ pc # "fill" => other.mtime <= own.mtime

\* What pruning left holds until the next operation.
Spared ==
    ~turned /\ outcome \in {"done", "untidy"} => \E dir \in dirs : dir.id = made /\ dir.whole

RInv == Typed /\ Present /\ Past /\ Youngest /\ Spared

-----------------------------------------------------------------------------
(* The clock and the order of the directories                              *)

\* Modification times do not go back while the clock does not.
LEMMA Coarse ==
    ASSUME NEW a \in Nat, NEW b \in Nat, a <= b
    PROVE  a \div Unit <= b \div Unit /\ a \div Unit \in Int
<1> DEFINE q == a \div Unit
           r == b \div Unit
<1>1. Unit \in Nat /\ Unit > 0
  BY ConstantsAssumption
<1>2. /\ q \in Int /\ r \in Int
      /\ Unit * q <= a /\ a < Unit * (q + 1)
      /\ Unit * r <= b /\ b < Unit * (r + 1)
  BY <1>1, SMT
<1>3. Unit * q < Unit * (r + 1)
  BY <1>1, <1>2, SMT
<1>4. q < r + 1
  BY <1>1, <1>2, <1>3, SMT
<1> QED
  BY <1>2, <1>4

\* Touching a directory changes its modification time and what it says of itself.
LEMMA Touching ==
    ASSUME NEW dir \in Directories, NEW whole \in BOOLEAN, now \in Nat
    PROVE  LET touched == Touched(dir, whole)
           IN  /\ touched \in Directories
               /\ touched.id = dir.id /\ touched.born = dir.born
               /\ touched.mtime = now \div Unit /\ touched.whole = whole
<1>1. now \div Unit \in Int
  BY Coarse
<1>2. Touched(dir, whole) = [id |-> dir.id, born |-> dir.born,
                             mtime |-> now \div Unit, whole |-> whole]
  <2> DEFINE stamp == now \div Unit
  <2> HIDE DEF stamp
  <2> DEFINE new == [dir EXCEPT !.mtime = stamp, !.whole = whole]
  <2>1. dir = [n \in {"id", "born", "mtime", "whole"} |-> dir[n]]
    BY DEF Directories
  <2>2. new = [n \in {"id", "born", "mtime", "whole"} |->
                  IF n = "whole" THEN whole ELSE IF n = "mtime" THEN stamp ELSE dir[n]]
    BY <2>1
  <2>3. new = [id |-> dir.id, born |-> dir.born, mtime |-> stamp, whole |-> whole]
    BY <2>2
  <2> QED
    BY <2>3 DEF Touched, stamp
<1> HIDE DEF Touched
<1> QED
  BY <1>1, <1>2 DEF Directories

\* A directory that every other one comes after is among the first, if there are any.
LEMMA FirstLeads ==
    ASSUME NEW some, NEW own \in some, NEW count \in Nat, count > 0,
           \A other \in some : other # own => Before(own, other),
           NEW lead \in Leading(some, count)
    PROVE  own \in lead
<1>1. lead # {}
  BY FS_EmptySet DEF Leading
<1>2. PICK a \in lead : TRUE
  BY <1>1
<1>3. a \in some /\ (own \in some \ lead => ~Before(own, a))
  BY DEF Leading
<1> QED
  BY <1>2, <1>3

\* At least one directory is kept, whatever the application asks for.
LEMMA KeptPositive == Kept \in Nat /\ Kept > 0
BY ConstantsAssumption DEF Kept

\* The operation's own snapshot is among those that pruning keeps.
LEMMA OwnLeads ==
    ASSUME RInv, ~turned, pc = "prune",
           NEW own \in dirs, own.id = made,
           NEW lead \in Leading(dirs, Kept)
    PROVE  own \in lead
<1>1. ASSUME NEW other \in dirs, other # own PROVE Before(own, other)
  <2>1. other.id # made
    BY <1>1 DEF RInv, Typed
  <2>2. other.born < own.born /\ other.mtime <= own.mtime
    BY <2>1 DEF RInv, Youngest
  <2>3. /\ own.born \in Nat /\ other.born \in Nat
        /\ own.mtime \in Int /\ other.mtime \in Int
    BY DEF RInv, Typed, Directories
  <2> QED
    BY <2>2, <2>3 DEF Before
<1> QED
  BY <1>1, FirstLeads, KeptPositive

-----------------------------------------------------------------------------
(* The steps                                                               *)

\* The directory of the operation under way, and the others.
LEMMA OwnFacts ==
    ASSUME Typed, Present, pc # "idle"
    PROVE  /\ Own \in dirs /\ Own.id = made
           /\ \A dir \in dirs : dir.id = made => dir = Own
           /\ Others = dirs \ {Own}
<1>1. PICK own \in dirs : own.id = made
  BY DEF Present
<1>2. Own \in dirs /\ Own.id = made
  BY <1>1 DEF Own
<1>3. \A dir \in dirs : dir.id = made => dir = Own
  BY <1>2 DEF Typed
<1> QED
  BY <1>2, <1>3 DEF Others

\* A step that leaves the directories and the clock alone and ends the operation, or
\* ends it before it prunes.
LEMMA EndKeeps ==
    ASSUME RInv, UNCHANGED <<now, turned, made, dirs>>,
           pc' = "idle", outcome' \notin {"done", "untidy"}
    PROVE  RInv'
BY DEF RInv, Typed, Present, Past, Youngest, Spared

\* RInv holds at first: there is no directory.
LEMMA InitRInv == Init => RInv
<1> SUFFICES ASSUME Init PROVE RInv
  OBVIOUS
<1>1. /\ now = 1 /\ turned = FALSE /\ pc = "idle" /\ outcome = "none"
      /\ dirs = {} /\ made = 0
  BY DEF Init
<1>2. Typed
  BY <1>1 DEF Typed
<1>3. Present /\ Past /\ Youngest /\ Spared
  BY <1>1 DEF Present, Past, Youngest, Spared
<1> QED
  BY <1>2, <1>3 DEF RInv

\* A new directory is the youngest, unless the clock was set back.
LEMMA OpenStep == RInv /\ Open => RInv'
<1> SUFFICES ASSUME RInv, Open PROVE RInv'
  OBVIOUS
<1> USE DEF RInv
<1> DEFINE blank == [id |-> made + 1, born |-> now, mtime |-> 0, whole |-> FALSE]
           new == Touched(blank, FALSE)
<1>1. now \in Nat /\ made \in Nat
  BY DEF Typed
<1>2. blank \in Directories /\ blank.id = made + 1 /\ blank.born = now
  BY <1>1 DEF Directories
<1>3. /\ new \in Directories
      /\ new.id = made + 1 /\ new.born = now
      /\ new.mtime = now \div Unit
  <2> HIDE DEF blank
  <2> QED
    BY <1>1, <1>2, Touching
<1>4. /\ pc = "idle" /\ pc' = "fill"
      /\ made' = made + 1 /\ now' = now + 1
      /\ dirs' = dirs \cup {new}
      /\ outcome' = "none" /\ turned' = turned
  BY DEF Open
<1> HIDE DEF new
<1>5. \A dir \in dirs : dir \in Directories /\ dir.id \in Nat /\ dir.id <= made
  BY DEF Typed, Directories
<1>6. Typed'
  <2>1. \A dir \in dirs' : dir.id <= made'
    BY <1>1, <1>3, <1>4, <1>5
  <2>2. \A a, b \in dirs' : a.id = b.id => a = b
    BY <1>1, <1>3, <1>4, <1>5 DEF Typed
  <2> QED
    BY <1>1, <1>3, <1>4, <2>1, <2>2 DEF Typed
<1>7. Present'
  BY <1>3, <1>4 DEF Present
<1>8. Past'
  <2> SUFFICES ASSUME ~turned, NEW dir \in dirs \cup {new}
               PROVE  dir.mtime <= (now + 1) \div Unit /\ dir.born < now + 1
    BY <1>4 DEF Past
  <2>1. /\ now \div Unit <= (now + 1) \div Unit
        /\ now \div Unit \in Int /\ (now + 1) \div Unit \in Int
    BY <1>1, Coarse
  <2>2. dir.mtime <= now \div Unit /\ dir.born <= now /\ dir.born \in Nat /\ dir.mtime \in Int
    <3>1. CASE dir = new
      BY <1>1, <1>3, <2>1, <3>1
    <3>2. CASE dir \in dirs
      BY <1>1, <1>5, <3>2 DEF Past, Directories
    <3> QED
      BY <3>1, <3>2
  <2> QED
    BY <1>1, <2>1, <2>2
<1>9. Youngest'
  <2> SUFFICES ASSUME ~turned, NEW own \in dirs \cup {new}, NEW other \in dirs \cup {new},
                      own.id = made + 1, other.id # made + 1
               PROVE  other.born < own.born
    BY <1>4 DEF Youngest
  <2>1. own = new /\ other \in dirs
    BY <1>1, <1>3, <1>5
  <2> QED
    BY <1>3, <2>1 DEF Past
<1>10. Spared'
  BY <1>4 DEF Spared
<1> QED
  BY <1>6, <1>7, <1>8, <1>9, <1>10

\* The operation's own directory is touched, and keeps its name.
LEMMA Retouched ==
    ASSUME RInv, pc # "idle", NEW whole \in BOOLEAN,
           UNCHANGED <<now, turned, made>>,
           dirs' = Others \cup {Touched(Own, whole)}
    PROVE  LET new == Touched(Own, whole)
           IN  /\ Typed' /\ Past'
               /\ \A dir \in dirs' : dir.id = made <=> dir = new
               /\ new \in dirs' /\ new.id = made /\ new.whole = whole
               /\ new.born = Own.born /\ new.mtime = now \div Unit
               /\ Others \subseteq dirs
<1> DEFINE new == Touched(Own, whole)
<1> USE DEF RInv
<1>1. /\ Own \in dirs /\ Own.id = made
      /\ \A dir \in dirs : dir.id = made => dir = Own
      /\ Others = dirs \ {Own}
  BY OwnFacts
<1>2. /\ now \in Nat /\ made \in Nat /\ dirs \subseteq Directories
      /\ \A dir \in dirs : dir.id <= made
      /\ \A a, b \in dirs : a.id = b.id => a = b
  BY DEF Typed
<1>3. /\ new \in Directories /\ new.id = made /\ new.born = Own.born
      /\ new.mtime = now \div Unit /\ new.whole = whole
  BY <1>1, <1>2, Touching
<1>4. dirs' = (dirs \ {Own}) \cup {new}
  BY <1>1
<1> HIDE DEF new
<1>5. \A dir \in dirs' : dir.id = made <=> dir = new
  BY <1>1, <1>3, <1>4
<1>6. Typed'
  <2>1. \A dir \in dirs' : dir.id <= made'
    BY <1>2, <1>3, <1>4
  <2>2. \A a, b \in dirs' : a.id = b.id => a = b
    BY <1>2, <1>4, <1>5, <1>3
  <2> QED
    BY <1>2, <1>3, <1>4, <2>1, <2>2 DEF Typed
<1>7. Past'
  <2> SUFFICES ASSUME ~turned, NEW dir \in (dirs \ {Own}) \cup {new}
               PROVE  dir.mtime <= now \div Unit /\ dir.born < now
    BY <1>4 DEF Past
  <2>1. now \div Unit \in Int
    BY <1>2, Coarse
  <2> QED
    BY <1>1, <1>3, <2>1 DEF Past
<1> QED
  BY <1>1, <1>3, <1>4, <1>5, <1>6, <1>7 DEF new

\* Filling it makes it usable and touches it once more.
LEMMA FillStep == RInv /\ Fill => RInv'
<1> SUFFICES ASSUME RInv, Fill PROVE RInv'
  OBVIOUS
<1> USE DEF RInv
<1> DEFINE new == Touched(Own, TRUE)
<1>1. /\ pc = "fill" /\ pc' = "work"
      /\ dirs' = Others \cup {new}
      /\ UNCHANGED <<now, turned, made, outcome>>
  BY DEF Fill
<1>2. /\ Typed' /\ Past'
      /\ \A dir \in dirs' : dir.id = made <=> dir = new
      /\ new \in dirs' /\ new.id = made /\ new.whole = TRUE
      /\ new.born = Own.born /\ new.mtime = now \div Unit
      /\ Others \subseteq dirs
  BY <1>1, Retouched
<1>3. Own \in dirs /\ Own.id = made
  BY <1>1, OwnFacts
<1> HIDE DEF new
<1>4. Present'
  BY <1>1, <1>2 DEF Present
<1>5. Youngest'
  <2> SUFFICES ASSUME ~turned, NEW other \in dirs', other.id # made
               PROVE  other.born < new.born /\ other.mtime <= new.mtime
    BY <1>1, <1>2 DEF Youngest
  <2>1. other \in dirs
    BY <1>1, <1>2
  <2> QED
    BY <1>1, <1>2, <1>3, <2>1 DEF Youngest, Past
<1>6. Spared'
  BY <1>1 DEF Spared, Present
<1> QED
  BY <1>2, <1>4, <1>5, <1>6

\* The operation ends without its directory, or with part of it.
LEMMA DroppedOrCut ==
    ASSUME RInv, pc # "idle", UNCHANGED <<now, turned, made>>,
           dirs' \in {Others, dirs, Others \cup {Touched(Own, FALSE)}},
           pc' = "idle", outcome' \notin {"done", "untidy"}
    PROVE  RInv'
<1> USE DEF RInv
<1>1. Present' /\ Youngest' /\ Spared'
  BY DEF Present, Youngest, Spared
<1>2. Typed' /\ Past'
  <2>1. CASE dirs' \subseteq dirs
    BY <2>1 DEF Typed, Past
  <2>2. CASE dirs' = Others \cup {Touched(Own, FALSE)}
    BY <2>2, Retouched
  <2> QED
    BY <2>1, <2>2 DEF Others
<1> QED
  BY <1>1, <1>2

\* A commit changes no directory, and a refused one only drops the own.
LEMMA CommitStep == RInv /\ Commit => RInv'
<1> SUFFICES ASSUME RInv, Commit PROVE RInv'
  OBVIOUS
<1>1. CASE Installed
  BY <1>1 DEF Commit, RInv, Typed, Present, Past, Youngest, Spared
<1>2. CASE ~Installed
  BY <1>2, DroppedOrCut DEF Commit, End
<1> QED
  BY <1>1, <1>2

\* Neither does a removal.
LEMMA RemoveStep == RInv /\ Remove => RInv'
BY DEF Remove, RInv, Typed, Present, Past, Youngest, Spared

\* Pruning keeps the youngest directory, which is the own one.
LEMMA PruneStep == RInv /\ Prune => RInv'
<1> SUFFICES ASSUME RInv, Prune PROVE RInv'
  OBVIOUS
<1>1. /\ pc = "prune" /\ pc' = "idle" /\ outcome' = "done"
      /\ UNCHANGED <<now, turned, made>>
      /\ dirs' = dirs \/ dirs' \in Leading(dirs, Kept)
  BY DEF Prune, End
<1>2. dirs' \subseteq dirs
  BY <1>1 DEF Leading
<1>3. Typed' /\ Present' /\ Past' /\ Youngest'
  BY <1>1, <1>2 DEF RInv, Typed, Present, Past, Youngest
<1>4. Spared'
  <2> SUFFICES ASSUME ~turned PROVE \E dir \in dirs' : dir.id = made /\ dir.whole
    BY <1>1 DEF Spared
  <2>1. Own \in dirs /\ Own.id = made /\ Own.whole
    BY <1>1, OwnFacts DEF RInv, Present
  <2>2. dirs' \in Leading(dirs, Kept) => Own \in dirs'
    BY <1>1, <2>1, OwnLeads
  <2> QED
    BY <1>1, <2>1, <2>2
<1> QED
  BY <1>3, <1>4 DEF RInv

\* So it does when it fails on the way, and what it touched is older than what it kept.
LEMMA PruneFailsStep == RInv /\ PruneFails => RInv'
<1> SUFFICES ASSUME RInv, PruneFails PROVE RInv'
  OBVIOUS
<1>1. /\ pc = "prune" /\ pc' = "idle" /\ outcome' = "untidy"
      /\ UNCHANGED <<now, turned, made>>
  BY DEF PruneFails, End
<1>2. PICK kept \in Leading(dirs, Kept) :
          \E gone \in 0 .. Cardinality(dirs \ kept) - 1 :
             \E first \in Leading(dirs \ kept, gone) :
                \E cut \in dirs \ (kept \cup first) :
                   dirs' = (dirs \ (first \cup {cut})) \cup {Touched(cut, FALSE)}
  BY DEF PruneFails
<1>3. PICK first \in SUBSET (dirs \ kept) :
          \E cut \in dirs \ (kept \cup first) :
             dirs' = (dirs \ (first \cup {cut})) \cup {Touched(cut, FALSE)}
  BY <1>2 DEF Leading
<1>a. PICK cut \in dirs \ (kept \cup first) :
          dirs' = (dirs \ (first \cup {cut})) \cup {Touched(cut, FALSE)}
  BY <1>3
<1> DEFINE new == Touched(cut, FALSE)
<1>4. /\ now \in Nat /\ made \in Nat /\ dirs \subseteq Directories
      /\ \A dir \in dirs : dir.id <= made
      /\ \A a, b \in dirs : a.id = b.id => a = b
  BY DEF RInv, Typed
<1>5. /\ new \in Directories /\ new.id = cut.id /\ new.born = cut.born
      /\ new.mtime = now \div Unit
  BY <1>4, Touching
<1>6. \A dir \in dirs' : (dir \in dirs /\ dir # cut) \/ dir = new
  BY <1>a
<1> HIDE DEF new
<1>7. Typed'
  <2>1. \A dir \in dirs' : dir.id <= made'
    BY <1>1, <1>4, <1>5, <1>6
  <2>2. \A a, b \in dirs' : a.id = b.id => a = b
    BY <1>4, <1>5, <1>6
  <2>3. dirs' \subseteq Directories
    BY <1>4, <1>5, <1>6
  <2> QED
    BY <1>1, <2>1, <2>2, <2>3 DEF RInv, Typed
<1>8. Past'
  <2> SUFFICES ASSUME ~turned, NEW dir \in dirs'
               PROVE  dir.mtime <= now \div Unit /\ dir.born < now
    BY <1>1 DEF Past
  <2>1. now \div Unit \in Int
    BY <1>4, Coarse
  <2> QED
    BY <1>5, <1>6, <2>1 DEF RInv, Past
<1>9. Present' /\ Youngest'
  BY <1>1 DEF Present, Youngest
<1>10. Spared'
  <2> SUFFICES ASSUME ~turned PROVE \E dir \in dirs' : dir.id = made /\ dir.whole
    BY <1>1 DEF Spared
  <2>1. Own \in dirs /\ Own.id = made /\ Own.whole
    BY <1>1, OwnFacts DEF RInv, Present
  <2>2. Own \in kept
    BY <1>1, <2>1, OwnLeads
  <2> QED
    BY <1>a, <2>1, <2>2
<1> QED
  BY <1>7, <1>8, <1>9, <1>10 DEF RInv

\* Time that passes only makes directories older.
LEMMA TickStep == RInv /\ Tick => RInv'
<1> SUFFICES ASSUME RInv, Tick PROVE RInv'
  OBVIOUS
<1>1. /\ now \in Nat /\ now' = now + 1 /\ dirs \subseteq Directories
      /\ UNCHANGED <<turned, pc, dirs, made, outcome>>
  BY DEF Tick, RInv, Typed
<1>2. Typed' /\ Present' /\ Youngest' /\ Spared'
  BY <1>1 DEF RInv, Typed, Present, Youngest, Spared
<1>3. Past'
  <2> SUFFICES ASSUME ~turned, NEW dir \in dirs
               PROVE  dir.mtime <= (now + 1) \div Unit /\ dir.born < now + 1
    BY <1>1 DEF Past
  <2>1. /\ now \div Unit <= (now + 1) \div Unit
        /\ now \div Unit \in Int /\ (now + 1) \div Unit \in Int
    BY <1>1, Coarse
  <2>2. dir.mtime \in Int /\ dir.born \in Nat /\ dir.mtime <= now \div Unit /\ dir.born < now
    BY <1>1 DEF RInv, Past, Directories
  <2> QED
    BY <1>1, <2>1, <2>2
<1> QED
  BY <1>2, <1>3 DEF RInv

\* After the clock was set back nothing is claimed about order.
LEMMA SetBackStep == RInv /\ SetBack => RInv'
<1> SUFFICES ASSUME RInv, SetBack PROVE RInv'
  OBVIOUS
<1>1. /\ now \in Nat /\ now' \in Nat /\ turned' = TRUE
      /\ UNCHANGED <<pc, dirs, made, outcome>>
  BY DEF SetBack, RInv, Typed
<1> QED
  BY <1>1 DEF RInv, Typed, Present, Past, Youngest, Spared

\* RInv is inductive.
LEMMA RInvInductive == RInv /\ [Next]_vars => RInv'
<1> SUFFICES ASSUME RInv, [Next]_vars PROVE RInv'
  OBVIOUS
<1>1. CASE FillFails
  BY <1>1, DroppedOrCut DEF FillFails, End
<1>2. CASE WorkFails
  BY <1>2, EndKeeps DEF WorkFails, End
<1>3. CASE UNCHANGED vars
  BY <1>3 DEF vars, RInv, Typed, Present, Past, Youngest, Spared
<1> QED
  BY <1>1, <1>2, <1>3, OpenStep, FillStep, CommitStep, RemoveStep, PruneStep,
     PruneFailsStep, TickStep, SetBackStep DEF Next

-----------------------------------------------------------------------------

(***************************************************************************)
(* While the clock only goes forward, pruning keeps the snapshot of the    *)
(* operation that prunes, whole, for every setting of KeepBackups (0       *)
(* included), every unit of modification times, and whatever failed and    *)
(* cut short operations left behind before.                                *)
(***************************************************************************)
THEOREM OwnSnapshotSurvives == Spec => []OwnSnapshotKept
<1>1. RInv => OwnSnapshotKept
  <2> SUFFICES ASSUME RInv, ~turned, pc = "prune" \/ outcome \in {"done", "untidy"}
               PROVE  \E dir \in dirs : dir.id = made /\ dir.whole
    BY DEF OwnSnapshotKept
  <2>1. CASE pc = "prune"
    BY <2>1 DEF RInv, Present
  <2>2. CASE outcome \in {"done", "untidy"}
    BY <2>2 DEF RInv, Spared
  <2> QED
    BY <2>1, <2>2
<1> QED
  BY <1>1, InitRInv, RInvInductive, PTL DEF Spec

=============================================================================
