-------------------------- MODULE Corrections_proofs --------------------------
(***************************************************************************)
(* Theorems about Corrections, for any employees, punches, requests,       *)
(* reviews and crashes.  What a punch shows is kept by every review since  *)
(* nothing is approved about a punch that is not recorded, and what a      *)
(* correction asks never changes.  How often an employee is flagged is     *)
(* bounded by the scans that were begun and are not to be run again.       *)
(***************************************************************************)
EXTENDS Corrections, SequenceTheorems, FiniteSetTheorems, TLAPS

ApprovedAreRecorded ==
  \A k \in DOMAIN approvals : correction[approvals[k]].asks.punch \in Recorded

\* The scans of a day that have run to their end.
Finished(d) == (IF d \in scanned THEN 1 ELSE 0) + crashes - reruns

FlagsAreScanned ==
  /\ reruns <= crashes
  /\ \A e \in Employees, d \in Days :
       IsFiniteSet(Flagged(e, d)) /\ Cardinality(Flagged(e, d)) <= Finished(d)

CorrectionInv == /\ TypeOK /\ ApprovedAreRecorded /\ PunchShowsLatestApproval
                 /\ FlagsAreScanned

------------------------------------------------------------------------------
(* What a step does to the corrections *)

\* No correction that is filed asks for something else or flags someone else later.
Kept(c) == /\ c \in Filed'
           /\ correction'[c].asks = correction[c].asks
           /\ correction'[c].flags = correction[c].flags

LEMMA CommitStep ==
  ASSUME TypeOK, Commit
  PROVE  /\ correction' \in [Ids -> Correction \union {None}]
         /\ \A c \in Filed : correction'[c] = correction[c] /\ c \in Filed'
         /\ \A c \in Filed' \ Filed : \E e \in ToFlag : correction'[c] = Flag(e)
         /\ \E row \in [ToFlag -> Ids \ Filed] :
              /\ \A e \in ToFlag : row[e] \in Filed' /\ correction'[row[e]] = Flag(e)
              /\ \A c \in Filed' \ Filed, e \in ToFlag : correction'[c] = Flag(e) => c = row[e]
<1>1. PICK row \in [ToFlag -> {c \in Ids : correction[c] = None}] :
        /\ \A e, f \in ToFlag : row[e] = row[f] => e = f
        /\ correction' = [c \in Ids |-> IF \E e \in ToFlag : row[e] = c
                                          THEN Flag(CHOOSE e \in ToFlag : row[e] = c)
                                          ELSE correction[c]]
  BY DEF Commit
<1>2. ToFlag \subseteq Employees
  BY DEF ToFlag, Unpaired
<1>3. \A e \in ToFlag : Flag(e) \in Correction /\ Flag(e).flags.emp = e
  <2>1. today \in Days
    BY DEF TypeOK
  <2>2. Nothing \in Proposal
    BY DEF Nothing, Proposal
  <2> QED BY <1>2, <2>1, <2>2 DEF Flag, Correction, Statuses
<1>4. \A e \in ToFlag : correction'[row[e]] = Flag(e)
  <2> SUFFICES ASSUME NEW e \in ToFlag PROVE correction'[row[e]] = Flag(e)
    OBVIOUS
  <2>1. (CHOOSE f \in ToFlag : row[f] = row[e]) = e
    BY <1>1
  <2>2. row[e] \in Ids
    BY <1>1
  <2> QED BY <1>1, <2>1, <2>2
<1>5. \A c \in Ids : (\A e \in ToFlag : row[e] # c) => correction'[c] = correction[c]
  BY <1>1
<1>6. \A c \in Filed : correction'[c] = correction[c] /\ c \in Filed'
  BY <1>1, <1>5 DEF Filed
<1>7. \A c \in Filed' \ Filed : \E e \in ToFlag : row[e] = c
  BY <1>5 DEF Filed
<1>8. \A e \in ToFlag : row[e] \in Filed'
  BY <1>1, <1>3, <1>4, NoneIsNoRow DEF Filed
<1>9. \A c \in Ids : correction'[c] \in Correction \union {None}
  BY <1>3, <1>4, <1>5 DEF TypeOK
<1>10. correction' \in [Ids -> Correction \union {None}]
  BY <1>1, <1>9
<1>11. row \in [ToFlag -> Ids \ Filed]
  BY <1>1 DEF Filed
<1>12. \A e, f \in ToFlag : Flag(e) = Flag(f) => e = f
  BY <1>3
<1>13. \A c \in Filed' \ Filed : \A e \in ToFlag : correction'[c] = Flag(e) => c = row[e]
  BY <1>4, <1>7, <1>12
<1> HIDE <1>1, <1>5
<1> QED BY <1>4, <1>6, <1>7, <1>8, <1>10, <1>11, <1>13

LEMMA TypeStep == TypeOK /\ [Next]_vars => TypeOK'
<1> SUFFICES ASSUME TypeOK, [Next]_vars PROVE TypeOK'
  OBVIOUS
<1> USE DEF TypeOK
<1>1. ASSUME NEW p \in Punches, NEW t \in PunchTypes, RecordPunch(p, t) PROVE TypeOK'
  <2>1. [day |-> today, type |-> t] \in PunchRow
    BY DEF PunchRow
  <2>2. punch' \in [Punches -> PunchRow \union {None}]
    BY <1>1, <2>1 DEF RecordPunch
  <2>3. punch'[p] \in PunchRow
    BY <1>1, <2>1 DEF RecordPunch
  <2> QED BY <1>1, <2>2, <2>3 DEF RecordPunch, Filed
<1>2. ASSUME NEW c \in Ids, NEW asks \in Proposals, RequestCorrection(c, asks) PROVE TypeOK'
  <2>1. [asks |-> asks, status |-> "pending", flags |-> None] \in Correction
    BY CorrectionInputs DEF Correction, Statuses
  <2>2. correction' \in [Ids -> Correction \union {None}]
    BY <1>2, <2>1 DEF RequestCorrection
  <2>3. Filed \subseteq Filed'
    BY <1>2, <2>1, NoneIsNoRow DEF RequestCorrection, Filed
  <2>4. approvals' \in Seq(Filed')
    BY <1>2, <2>3 DEF RequestCorrection
  <2> QED BY <1>2, <2>2, <2>4 DEF RequestCorrection
<1>3. ASSUME NEW c \in Ids, NEW status \in Statuses, Review(c, status) PROVE TypeOK'
  <2> DEFINE asks == correction[c].asks
  <2>1. correction[c] \in Correction /\ c \in Filed
    BY <1>3 DEF Review, Filed
  <2>2. [correction[c] EXCEPT !.status = status] \in Correction
    BY <2>1 DEF Correction
  <2>3. correction' \in [Ids -> Correction \union {None}] /\ Filed' = Filed
    BY <1>3, <2>1, <2>2, NoneIsNoRow DEF Review, Filed
  <2>4. asks \in Proposal
    BY <2>1 DEF Correction
  <2>5. ASSUME asks.punch \in Recorded PROVE Rewritten(punch[asks.punch], asks) \in PunchRow
    <3>1. punch[asks.punch] \in PunchRow
      BY <2>5 DEF Recorded
    <3> QED BY <2>4, <3>1 DEF Rewritten, PunchRow, Proposal
  <2>6. punch' \in [Punches -> PunchRow \union {None}]
    <3>1. CASE asks.punch \in Recorded /\ status = "approved"
      BY <1>3, <2>5, <3>1 DEF Review, Applies, Recorded
    <3>2. CASE ~(asks.punch \in Recorded /\ status = "approved")
      BY <1>3, <3>2 DEF Review, Applies
    <3> QED BY <3>1, <3>2
  <2>7. approvals' \in Seq(Filed')
    BY <1>3, <2>1, <2>3 DEF Review
  <2> QED BY <1>3, <2>3, <2>6, <2>7 DEF Review
<1>4. CASE Scan
  <2>1. correction' \in [Ids -> Correction \union {None}] /\ Filed \subseteq Filed'
    BY <1>4, CommitStep DEF Scan, Filed
  <2>2. reruns' \in Nat /\ crashes' \in Nat /\ scanned' \in SUBSET Days
    BY <1>4 DEF Scan
  <2>3. approvals' \in Seq(Filed')
    BY <1>4, <2>1 DEF Scan
  <2> QED BY <1>4, <2>1, <2>2, <2>3 DEF Scan
<1>5. CASE NextDay
  BY <1>5, CorrectionConstants DEF NextDay, Days, Filed
<1>6. ASSUME NEW e \in Employees, ChangeShift(e) PROVE TypeOK'
  BY <1>6 DEF ChangeShift, Filed
<1>7. CASE UNCHANGED vars
  BY <1>7 DEF vars, Filed
<1> QED BY <1>1, <1>2, <1>3, <1>4, <1>5, <1>6, <1>7 DEF Next

LEMMA StepKeeps == TypeOK /\ [Next]_vars => \A c \in Filed : Kept(c)
<1> SUFFICES ASSUME TypeOK, [Next]_vars, NEW c \in Filed PROVE Kept(c)
  OBVIOUS
<1> USE DEF Kept
<1>1. ASSUME NEW d \in Ids, NEW asks \in Proposals, RequestCorrection(d, asks) PROVE Kept(c)
  BY <1>1 DEF RequestCorrection, Filed, TypeOK
<1>2. ASSUME NEW d \in Ids, NEW status \in Statuses, Review(d, status) PROVE Kept(c)
  <2>1. correction[d] \in Correction /\ d \in Filed
    BY <1>2 DEF Review, Filed, TypeOK
  <2>2. /\ [correction[d] EXCEPT !.status = status] \in Correction
        /\ [correction[d] EXCEPT !.status = status].asks = correction[d].asks
        /\ [correction[d] EXCEPT !.status = status].flags = correction[d].flags
    BY <2>1 DEF Correction
  <2>3. correction' = [correction EXCEPT ![d] = [correction[d] EXCEPT !.status = status]]
    BY <1>2 DEF Review
  <2> QED BY <2>2, <2>3, NoneIsNoRow DEF Filed, TypeOK
<1>3. CASE Scan
  <2>1. CASE Commit
    BY <2>1, CommitStep
  <2>2. CASE UNCHANGED correction
    BY <2>2 DEF Filed
  <2> QED BY <1>3, <2>1, <2>2 DEF Scan
<1>4. CASE UNCHANGED correction
  BY <1>4 DEF Filed
<1> QED BY <1>1, <1>2, <1>3, <1>4 DEF Next, RecordPunch, NextDay, ChangeShift, vars

------------------------------------------------------------------------------
(* What a punch shows *)

LEMMA ApprovalsTyped ==
  ASSUME TypeOK, NEW k \in DOMAIN approvals
  PROVE  /\ approvals[k] \in Filed
         /\ correction[approvals[k]] \in Correction
         /\ correction[approvals[k]].asks \in Proposal
BY DEF TypeOK, Filed, Correction

\* Steps that approve nothing leave Shows alone.
LEMMA ShowsStays ==
  ASSUME TypeOK, [Next]_vars, UNCHANGED approvals,
         NEW v, NEW p, NEW column, NEW original, Shows(v, p, column, original)
  PROVE  Shows(v, p, column, original)'
<1>1. \A k \in DOMAIN approvals : correction'[approvals[k]].asks = correction[approvals[k]].asks
  BY ApprovalsTyped, StepKeeps DEF Kept
<1> QED BY <1>1 DEF Shows

LEMMA ApprovedStep ==
  ASSUME CorrectionInv, [Next]_vars PROVE ApprovedAreRecorded'
<1>1. Recorded \subseteq Recorded'
  <2>1. ASSUME NEW p \in Punches, NEW t \in PunchTypes, RecordPunch(p, t)
        PROVE  Recorded \subseteq Recorded'
    BY <2>1 DEF RecordPunch, Recorded, CorrectionInv, TypeOK
  <2>2. ASSUME NEW c \in Ids, NEW status \in Statuses, Review(c, status)
        PROVE  Recorded \subseteq Recorded'
    <3>1. CASE Applies(correction[c].asks, status)
      <4> DEFINE q == correction[c].asks.punch
                 new == Rewritten(punch[q], correction[c].asks)
      <4>1. punch' = [punch EXCEPT ![q] = new]
        BY <2>2, <3>1 DEF Review
      <4>2. c \in Ids /\ correction[c] \in Correction /\ correction[c].asks \in Proposal
        BY <2>2 DEF Review, Filed, CorrectionInv, TypeOK, Correction
      <4>3. punch[q] \in PunchRow
        BY <3>1 DEF Applies, Recorded, CorrectionInv, TypeOK
      <4>4. new \in PunchRow
        BY <4>2, <4>3 DEF Rewritten, PunchRow, Proposal
      <4> HIDE DEF q, new
      <4> QED BY <4>1, <4>4, NoneIsNoRow DEF Recorded, CorrectionInv, TypeOK
    <3>2. CASE ~Applies(correction[c].asks, status)
      BY <2>2, <3>2 DEF Review, Recorded
    <3> QED BY <3>1, <3>2
  <2>3. CASE UNCHANGED punch
    BY <2>3 DEF Recorded
  <2> QED BY <2>1, <2>2, <2>3 DEF Next, RequestCorrection, Scan, NextDay, ChangeShift, vars
<1>2. \A k \in DOMAIN approvals :
        correction'[approvals[k]].asks.punch = correction[approvals[k]].asks.punch
  BY ApprovalsTyped, StepKeeps DEF Kept, CorrectionInv
<1>3. CASE UNCHANGED approvals
  BY <1>1, <1>2, <1>3 DEF ApprovedAreRecorded, CorrectionInv
<1>4. ASSUME NEW c \in Ids, NEW status \in Statuses, Review(c, status),
             ~UNCHANGED approvals
      PROVE  ApprovedAreRecorded'
  <2>1. approvals' = Append(approvals, c) /\ correction[c].asks.punch \in Recorded
    BY <1>4 DEF Review
  <2>2. c \in Filed
    BY <1>4 DEF Review
  <2>3. correction'[c].asks.punch = correction[c].asks.punch
    BY <2>2, StepKeeps DEF Kept, CorrectionInv
  <2>4. approvals \in Seq(Filed)
    BY DEF CorrectionInv, TypeOK
  <2>5. \A k \in DOMAIN approvals' :
          \/ approvals'[k] = c
          \/ k \in DOMAIN approvals /\ approvals'[k] = approvals[k]
    <3> DEFINE n == Len(approvals)
    <3>1. /\ n \in Nat /\ DOMAIN approvals = 1 .. n /\ DOMAIN approvals' = 1 .. n + 1
          /\ approvals'[n + 1] = c
          /\ \A k \in 1 .. n : approvals'[k] = approvals[k]
      BY <2>1, <2>2, <2>4
    <3> HIDE DEF n
    <3>2. \A k \in 1 .. n + 1 : k = n + 1 \/ k \in 1 .. n
      BY <3>1
    <3> QED BY <3>1, <3>2
  <2> QED BY <1>1, <1>2, <2>1, <2>3, <2>5 DEF ApprovedAreRecorded, CorrectionInv
<1> QED BY <1>3, <1>4 DEF Next, RecordPunch, RequestCorrection, Scan, NextDay, ChangeShift, vars

Columns == {"type", "day"}

LEMMA ShowsStep ==
  ASSUME CorrectionInv, [Next]_vars PROVE PunchShowsLatestApproval'
<1> SUFFICES ASSUME NEW p \in Recorded', NEW column \in Columns
             PROVE  Shows(punch[p][column], p, column, recorded[p][column])'
  BY DEF PunchShowsLatestApproval, Columns
<1>0. TypeOK /\ p \in Punches
  BY DEF CorrectionInv, Recorded
<1>1. CASE p \in Recorded /\ punch'[p] = punch[p] /\ recorded'[p] = recorded[p]
           /\ UNCHANGED approvals
  <2>1. Shows(punch[p][column], p, column, recorded[p][column])
    BY <1>1 DEF CorrectionInv, PunchShowsLatestApproval, Columns
  <2>2. \A v, w : Shows(v, p, column, w) => Shows(v, p, column, w)'
    BY <1>0, <1>1, ShowsStays
  <2> QED BY <1>1, <2>1, <2>2
<1>2. ASSUME NEW q \in Punches, NEW t \in PunchTypes, RecordPunch(q, t)
      PROVE  Shows(punch[p][column], p, column, recorded[p][column])'
  <2>1. CASE p # q
    BY <1>0, <1>1, <1>2, <2>1 DEF RecordPunch, Recorded, TypeOK
  <2>2. CASE p = q
    <3>1. \A k \in DOMAIN approvals' : correction'[approvals'[k]].asks.punch # p
      <4>1. p \notin Recorded
        BY <1>2, <2>2 DEF RecordPunch, Recorded
      <4> QED BY <1>2, <4>1 DEF RecordPunch, CorrectionInv, ApprovedAreRecorded
    <3>2. recorded'[p] = punch'[p]
      BY <1>0, <1>2, <2>2 DEF RecordPunch, TypeOK
    <3> QED BY <3>1, <3>2 DEF Shows
  <2> QED BY <2>1, <2>2
<1>3. ASSUME NEW c \in Ids, NEW status \in Statuses, Review(c, status)
      PROVE  Shows(punch[p][column], p, column, recorded[p][column])'
  <2> DEFINE asks == correction[c].asks
  <2>1. correction[c] \in Correction /\ c \in Filed /\ asks \in Proposal
    BY <1>0, <1>3 DEF Review, Filed, TypeOK, Correction
  <2>2. CASE ~Applies(asks, status)
    BY <1>1, <1>3, <2>2 DEF Review, Applies, Recorded
  <2>3. CASE Applies(asks, status)
    <3>1. /\ approvals' = Append(approvals, c)
          /\ punch' = [punch EXCEPT ![asks.punch] = Rewritten(punch[asks.punch], asks)]
          /\ recorded' = recorded /\ asks.punch \in Recorded
      BY <1>3, <2>3 DEF Review, Applies
    <3> DEFINE n == Len(approvals) + 1
               Asks(k) == correction[approvals[k]].asks
               Asks1(k) == correction'[approvals'[k]].asks
    <3>2. /\ n \in Nat /\ DOMAIN approvals = 1 .. n - 1 /\ DOMAIN approvals' = 1 .. n
          /\ approvals'[n] = c
          /\ \A k \in 1 .. n - 1 : approvals'[k] = approvals[k]
      BY <1>0, <2>1, <3>1 DEF TypeOK
    <3>3. /\ Asks1(n) = asks
          /\ \A k \in 1 .. n - 1 : Asks1(k) = Asks(k)
      BY <1>0, <2>1, <3>2, ApprovalsTyped, StepKeeps DEF Kept
    <3>4. p \in Recorded
      BY <1>0, <3>1 DEF Recorded, TypeOK
    <3>5. punch[p] \in PunchRow
      BY <1>0, <3>4 DEF Recorded, TypeOK
    <3>6. Shows(punch[p][column], p, column, recorded[p][column])
      BY <3>4 DEF CorrectionInv, PunchShowsLatestApproval, Columns
    <3>7. CASE asks.punch = p /\ asks[column] # None
      <4>1. punch'[p][column] = asks[column]
        <5>1. punch'[p] = Rewritten(punch[p], asks)
          BY <1>0, <3>1, <3>7 DEF TypeOK
        <5>2. Rewritten(punch[p], asks)[column] = asks[column]
          BY <2>1, <3>5, <3>7 DEF Rewritten, PunchRow, Proposal, Columns
        <5> QED BY <5>1, <5>2
      <4>2. n \in 1 .. n /\ \A i \in 1 .. n : i <= n
        BY <3>2
      <4> HIDE DEF n, asks
      <4> QED BY <3>2, <3>3, <3>7, <4>1, <4>2 DEF Shows
    <3>8. CASE ~(asks.punch = p /\ asks[column] # None)
      <4>1. punch'[p][column] = punch[p][column]
        <5>1. CASE asks.punch # p
          BY <1>0, <3>1, <5>1 DEF TypeOK
        <5>2. CASE asks.punch = p /\ asks[column] = None
          <6>1. punch'[p] = Rewritten(punch[p], asks)
            BY <1>0, <3>1, <5>2 DEF TypeOK
          <6>2. Rewritten(punch[p], asks)[column] = punch[p][column]
            BY <2>1, <3>5, <5>2 DEF Rewritten, PunchRow, Proposal, Columns
          <6> QED BY <6>1, <6>2
        <5> QED BY <3>8, <5>1, <5>2
      <4>2. {k \in DOMAIN approvals' : Asks1(k).punch = p /\ Asks1(k)[column] # None}
              = {k \in DOMAIN approvals : Asks(k).punch = p /\ Asks(k)[column] # None}
        <5>1. 1 .. n = 1 .. n - 1 \union {n} /\ n \notin 1 .. n - 1
          BY <3>2
        <5> HIDE DEF n, asks
        <5> QED BY <3>2, <3>3, <3>8, <5>1
      <4>3. \A k \in {i \in DOMAIN approvals : Asks(i).punch = p /\ Asks(i)[column] # None} :
              Asks1(k) = Asks(k)
        BY <3>2, <3>3
      <4>4. recorded'[p][column] = recorded[p][column]
        BY <3>1
      <4> QED BY <3>6, <4>1, <4>2, <4>3, <4>4 DEF Shows
    <3> QED BY <3>7, <3>8
  <2> QED BY <2>2, <2>3
<1>4. CASE UNCHANGED <<recorded, punch, approvals>>
  BY <1>1, <1>4 DEF Recorded
<1> QED BY <1>2, <1>3, <1>4 DEF Next, RequestCorrection, Scan, NextDay, ChangeShift, vars

------------------------------------------------------------------------------
(* Who is flagged *)

\* Of the steps only a commit of the scan flags anyone.
LEMMA FlaggedStays ==
  ASSUME TypeOK, [Next]_vars, ~(Scan /\ Commit), NEW e \in Employees, NEW d \in Days
  PROVE  Flagged(e, d)' = Flagged(e, d)
<1>1. \A c \in Filed : Kept(c)
  BY StepKeeps
<1>2. \A c \in Filed' \ Filed : correction'[c].flags = None
  <2>1. ASSUME NEW c \in Ids, NEW asks \in Proposals, RequestCorrection(c, asks)
        PROVE  \A x \in Filed' \ Filed : correction'[x].flags = None
    BY <2>1 DEF RequestCorrection, Filed, TypeOK
  <2>2. ASSUME NEW c \in Ids, NEW status \in Statuses, Review(c, status)
        PROVE  \A x \in Filed' \ Filed : correction'[x].flags = None
    BY <2>2 DEF Review, Filed, TypeOK
  <2>3. CASE UNCHANGED correction
    BY <2>3 DEF Filed
  <2> QED BY <2>1, <2>2, <2>3 DEF Next, RecordPunch, Scan, NextDay, ChangeShift, vars
<1>3. [emp |-> e, day |-> d] # None
  BY NoneIsNoRow
<1> QED BY <1>1, <1>2, <1>3 DEF Flagged, Kept

\* A commit flags each of those to be flagged once more, on the present day.
LEMMA FlaggedByScan ==
  ASSUME TypeOK, Scan, Commit, NEW e \in Employees, NEW d \in Days
  PROVE  IF e \in ToFlag /\ d = today
           THEN \E c : c \notin Flagged(e, d) /\ Flagged(e, d)' = Flagged(e, d) \union {c}
           ELSE Flagged(e, d)' = Flagged(e, d)
<1>1. PICK row \in [ToFlag -> Ids \ Filed] :
        /\ \A f \in ToFlag : row[f] \in Filed' /\ correction'[row[f]] = Flag(f)
        /\ \A c \in Filed' \ Filed, f \in ToFlag : correction'[c] = Flag(f) => c = row[f]
  BY CommitStep
<1>2. \A c \in Filed : correction'[c] = correction[c] /\ c \in Filed'
  BY CommitStep
<1>3. \A c \in Filed' \ Filed : \E f \in ToFlag : correction'[c] = Flag(f)
  BY CommitStep
<1>4. \A f : Flag(f).flags = [emp |-> f, day |-> today]
  BY DEF Flag
<1>5. \A f : Flag(f).flags = [emp |-> e, day |-> d] <=> f = e /\ d = today
  <2> SUFFICES ASSUME NEW f, [emp |-> f, day |-> today] = [emp |-> e, day |-> d]
               PROVE  f = e /\ d = today
    BY <1>4
  <2>1. [emp |-> f, day |-> today].emp = [emp |-> e, day |-> d].emp
    OBVIOUS
  <2>2. [emp |-> f, day |-> today].day = [emp |-> e, day |-> d].day
    OBVIOUS
  <2> QED BY <2>1, <2>2
<1>6. CASE e \in ToFlag /\ d = today
  <2>1. row[e] \notin Flagged(e, d)
    BY <1>1, <1>6 DEF Flagged
  <2>2. Flagged(e, d)' = Flagged(e, d) \union {row[e]}
    BY <1>1, <1>2, <1>3, <1>5, <1>6 DEF Flagged
  <2> QED BY <1>6, <2>1, <2>2
<1>7. CASE ~(e \in ToFlag /\ d = today)
  <2>1. \A c \in Filed' \ Filed : correction'[c].flags # [emp |-> e, day |-> d]
    BY <1>3, <1>5, <1>7
  <2>2. Flagged(e, d)' = Flagged(e, d)
    BY <1>2, <2>1 DEF Flagged
  <2> QED BY <1>7, <2>2
<1> QED BY <1>6, <1>7

LEMMA FlagsStep ==
  ASSUME CorrectionInv, [Next]_vars PROVE FlagsAreScanned'
<1> USE DEF CorrectionInv, TypeOK
<1>1. \A e \in Employees, d \in Days : Cardinality(Flagged(e, d)) \in Nat
  BY FS_CardinalityType DEF FlagsAreScanned
<1>2. \A d \in Days : Finished(d) \in Int
  BY DEF Finished
<1>3. CASE Scan
  <2>1. PICK onTime, dies \in BOOLEAN :
          /\ IF onTime THEN Due ELSE reruns > 0
          /\ Commit \/ UNCHANGED correction
          /\ scanned' = IF onTime THEN scanned \union {today} ELSE scanned
          /\ reruns' = (IF onTime THEN reruns ELSE reruns - 1) + (IF dies THEN 1 ELSE 0)
          /\ crashes' = IF dies THEN crashes + 1 ELSE crashes
    BY <1>3 DEF Scan
  <2>2. reruns' <= crashes'
    BY <2>1 DEF FlagsAreScanned
  <2>3. \A d \in Days : Finished(d)' >= Finished(d)
    BY <2>1 DEF Finished
  <2>4. \A d \in Days : d = today => Finished(d)' = Finished(d) + 1
    BY <2>1 DEF Finished, Due
  <2>5. ASSUME NEW e \in Employees, NEW d \in Days
        PROVE  IsFiniteSet(Flagged(e, d)') /\ Cardinality(Flagged(e, d)') <= Finished(d)'
    <3>1. CASE Flagged(e, d)' = Flagged(e, d)
      <4>1. Finished(d)' \in Int
        BY <2>1 DEF Finished
      <4> QED BY <1>1, <1>2, <2>3, <3>1, <4>1 DEF FlagsAreScanned
    <3>2. CASE Flagged(e, d)' # Flagged(e, d)
      <4>1. Commit /\ e \in ToFlag /\ d = today
        <5>1. CASE Commit
          BY <1>3, <3>2, <5>1, FlaggedByScan
        <5>2. CASE UNCHANGED correction
          BY <3>2, <5>2 DEF Flagged, Filed
        <5> QED BY <2>1, <5>1, <5>2
      <4>2. PICK c : c \notin Flagged(e, d) /\ Flagged(e, d)' = Flagged(e, d) \union {c}
        BY <1>3, <4>1, FlaggedByScan
      <4>3. IsFiniteSet(Flagged(e, d)) /\ Cardinality(Flagged(e, d)) <= Finished(d)
        BY DEF FlagsAreScanned
      <4>4. /\ IsFiniteSet(Flagged(e, d) \union {c})
            /\ Cardinality(Flagged(e, d) \union {c}) = Cardinality(Flagged(e, d)) + 1
        BY <4>2, <4>3, FS_AddElement
      <4>5. Cardinality(Flagged(e, d)) + 1 <= Finished(d) + 1
        BY <1>1, <1>2, <4>3
      <4> QED BY <2>4, <4>1, <4>2, <4>4, <4>5
    <3> QED BY <3>1, <3>2
  <2> QED BY <2>2, <2>5 DEF FlagsAreScanned
<1>4. CASE ~Scan
  <2>1. UNCHANGED <<scanned, reruns, crashes>>
    BY <1>4 DEF Next, RecordPunch, RequestCorrection, Review, NextDay, ChangeShift, vars
  <2>2. \A e \in Employees, d \in Days : Flagged(e, d)' = Flagged(e, d)
    BY <1>4, FlaggedStays
  <2> QED BY <2>1, <2>2 DEF FlagsAreScanned, Finished
<1> QED BY <1>3, <1>4

------------------------------------------------------------------------------
(* The theorems *)

LEMMA CorrectionInit == Init => CorrectionInv
<1> SUFFICES ASSUME Init PROVE CorrectionInv
  OBVIOUS
<1>1. TypeOK
  BY CorrectionConstants DEF Init, TypeOK, Days
<1>2. Recorded = {} /\ Filed = {} /\ approvals = <<>>
  BY DEF Init, Recorded, Filed
<1>3. ApprovedAreRecorded /\ PunchShowsLatestApproval
  BY <1>2 DEF ApprovedAreRecorded, PunchShowsLatestApproval
<1>4. \A e \in Employees, d \in Days : Flagged(e, d) = {}
  BY <1>2 DEF Flagged
<1>5. FlagsAreScanned
  <2>1. reruns = 0 /\ crashes = 0 /\ \A d \in Days : Finished(d) = 0
    BY DEF Init, Finished
  <2>2. IsFiniteSet({}) /\ Cardinality({}) = 0
    BY FS_EmptySet
  <2> QED BY <1>4, <2>1, <2>2 DEF FlagsAreScanned
<1> QED BY <1>1, <1>3, <1>5 DEF CorrectionInv

LEMMA CorrectionNext == CorrectionInv /\ [Next]_vars => CorrectionInv'
<1> SUFFICES ASSUME CorrectionInv, [Next]_vars PROVE CorrectionInv'
  OBVIOUS
<1>1. TypeOK'
  BY TypeStep DEF CorrectionInv
<1> QED BY <1>1, ApprovedStep, ShowsStep, FlagsStep DEF CorrectionInv

LEMMA CorrectionInvariant == Spec => []CorrectionInv
BY CorrectionInit, CorrectionNext, PTL DEF Spec

\* Type correctness.
THEOREM CorrectionTypeCorrect == Spec => []TypeOK
<1>1. CorrectionInv => TypeOK
  BY DEF CorrectionInv
<1> QED BY <1>1, CorrectionInvariant, PTL

\* What a punch shows is what was recorded and approved since, the latest approval first.
THEOREM PunchIsAccounted == Spec => []PunchShowsLatestApproval
<1>1. CorrectionInv => PunchShowsLatestApproval
  BY DEF CorrectionInv
<1> QED BY <1>1, CorrectionInvariant, PTL

\* A day's scan flags an employee once, and once more for each crash.
THEOREM FlaggedOncePerScan == Spec => []FlaggedTwiceNeedsCrash
<1>1. CorrectionInv => FlaggedTwiceNeedsCrash
  <2> SUFFICES ASSUME CorrectionInv, NEW e \in Employees, NEW d \in Days
               PROVE  Cardinality(Flagged(e, d)) <= 1 + crashes
    BY DEF FlaggedTwiceNeedsCrash
  <2>1. IsFiniteSet(Flagged(e, d)) /\ Cardinality(Flagged(e, d)) <= Finished(d)
    BY DEF CorrectionInv, FlagsAreScanned
  <2>2. Cardinality(Flagged(e, d)) \in Nat
    BY <2>1, FS_CardinalityType
  <2>3. Finished(d) <= 1 + crashes /\ Finished(d) \in Int /\ crashes \in Nat
    BY DEF Finished, CorrectionInv, TypeOK
  <2> QED BY <2>1, <2>2, <2>3
<1> QED BY <1>1, CorrectionInvariant, PTL

\* If a scan flags anyone, every employee with an unpaired check-in has been flagged.
THEOREM ScanIsAllOrNothing == Spec => ScanFlagsAllOrNobody
<1> DEFINE AllOrNobody ==
      \A e \in Employees, d \in Days :
        Flagged(e, d)' # Flagged(e, d) =>
          d = today /\ \A f \in Unpaired : Flagged(f, d)' # {}
<1>1. CorrectionInv /\ [Next]_vars => AllOrNobody
  <2> SUFFICES ASSUME CorrectionInv, [Next]_vars, NEW e \in Employees, NEW d \in Days,
                      Flagged(e, d)' # Flagged(e, d)
               PROVE  d = today /\ \A f \in Unpaired : Flagged(f, d)' # {}
    OBVIOUS
  <2>1. TypeOK
    BY DEF CorrectionInv
  <2>2. Scan /\ Commit
    BY <2>1, FlaggedStays
  <2>3. e \in ToFlag /\ d = today
    BY <2>1, <2>2, FlaggedByScan
  <2>4. ToFlag = Unpaired
    BY <2>3 DEF ToFlag
  <2>5. \A f \in Unpaired : f \in Employees
    BY DEF Unpaired
  <2>6. \A f \in Unpaired : Flagged(f, d)' # {}
    <3> SUFFICES ASSUME NEW f \in Unpaired PROVE Flagged(f, d)' # {}
      OBVIOUS
    <3>1. PICK c : c \notin Flagged(f, d) /\ Flagged(f, d)' = Flagged(f, d) \union {c}
      BY <2>1, <2>2, <2>3, <2>4, <2>5, FlaggedByScan
    <3> QED BY <3>1
  <2> QED BY <2>3, <2>6
<1> QED BY <1>1, CorrectionInvariant, PTL DEF Spec, ScanFlagsAllOrNobody
==============================================================================
