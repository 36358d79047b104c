-------------------------- MODULE SmokeBatchProofs --------------------------
(***************************************************************************)
(* However often the batch driver is killed and started again, its summary *)
(* agrees with the files, and what is done is not done again: for any      *)
(* tasks, arms, models and verdicts, and any number of invocations.        *)
(***************************************************************************)
EXTENDS SmokeBatch, TLAPS

(* What the scan has looked at. *)
LookedAt(p) ==
  p \in PlacesAsked /\ (p[1] < place[1] \/ (p[1] = place[1] /\ p[2] < place[2]))

(* A place is in one of the two lists, once.                                *)
Apart(res, pen) ==
  /\ \A k, l \in 1 .. Len(res) : res[k].at = res[l].at => k = l
  /\ \A k, l \in 1 .. Len(pen) : pen[k] = pen[l] => k = l
  /\ \A k \in 1 .. Len(res), l \in 1 .. Len(pen) : res[k].at # pen[l]

Listed(p, res, pen) ==
  (\E k \in 1 .. Len(res) : res[k].at = p) \/ (\E k \in 1 .. Len(pen) : pen[k] = p)

Reusable(ta, files, key) == Complete(files[ta]) /\ files[ta].key = key

(* The trajectory of a result is on disk unless it is just being written    *)
(* again; its verdict is that of the result, or of a later one.             *)
Recorded(k) ==
  LET r == results[k] IN
    \/ mode = "writing" /\ r.ta = Current
    \/ /\ Reusable(r.ta, disk, config[1])
       /\ \/ disk[r.ta].verdict = r.verdict
          \/ \E l \in 1 .. Len(results) : l > k /\ results[l].ta = r.ta

(* What is still to run has no trajectory of this model and seed, unless    *)
(* the invocation has made it itself.                                       *)
Made(ta, res) == \E k \in 1 .. Len(res) : res[k].ta = ta /\ ~res[k].cached
ToRun(k) == Reusable(TaskArm(pending[k]), disk, config[1]) => Made(TaskArm(pending[k]), results)

(* What was reused is not to be run.                                        *)
NotToRun(k) ==
  results[k].cached =>
    \A l \in 1 .. Len(pending) : TaskArm(pending[l]) # results[k].ta

ListsInv ==
  /\ Apart(results, pending)
  /\ \A p : LookedAt(p) <=> Listed(p, results, pending)
  /\ \A k \in 1 .. Len(results) : results[k].ta = TaskArm(results[k].at)
  /\ \A k \in 1 .. Len(results) : Recorded(k)
  /\ \A k \in 1 .. Len(pending) : ToRun(k)
  /\ \A k \in 1 .. Len(results) : NotToRun(k)
  /\ mode = "scanning" => \A k \in 1 .. Len(results) : results[k].cached

SmokeInv ==
  /\ SmokeTypeOK
  /\ mode # "off" => ListsInv
  /\ mode \notin {"off", "scanning"} => Scanned
  /\ mode \in {"task", "writing"} => pending # <<>>
  /\ mode \in {"closing", "done"} => pending = <<>>
  /\ mode = "done" => summary = [state |-> "complete", results |-> results]

-----------------------------------------------------------------------------
(* The two lists grow by one, or the first of one goes to the end of the    *)
(* other.                                                                   *)

LEMMA AppendFacts ==
  ASSUME NEW S, NEW s \in Seq(S), NEW x \in S
  PROVE  /\ Append(s, x) \in Seq(S) /\ Len(Append(s, x)) = Len(s) + 1 /\ Len(s) \in Nat
         /\ Append(s, x)[Len(s) + 1] = x
         /\ \A k \in 1 .. Len(s) : Append(s, x)[k] = s[k]
         /\ \A k \in 1 .. Len(s) + 1 : k \in 1 .. Len(s) \/ k = Len(s) + 1
OBVIOUS

LEMMA TailFacts ==
  ASSUME NEW S, NEW s \in Seq(S), s # <<>>
  PROVE  /\ Tail(s) \in Seq(S) /\ Len(Tail(s)) = Len(s) - 1 /\ Len(s) \in Nat \ {0}
         /\ Head(s) = s[1] /\ 1 \in 1 .. Len(s)
         /\ \A k \in 1 .. Len(Tail(s)) : Tail(s)[k] = s[k + 1] /\ k + 1 \in 2 .. Len(s)
         /\ \A k \in 2 .. Len(s) : k - 1 \in 1 .. Len(Tail(s)) /\ Tail(s)[k - 1] = s[k]
OBVIOUS

LEMMA ListResult ==
  ASSUME NEW res \in Seq(ResultType), NEW S, NEW pen \in Seq(S), Apart(res, pen),
         NEW r \in ResultType, ~Listed(r.at, res, pen)
  PROVE  /\ Apart(Append(res, r), pen)
         /\ \A q : Listed(q, Append(res, r), pen) <=> Listed(q, res, pen) \/ q = r.at
<1> DEFINE new == Append(res, r)
<1>1. /\ Len(new) = Len(res) + 1 /\ Len(res) \in Nat /\ new[Len(res) + 1] = r
      /\ \A k \in 1 .. Len(res) : new[k] = res[k]
      /\ \A k \in 1 .. Len(res) + 1 : k \in 1 .. Len(res) \/ k = Len(res) + 1
  BY AppendFacts
<1> HIDE DEF new
<1>2. \A k \in 1 .. Len(res) : k \in 1 .. Len(new)
  BY <1>1
<1>3. Len(res) + 1 \in 1 .. Len(new)
  BY <1>1
<1>4. Apart(new, pen)
  <2>1. \A k \in 1 .. Len(res) : res[k].at # r.at
    BY DEF Listed
  <2>2. \A l \in 1 .. Len(pen) : pen[l] # r.at
    BY DEF Listed
  <2>3. \A k, l \in 1 .. Len(new) : new[k].at = new[l].at => k = l
    BY <1>1, <2>1 DEF Apart
  <2>4. \A k \in 1 .. Len(new), l \in 1 .. Len(pen) : new[k].at # pen[l]
    BY <1>1, <2>2 DEF Apart
  <2> QED
    BY <2>3, <2>4 DEF Apart
<1>5. \A q : Listed(q, new, pen) <=> Listed(q, res, pen) \/ q = r.at
  BY <1>1, <1>2, <1>3 DEF Listed
<1> QED
  BY <1>4, <1>5 DEF new

LEMMA ListPending ==
  ASSUME NEW res \in Seq(ResultType), NEW S, NEW pen \in Seq(S), Apart(res, pen),
         NEW p \in S, ~Listed(p, res, pen)
  PROVE  /\ Apart(res, Append(pen, p))
         /\ \A u : Listed(u, res, Append(pen, p)) <=> Listed(u, res, pen) \/ u = p
<1> DEFINE new == Append(pen, p)
<1>1. /\ Len(new) = Len(pen) + 1 /\ Len(pen) \in Nat /\ new[Len(pen) + 1] = p
      /\ \A k \in 1 .. Len(pen) : new[k] = pen[k]
      /\ \A k \in 1 .. Len(pen) + 1 : k \in 1 .. Len(pen) \/ k = Len(pen) + 1
  BY AppendFacts
<1> HIDE DEF new
<1>2. \A k \in 1 .. Len(pen) : k \in 1 .. Len(new)
  BY <1>1
<1>3. Len(pen) + 1 \in 1 .. Len(new)
  BY <1>1
<1>4. Apart(res, new)
  BY <1>1 DEF Apart, Listed
<1>5. \A u : Listed(u, res, new) <=> Listed(u, res, pen) \/ u = p
  BY <1>1, <1>2, <1>3 DEF Listed
<1> QED
  BY <1>4, <1>5 DEF new

LEMMA ListMove ==
  ASSUME NEW res \in Seq(ResultType), NEW S, NEW pen \in Seq(S), Apart(res, pen), pen # <<>>,
         NEW r \in ResultType, r.at = Head(pen)
  PROVE  /\ Apart(Append(res, r), Tail(pen))
         /\ \A q : Listed(q, Append(res, r), Tail(pen)) <=> Listed(q, res, pen)
<1> DEFINE rest == Tail(pen)
<1>1. /\ rest \in Seq(S) /\ Len(rest) = Len(pen) - 1 /\ Len(pen) \in Nat \ {0}
      /\ Head(pen) = pen[1] /\ 1 \in 1 .. Len(pen)
      /\ \A k \in 1 .. Len(rest) : rest[k] = pen[k + 1] /\ k + 1 \in 2 .. Len(pen)
      /\ \A k \in 2 .. Len(pen) : k - 1 \in 1 .. Len(rest) /\ rest[k - 1] = pen[k]
  BY TailFacts
<1> HIDE DEF rest
<1>2. \A k \in 2 .. Len(pen) : k \in 1 .. Len(pen) /\ k # 1
  OBVIOUS
<1>3. \A k \in 1 .. Len(pen) : k = 1 \/ k \in 2 .. Len(pen)
  OBVIOUS
<1>4. \A k, l \in 1 .. Len(rest) : rest[k] = rest[l] => k = l
  BY <1>1, <1>2 DEF Apart
<1>5. Apart(res, rest)
  BY <1>1, <1>2, <1>4 DEF Apart
<1>6. ~Listed(r.at, res, rest)
  BY <1>1, <1>2 DEF Apart, Listed
<1>7. \A q : Listed(q, res, pen) <=> Listed(q, res, rest) \/ q = r.at
  BY <1>1, <1>2, <1>3 DEF Listed
<1> QED
  BY <1>1, <1>5, <1>6, <1>7, ListResult DEF rest

-----------------------------------------------------------------------------
(* The scan looks at every place once.                                       *)
LEMMA Looking ==
  ASSUME SmokeTypeOK, mode = "scanning", ~Scanned, Advance, asked' = asked
  PROVE  /\ place \in PlacesAsked /\ ~LookedAt(place) /\ Here \in TaskArms
         /\ \A p : LookedAt(p)' <=> LookedAt(p) \/ p = place
         /\ place' \in (1 .. asked.n + 1) \X (1 .. Len(asked.arms))
<1>1. /\ asked.n \in 0 .. Len(Tasks) /\ asked.arms \in ArmLists
      /\ Len(Tasks) \in Nat /\ Len(asked.arms) \in Nat
      /\ place[1] \in 1 .. asked.n /\ place[2] \in 1 .. Len(asked.arms)
      /\ place = <<place[1], place[2]>>
  BY TasksAssumption, ArmsAssumption DEF SmokeTypeOK, Scanned
<1>2. DOMAIN Tasks = 1 .. Len(Tasks) /\ DOMAIN asked.arms = 1 .. Len(asked.arms)
  BY <1>1, TasksAssumption, ArmsAssumption
<1>3. Here \in TaskArms
  BY <1>1, <1>2 DEF Here, TaskArm, TaskArms, ToSet
<1>4. place \in PlacesAsked
  BY <1>1 DEF PlacesAsked
<1>5. ~LookedAt(place)
  BY <1>1 DEF LookedAt
<1>6. /\ place[2] < Len(asked.arms) => place'[1] = place[1] /\ place'[2] = place[2] + 1
      /\ ~(place[2] < Len(asked.arms)) => place'[1] = place[1] + 1 /\ place'[2] = 1
      /\ place' = <<place'[1], place'[2]>>
  BY DEF Advance
<1>7. ASSUME NEW i \in 1 .. asked.n, NEW j \in 1 .. Len(asked.arms)
      PROVE  (i < place'[1] \/ (i = place'[1] /\ j < place'[2])) <=>
               \/ i < place[1] \/ (i = place[1] /\ j < place[2])
               \/ i = place[1] /\ j = place[2]
  BY <1>1, <1>6
<1>8. \A p : LookedAt(p)' <=> LookedAt(p) \/ p = place
  <2> TAKE p
  <2>1. CASE p \in PlacesAsked
    <3>1. PICK i \in 1 .. asked.n, j \in 1 .. Len(asked.arms) : p = <<i, j>>
      BY <2>1 DEF PlacesAsked
    <3>2. p[1] = i /\ p[2] = j /\ (p = place <=> i = place[1] /\ j = place[2])
      BY <1>1, <3>1
    <3>3. PlacesAsked' = PlacesAsked
      BY DEF PlacesAsked
    <3> QED
      BY <1>7, <2>1, <3>2, <3>3 DEF LookedAt
  <2>2. CASE p \notin PlacesAsked
    BY <1>4, <2>2 DEF LookedAt, PlacesAsked
  <2> QED
    BY <2>1, <2>2
<1>9. place' \in (1 .. asked.n + 1) \X (1 .. Len(asked.arms))
  BY <1>1, <1>6
<1> QED
  BY <1>3, <1>4, <1>5, <1>8, <1>9

-----------------------------------------------------------------------------
(* THE INVARIANT                                                           *)

LEMMA Trajectories ==
  /\ Absent \in Files /\ Partial \in Files /\ ~Complete(Absent) /\ ~Complete(Partial)
  /\ \A c \in Config, v \in Verdicts :
       /\ Trajectory(c[1], c[2], v) \in Files /\ Complete(Trajectory(c[1], c[2], v))
       /\ Trajectory(c[1], c[2], v).key = c[1] /\ Trajectory(c[1], c[2], v).verdict = v
  /\ \A file \in Files : Complete(file) => file.verdict \in Verdicts /\ file.setting \in Settings
BY DEF Files, Absent, Partial, Trajectory, Complete, Config

LEMMA SmokeInitInv == SmokeInit => SmokeInv
<1> SUFFICES ASSUME SmokeInit PROVE SmokeInv
  OBVIOUS
<1>1. Len(Tasks) \in Nat /\ <<>> \in Seq(PlacesAsked) /\ <<>> \in Seq(ResultType)
  BY TasksAssumption
<1>2. disk \in [TaskArms -> Files]
  BY Trajectories DEF SmokeInit
<1>3. /\ asked \in [n: 0 .. Len(Tasks), arms: ArmLists \cup {<<>>}]
      /\ place \in (1 .. asked.n + 1) \X (1 .. Len(asked.arms) + 1)
  BY <1>1 DEF SmokeInit, Nothing
<1> QED
  BY <1>1, <1>2, <1>3, LaunchesAssumption DEF SmokeInit, SmokeInv, SmokeTypeOK

LEMMA LaunchStep ==
  ASSUME SmokeInv, NEW c \in Config, NEW n \in 1 .. Len(Tasks), NEW arms \in ArmLists,
         Launch(c, n, arms)
  PROVE  SmokeInv'
<1>1. /\ mode' = "scanning" /\ config' = c /\ asked' = [n |-> n, arms |-> arms]
      /\ place' = <<1, 1>> /\ pending' = <<>> /\ results' = <<>> /\ disk' = disk
      /\ launches < MaxLaunches /\ launches' = launches + 1
  BY DEF Launch
<1>2. Len(Tasks) \in Nat /\ Len(arms) \in Nat \ {0}
  BY TasksAssumption, ArmsAssumption
<1>3. SmokeTypeOK'
  <2>1. launches' \in 0 .. MaxLaunches
    BY <1>1, LaunchesAssumption DEF SmokeInv, SmokeTypeOK
  <2>2. /\ asked' \in [n: 0 .. Len(Tasks), arms: ArmLists \cup {<<>>}]
        /\ asked'.n = n /\ asked'.arms = arms
    BY <1>1, <1>2
  <2>3. place' \in (1 .. n + 1) \X (1 .. Len(arms) + 1) /\ place'[2] <= Len(arms)
    BY <1>1, <1>2
  <2> QED
    BY <1>1, <2>1, <2>2, <2>3 DEF SmokeInv, SmokeTypeOK
<1>4. ListsInv'
  <2>1. \A ta : ~LookedAt(ta)'
    <3>1. \A i \in 1 .. n, j \in 1 .. Len(arms) : ~(i < 1 \/ (i = 1 /\ j < 1))
      BY <1>2
    <3>2. /\ place'[1] = 1 /\ place'[2] = 1
          /\ \A p \in PlacesAsked' : p[1] \in 1 .. n /\ p[2] \in 1 .. Len(arms)
      BY <1>1 DEF PlacesAsked
    <3> QED
      BY <3>1, <3>2 DEF LookedAt
  <2> QED
    BY <1>1, <2>1 DEF ListsInv, Apart, Listed
<1> QED
  BY <1>1, <1>3, <1>4 DEF SmokeInv

(* What the two lists are while the cache is scanned. *)
LEMMA Scanning ==
  ASSUME SmokeInv, mode = "scanning"
  PROVE  /\ SmokeTypeOK /\ ListsInv
         /\ results \in Seq(ResultType) /\ pending \in Seq(PlacesAsked)
         /\ \A k \in 1 .. Len(results) :
              results[k].cached /\ Reusable(results[k].ta, disk, config[1])
         /\ \A k \in 1 .. Len(pending) : ~Reusable(TaskArm(pending[k]), disk, config[1])
BY DEF SmokeInv, SmokeTypeOK, ListsInv, Recorded, ToRun, Made

LEMMA ScanReused == ASSUME SmokeInv, Scan, Cached(Here, config[1]) PROVE SmokeInv'
<1> DEFINE r == [at |-> place, ta |-> Here, verdict |-> disk[Here].verdict,
                 setting |-> disk[Here].setting, cached |-> TRUE]
<1>1. /\ mode = "scanning" /\ mode' = mode /\ ~Scanned /\ Advance /\ asked' = asked
      /\ config' = config /\ disk' = disk /\ launches' = launches
      /\ results' = Append(results, r) /\ pending' = pending
  BY DEF Scan
<1>2. /\ SmokeTypeOK /\ ListsInv
      /\ results \in Seq(ResultType) /\ pending \in Seq(PlacesAsked)
      /\ \A k \in 1 .. Len(results) : results[k].cached /\ Reusable(results[k].ta, disk, config[1])
      /\ \A k \in 1 .. Len(pending) : ~Reusable(TaskArm(pending[k]), disk, config[1])
  BY <1>1, Scanning
<1>3. /\ place \in PlacesAsked /\ ~Listed(place, results, pending) /\ Here \in TaskArms
      /\ \A p : LookedAt(p)' <=> LookedAt(p) \/ p = place
      /\ place' \in (1 .. asked.n + 1) \X (1 .. Len(asked.arms))
  BY <1>1, <1>2, Looking DEF ListsInv
<1>4. /\ asked.n \in Nat /\ Len(asked.arms) \in Nat
      /\ place' \in (1 .. asked.n + 1) \X (1 .. Len(asked.arms) + 1)
      /\ place'[2] <= Len(asked.arms) /\ place \in Nat \X Nat /\ PlacesAsked' = PlacesAsked
  BY <1>1, <1>2, <1>3, TasksAssumption, ArmsAssumption DEF SmokeTypeOK, PlacesAsked
<1>5. disk[Here] \in Files
  BY <1>2, <1>3 DEF SmokeTypeOK
<1>6. disk[Here].verdict \in Verdicts /\ disk[Here].setting \in Settings
  BY <1>5, Trajectories DEF Cached
<1>7. /\ r \in ResultType /\ r.at = place /\ r.ta = Here /\ r.cached
      /\ r.verdict = disk[Here].verdict /\ Reusable(Here, disk, config[1])
  BY <1>3, <1>4, <1>6 DEF ResultType, Cached, Reusable
<1> HIDE DEF r
<1>8. /\ results' \in Seq(ResultType) /\ Len(results') = Len(results) + 1 /\ Len(results) \in Nat
      /\ results'[Len(results) + 1] = r
      /\ \A k \in 1 .. Len(results) : results'[k] = results[k]
      /\ \A k \in 1 .. Len(results) + 1 : k \in 1 .. Len(results) \/ k = Len(results) + 1
  BY <1>1, <1>2, <1>7, AppendFacts
<1>9. /\ Apart(results', pending')
      /\ \A p : Listed(p, results', pending') <=> Listed(p, results, pending) \/ p = place
  BY <1>1, <1>2, <1>3, <1>7, ListResult DEF ListsInv
<1>10. /\ \A p : TaskArm(p)' = TaskArm(p)
       /\ \A ta : Reusable(ta, disk', config'[1]) <=> Reusable(ta, disk, config[1])
  BY <1>1 DEF TaskArm, Reusable
<1>11. ASSUME NEW k \in 1 .. Len(results')
       PROVE  /\ results'[k].ta = TaskArm(results'[k].at) /\ Recorded(k)'
              /\ results'[k].cached /\ Reusable(results'[k].ta, disk', config'[1])
  <2>1. CASE k \in 1 .. Len(results)
    <3>1. results'[k] = results[k] /\ Recorded(k) /\ results[k].ta = TaskArm(results[k].at)
      BY <1>2, <1>8, <2>1 DEF ListsInv
    <3>2. \/ disk[results[k].ta].verdict = results[k].verdict
          \/ \E l \in 1 .. Len(results) : l > k /\ results[l].ta = results[k].ta
      BY <1>1, <3>1 DEF Recorded
    <3>3. \A l \in 1 .. Len(results) : l \in 1 .. Len(results') /\ results'[l] = results[l]
      BY <1>8
    <3>4. Recorded(k)'
      BY <1>1, <1>2, <1>10, <2>1, <3>1, <3>2, <3>3 DEF Recorded
    <3> QED
      BY <1>2, <1>10, <2>1, <3>1, <3>4
  <2>2. CASE k = Len(results) + 1
    <3>1. results'[k] = r
      BY <1>8, <2>2
    <3> QED
      BY <1>1, <1>7, <1>10, <3>1 DEF Recorded, Here
  <2> QED
    BY <1>8, <2>1, <2>2
<1>12. \A k \in 1 .. Len(pending') : ~Reusable(TaskArm(pending'[k]), disk', config'[1])
  BY <1>1, <1>2, <1>10
<1>13. ListsInv'
  <2>1. \A p : LookedAt(p)' <=> Listed(p, results', pending')
    BY <1>2, <1>3, <1>9 DEF ListsInv
  <2>2. \A k \in 1 .. Len(pending') : ToRun(k)'
    BY <1>1, <1>12 DEF ToRun, TaskArm
  <2>3. \A k \in 1 .. Len(results') : NotToRun(k)'
    <3> SUFFICES ASSUME NEW k \in 1 .. Len(results'), NEW l \in 1 .. Len(pending')
                 PROVE  TaskArm(pending'[l]) # results'[k].ta
      BY <1>1 DEF NotToRun, TaskArm
    <3>1. /\ Reusable(results'[k].ta, disk', config'[1])
          /\ ~Reusable(TaskArm(pending'[l]), disk', config'[1])
      BY <1>11, <1>12
    <3> QED
      BY <3>1
  <2> QED
    BY <1>1, <1>9, <1>11, <2>1, <2>2, <2>3 DEF ListsInv, TaskArm
<1>14. SmokeTypeOK'
  BY <1>1, <1>2, <1>4, <1>8 DEF SmokeTypeOK
<1> QED
  BY <1>1, <1>13, <1>14 DEF SmokeInv

LEMMA ScanPending == ASSUME SmokeInv, Scan, ~Cached(Here, config[1]) PROVE SmokeInv'
<1>1. /\ mode = "scanning" /\ mode' = mode /\ ~Scanned /\ Advance /\ asked' = asked
      /\ config' = config /\ disk' = disk /\ launches' = launches
      /\ pending' = Append(pending, place) /\ results' = results
  BY DEF Scan
<1>2. /\ SmokeTypeOK /\ ListsInv
      /\ results \in Seq(ResultType) /\ pending \in Seq(PlacesAsked)
      /\ \A k \in 1 .. Len(results) : results[k].cached /\ Reusable(results[k].ta, disk, config[1])
      /\ \A k \in 1 .. Len(pending) : ~Reusable(TaskArm(pending[k]), disk, config[1])
  BY <1>1, Scanning
<1>3. /\ place \in PlacesAsked /\ ~Listed(place, results, pending) /\ Here \in TaskArms
      /\ \A p : LookedAt(p)' <=> LookedAt(p) \/ p = place
      /\ place' \in (1 .. asked.n + 1) \X (1 .. Len(asked.arms))
  BY <1>1, <1>2, Looking DEF ListsInv
<1>4. /\ asked.n \in Nat /\ Len(asked.arms) \in Nat
      /\ place' \in (1 .. asked.n + 1) \X (1 .. Len(asked.arms) + 1)
      /\ place'[2] <= Len(asked.arms) /\ PlacesAsked' = PlacesAsked
  BY <1>1, <1>2, <1>3, TasksAssumption, ArmsAssumption DEF SmokeTypeOK, PlacesAsked
<1>5. /\ pending' \in Seq(PlacesAsked) /\ Len(pending') = Len(pending) + 1
      /\ pending'[Len(pending) + 1] = place
      /\ \A k \in 1 .. Len(pending) : pending'[k] = pending[k]
      /\ \A k \in 1 .. Len(pending) + 1 : k \in 1 .. Len(pending) \/ k = Len(pending) + 1
  BY <1>1, <1>2, <1>3, AppendFacts
<1>6. /\ Apart(results', pending')
      /\ \A p : Listed(p, results', pending') <=> Listed(p, results, pending) \/ p = place
  BY <1>1, <1>2, <1>3, ListPending DEF ListsInv
<1>7. /\ \A p : TaskArm(p)' = TaskArm(p)
      /\ \A ta : Reusable(ta, disk', config'[1]) <=> Reusable(ta, disk, config[1])
      /\ ~Reusable(TaskArm(place), disk, config[1])
  BY <1>1 DEF TaskArm, Reusable, Here, Cached
<1>8. \A k \in 1 .. Len(pending') : ~Reusable(TaskArm(pending'[k]), disk', config'[1])
  BY <1>2, <1>5, <1>7
<1>9. ListsInv'
  <2>1. \A p : LookedAt(p)' <=> Listed(p, results', pending')
    BY <1>2, <1>3, <1>6 DEF ListsInv
  <2>2. \A k \in 1 .. Len(pending') : ToRun(k)'
    BY <1>1, <1>8 DEF ToRun, TaskArm
  <2>3. \A k \in 1 .. Len(results') : NotToRun(k)'
    BY <1>1, <1>2, <1>7, <1>8 DEF NotToRun
  <2>4. \A k \in 1 .. Len(results') : Recorded(k)'
    BY <1>1, <1>2, <1>7 DEF ListsInv, Recorded
  <2> QED
    BY <1>1, <1>2, <1>6, <1>7, <2>1, <2>2, <2>3, <2>4 DEF ListsInv
<1>10. SmokeTypeOK'
  BY <1>1, <1>2, <1>4, <1>5 DEF SmokeTypeOK
<1> QED
  BY <1>1, <1>9, <1>10 DEF SmokeInv

(* What is known while the first pending task-arm runs. *)
LEMMA InTask ==
  ASSUME SmokeInv, mode \in {"task", "writing"}
  PROVE  /\ SmokeTypeOK /\ ListsInv
         /\ results \in Seq(ResultType) /\ pending \in Seq(PlacesAsked) /\ pending # <<>>
         /\ Head(pending) = pending[1] /\ 1 \in 1 .. Len(pending)
         /\ Head(pending) \in PlacesAsked /\ Head(pending) \in Nat \X Nat
         /\ Current = TaskArm(Head(pending)) /\ Current \in TaskArms
         /\ \A k \in 1 .. Len(pending) : TaskArm(pending[k]) \in TaskArms
         /\ \A k \in 1 .. Len(results) : results[k].ta \in TaskArms
<1>1. /\ results \in Seq(ResultType) /\ pending \in Seq(PlacesAsked) /\ pending # <<>>
      /\ SmokeTypeOK /\ ListsInv /\ asked.arms \in ArmLists /\ asked.n \in 0 .. Len(Tasks)
  BY DEF SmokeInv, SmokeTypeOK
<1>2. Head(pending) = pending[1] /\ 1 \in 1 .. Len(pending)
  BY <1>1, TailFacts
<1>3. \A k \in 1 .. Len(pending) : pending[k] \in PlacesAsked
  BY <1>1
<1>4. ASSUME NEW p \in PlacesAsked
      PROVE  TaskArm(p) \in TaskArms /\ p \in Nat \X Nat
  <2>1. /\ p[1] \in 1 .. asked.n /\ p[2] \in 1 .. Len(asked.arms) /\ p = <<p[1], p[2]>>
        /\ asked.n \in Nat /\ Len(Tasks) \in Nat /\ asked.n <= Len(Tasks) /\ Len(asked.arms) \in Nat
    BY <1>1, <1>4, TasksAssumption, ArmsAssumption DEF PlacesAsked
  <2>2. DOMAIN Tasks = 1 .. Len(Tasks) /\ DOMAIN asked.arms = 1 .. Len(asked.arms)
    BY <1>1, TasksAssumption, ArmsAssumption
  <2>3. p[1] \in DOMAIN Tasks
    BY <2>1, <2>2
  <2> QED
    BY <1>1, <2>1, <2>2, <2>3 DEF TaskArm, TaskArms, ToSet
<1>5. \A k \in 1 .. Len(results) : results[k].ta \in TaskArms
  <2>1. \A k \in 1 .. Len(results) : results[k] \in ResultType
    BY <1>1
  <2> QED
    BY <2>1 DEF ResultType
<1> QED
  BY <1>1, <1>2, <1>3, <1>4, <1>5 DEF Current

LEMMA TruncateStep == ASSUME SmokeInv, TruncateTrajectory PROVE SmokeInv'
<1>1. /\ mode = "task" /\ mode' = "writing" /\ disk' = [disk EXCEPT ![Current] = Partial]
      /\ UNCHANGED <<config, asked, place, pending, results, summary, launches>>
  BY DEF TruncateTrajectory
<1>2. /\ SmokeTypeOK /\ ListsInv /\ Current \in TaskArms /\ pending # <<>>
      /\ \A k \in 1 .. Len(pending) : TaskArm(pending[k]) \in TaskArms
      /\ \A k \in 1 .. Len(results) : results[k].ta \in TaskArms
  BY <1>1, InTask
<1>3. /\ disk' \in [TaskArms -> Files] /\ disk'[Current] = Partial
      /\ \A ta \in TaskArms : ta # Current => disk'[ta] = disk[ta]
  BY <1>1, <1>2, Trajectories DEF SmokeTypeOK
<1>4. /\ \A p : TaskArm(p)' = TaskArm(p)
      /\ Current' = Current /\ PlacesAsked' = PlacesAsked
      /\ ~Reusable(Current, disk', config'[1])
      /\ \A ta \in TaskArms :
           ta # Current => (Reusable(ta, disk', config'[1]) <=> Reusable(ta, disk, config[1]))
      /\ \A ta : Made(ta, results') <=> Made(ta, results)
  BY <1>1, <1>3, Trajectories DEF TaskArm, Current, PlacesAsked, Reusable, Made
<1>5. SmokeTypeOK'
  BY <1>1, <1>2, <1>3, <1>4 DEF SmokeTypeOK
<1>6. ASSUME NEW k \in 1 .. Len(results)
      PROVE  Recorded(k)'
  <2>1. CASE results[k].ta = Current
    BY <1>1, <1>4, <2>1 DEF Recorded
  <2>2. CASE results[k].ta # Current
    <3>1. Recorded(k) /\ disk'[results[k].ta] = disk[results[k].ta]
      BY <1>2, <1>3, <1>6, <2>2 DEF ListsInv
    <3>2. Reusable(results[k].ta, disk', config'[1]) <=> Reusable(results[k].ta, disk, config[1])
      BY <1>2, <1>4, <1>6, <2>2
    <3> QED
      BY <1>1, <2>2, <3>1, <3>2 DEF Recorded
  <2> QED
    BY <2>1, <2>2
<1>7. ASSUME NEW k \in 1 .. Len(pending)
      PROVE  ToRun(k)'
  <2>1. ToRun(k) /\ TaskArm(pending[k]) \in TaskArms
    BY <1>2, <1>7 DEF ListsInv
  <2>2. TaskArm(pending'[k]) = TaskArm(pending[k])
    BY <1>1, <1>4
  <2>3. Reusable(TaskArm(pending[k]), disk', config'[1]) => Made(TaskArm(pending[k]), results)
    BY <1>4, <2>1 DEF ToRun
  <2>4. Reusable(TaskArm(pending[k]), disk', config'[1]) => Made(TaskArm(pending[k]), results')
    BY <1>4, <2>3
  <2> QED
    BY <1>1, <1>4, <2>2, <2>4 DEF ToRun
<1>8. \A k \in 1 .. Len(results) : NotToRun(k)'
  BY <1>1, <1>2, <1>4 DEF ListsInv, NotToRun
<1>9. \A p : LookedAt(p)' <=> LookedAt(p)
  BY <1>1, <1>4 DEF LookedAt
<1>10. ListsInv'
  BY <1>1, <1>2, <1>4, <1>6, <1>7, <1>8, <1>9 DEF ListsInv
<1> QED
  BY <1>1, <1>2, <1>5, <1>10 DEF SmokeInv, Scanned

LEMMA WriteStep ==
  ASSUME SmokeInv, NEW v \in Verdicts, WriteTrajectory(v)
  PROVE  SmokeInv'
<1> DEFINE file == Trajectory(config[1], config[2], v)
           r == [at |-> Head(pending), ta |-> Current, verdict |-> v,
                 setting |-> config[2], cached |-> FALSE]
<1>1. /\ mode = "writing" /\ mode' = "running" /\ disk' = [disk EXCEPT ![Current] = file]
      /\ results' = Append(results, r) /\ pending' = Tail(pending)
      /\ UNCHANGED <<config, asked, place, summary, launches>>
  BY DEF WriteTrajectory
<1>2. /\ SmokeTypeOK /\ ListsInv
      /\ results \in Seq(ResultType) /\ pending \in Seq(PlacesAsked) /\ pending # <<>>
      /\ Head(pending) \in Nat \X Nat
      /\ Current = TaskArm(Head(pending)) /\ Current \in TaskArms
      /\ \A k \in 1 .. Len(pending) : TaskArm(pending[k]) \in TaskArms
      /\ \A k \in 1 .. Len(results) : results[k].ta \in TaskArms
  BY <1>1, InTask
<1>3. config \in Config /\ disk \in [TaskArms -> Files]
  BY <1>2 DEF SmokeTypeOK
<1>4. /\ file \in Files /\ Complete(file) /\ file.key = config[1] /\ file.verdict = v
      /\ config[2] \in Settings
  BY <1>3, Trajectories DEF Config
<1>5. /\ r \in ResultType /\ r.at = Head(pending) /\ r.ta = Current /\ r.verdict = v
      /\ ~r.cached
  BY <1>2, <1>4 DEF ResultType
<1> HIDE DEF r, file
<1>6. /\ disk' \in [TaskArms -> Files] /\ disk'[Current] = file
      /\ \A ta \in TaskArms : ta # Current => disk'[ta] = disk[ta]
  BY <1>1, <1>2, <1>3, <1>4
<1>7. /\ results' \in Seq(ResultType) /\ Len(results') = Len(results) + 1 /\ Len(results) \in Nat
      /\ results'[Len(results) + 1] = r
      /\ \A k \in 1 .. Len(results) : results'[k] = results[k]
      /\ \A k \in 1 .. Len(results) + 1 : k \in 1 .. Len(results) \/ k = Len(results) + 1
  BY <1>1, <1>2, <1>5, AppendFacts
<1>8. /\ pending' \in Seq(PlacesAsked)
      /\ \A k \in 1 .. Len(pending') : pending'[k] = pending[k + 1] /\ k + 1 \in 2 .. Len(pending)
  BY <1>1, <1>2, TailFacts
<1>9. /\ Apart(results', pending')
      /\ \A p : Listed(p, results', pending') <=> Listed(p, results, pending)
  BY <1>1, <1>2, <1>5, ListMove DEF ListsInv
<1>10. /\ \A k \in 1 .. Len(results) : k \in 1 .. Len(results') /\ results'[k] = results[k]
       /\ Len(results) + 1 \in 1 .. Len(results')
       /\ \A k \in 1 .. Len(results) : Len(results) + 1 > k
  BY <1>7
<1>11. /\ \A p : TaskArm(p)' = TaskArm(p)
       /\ PlacesAsked' = PlacesAsked /\ Reusable(Current, disk', config'[1])
       /\ \A ta \in TaskArms :
            ta # Current => (Reusable(ta, disk', config'[1]) <=> Reusable(ta, disk, config[1]))
  BY <1>1, <1>4, <1>6 DEF TaskArm, PlacesAsked, Reusable
<1>12. /\ \A ta : Made(ta, results) => Made(ta, results')
       /\ Made(Current, results')
  BY <1>5, <1>7, <1>10 DEF Made
<1>13. SmokeTypeOK'
  BY <1>1, <1>2, <1>6, <1>7, <1>8, <1>11 DEF SmokeTypeOK
<1>14. ASSUME NEW k \in 1 .. Len(results')
       PROVE  Recorded(k)' /\ results'[k].ta = TaskArm(results'[k].at)
  <2>1. CASE k = Len(results) + 1
    <3>1. results'[k] = r
      BY <1>7, <2>1
    <3> QED
      BY <1>2, <1>4, <1>5, <1>6, <1>11, <3>1 DEF Recorded
  <2>2. CASE k \in 1 .. Len(results) /\ results[k].ta = Current
    <3>1. \E l \in 1 .. Len(results') : l > k /\ results'[l].ta = Current
      BY <1>5, <1>7, <1>10, <2>2
    <3>2. results'[k] = results[k] /\ results[k].ta = TaskArm(results[k].at)
      BY <1>2, <1>7, <2>2 DEF ListsInv
    <3> QED
      BY <1>11, <2>2, <3>1, <3>2 DEF Recorded
  <2>3. CASE k \in 1 .. Len(results) /\ results[k].ta # Current
    <3>1. /\ results'[k] = results[k] /\ results[k].ta = TaskArm(results[k].at) /\ Recorded(k)
          /\ results[k].ta \in TaskArms
      BY <1>2, <1>7, <2>3 DEF ListsInv
    <3>2. /\ Reusable(results[k].ta, disk, config[1])
          /\ \/ disk[results[k].ta].verdict = results[k].verdict
             \/ \E l \in 1 .. Len(results) : l > k /\ results[l].ta = results[k].ta
      BY <2>3, <3>1 DEF Recorded
    <3>3. disk'[results[k].ta] = disk[results[k].ta] /\ Reusable(results[k].ta, disk', config'[1])
      BY <1>6, <1>11, <2>3, <3>1, <3>2
    <3>4. \/ disk'[results[k].ta].verdict = results[k].verdict
          \/ \E l \in 1 .. Len(results') : l > k /\ results'[l].ta = results[k].ta
      BY <1>10, <3>2, <3>3
    <3> QED
      BY <1>11, <3>1, <3>3, <3>4 DEF Recorded
  <2> QED
    BY <1>7, <2>1, <2>2, <2>3
<1>15. ASSUME NEW k \in 1 .. Len(pending')
       PROVE  ToRun(k)'
  <2>1. k + 1 \in 1 .. Len(pending) /\ pending'[k] = pending[k + 1]
    BY <1>2, <1>8
  <2>2. ToRun(k + 1) /\ TaskArm(pending[k + 1]) \in TaskArms
    BY <1>2, <2>1 DEF ListsInv
  <2>3. Reusable(TaskArm(pending[k + 1]), disk', config'[1])
         => Made(TaskArm(pending[k + 1]), results')
    <3>1. CASE TaskArm(pending[k + 1]) = Current
      BY <1>12, <3>1
    <3>2. CASE TaskArm(pending[k + 1]) # Current
      BY <1>11, <1>12, <2>2, <3>2 DEF ToRun
    <3> QED
      BY <3>1, <3>2
  <2> QED
    BY <1>11, <2>1, <2>3 DEF ToRun
<1>16. ASSUME NEW k \in 1 .. Len(results')
       PROVE  NotToRun(k)'
  <2> SUFFICES ASSUME results'[k].cached, NEW l \in 1 .. Len(pending')
               PROVE  TaskArm(pending'[l]) # results'[k].ta
    BY <1>1 DEF NotToRun, TaskArm
  <2>1. k \in 1 .. Len(results) /\ results'[k] = results[k] /\ NotToRun(k)
    BY <1>2, <1>5, <1>7 DEF ListsInv
  <2>2. l + 1 \in 1 .. Len(pending) /\ pending'[l] = pending[l + 1]
    BY <1>2, <1>8
  <2> QED
    BY <1>11, <2>1, <2>2 DEF NotToRun
<1>17. \A p : LookedAt(p)' <=> LookedAt(p)
  BY <1>1, <1>11 DEF LookedAt
<1>18. ListsInv'
  <2>1. \A p : LookedAt(p)' <=> Listed(p, results', pending')
    BY <1>2, <1>9, <1>17 DEF ListsInv
  <2> QED
    BY <1>1, <1>9, <1>14, <1>15, <1>16, <2>1 DEF ListsInv, TaskArm
<1> QED
  BY <1>1, <1>13, <1>18 DEF SmokeInv, Scanned

LEMMA ExitStep == ASSUME SmokeInv, Exit PROVE SmokeInv'
<1>1. /\ asked' \in [n: 0 .. Len(Tasks), arms: ArmLists \cup {<<>>}]
      /\ place' \in (1 .. asked'.n + 1) \X (1 .. Len(asked'.arms) + 1)
  BY TasksAssumption DEF Exit, Nothing
<1>2. <<>> \in Seq(PlacesAsked') /\ <<>> \in Seq(ResultType)
  OBVIOUS
<1> QED
  BY <1>1, <1>2 DEF Exit, SmokeInv, SmokeTypeOK

LEMMA SmokeStep == SmokeInv /\ [SmokeNext]_smokeVars => SmokeInv'
<1> SUFFICES ASSUME SmokeInv, [SmokeNext]_smokeVars PROVE SmokeInv'
  OBVIOUS
<1>1. ASSUME NEW c \in Config, NEW n \in 1 .. Len(Tasks), NEW arms \in ArmLists,
             Launch(c, n, arms)
      PROVE  SmokeInv'
  BY <1>1, LaunchStep
<1>2. CASE Scan
  BY <1>2, ScanReused, ScanPending
<1>3. CASE Confirm \/ StartTask \/ TruncateSummary \/ WriteSummary
  <2>1. /\ UNCHANGED <<config, asked, place, pending, results, disk, launches>>
        /\ mode \notin {"off", "done", "writing"}
        /\ mode' \in {"running", "task", "closing", "done"}
    BY <1>3 DEF Confirm, StartTask, TruncateSummary, WriteSummary
  <2>2. SmokeTypeOK'
    BY <2>1 DEF SmokeInv, SmokeTypeOK, PlacesAsked
  <2>3. ListsInv'
    BY <2>1 DEF SmokeInv, ListsInv, LookedAt, PlacesAsked, TaskArm, Reusable, Recorded, Made,
                ToRun, NotToRun
  <2> QED
    BY <1>3, <2>1, <2>2, <2>3
       DEF SmokeInv, Scanned, Confirm, StartTask, TruncateSummary, WriteSummary
<1>4. CASE TruncateTrajectory
  BY <1>4, TruncateStep
<1>5. ASSUME NEW v \in Verdicts, WriteTrajectory(v)
      PROVE  SmokeInv'
  BY <1>5, WriteStep
<1>6. CASE Decline \/ Die
  BY <1>6, ExitStep DEF Decline, Die
<1>7. CASE Idle \/ UNCHANGED smokeVars
  <2>1. UNCHANGED <<mode, config, asked, place, pending, results, disk, summary, launches>>
    BY <1>7 DEF Idle, smokeVars
  <2>2. SmokeTypeOK'
    BY <2>1 DEF SmokeInv, SmokeTypeOK, PlacesAsked
  <2>3. mode # "off" => ListsInv'
    BY <2>1 DEF SmokeInv, ListsInv, LookedAt, PlacesAsked, TaskArm, Reusable, Recorded, Made,
                ToRun, NotToRun, Current
  <2> QED
    BY <2>1, <2>2, <2>3 DEF SmokeInv, Scanned
<1> QED
  BY <1>1, <1>2, <1>3, <1>4, <1>5, <1>6, <1>7 DEF SmokeNext, Work

-----------------------------------------------------------------------------
(* THE THEOREMS                                                            *)

(* Every place looked at is in one list, results have their trajectory on   *)
(* disk and what is pending has none that the invocation found there.       *)
LEMMA SmokeCorrect == SmokeSpec => []SmokeInv
<1> QED
  BY SmokeInitInv, SmokeStep, PTL DEF SmokeSpec

(* The types, and with them: a trajectory on disk that parses has a verdict.*)
THEOREM SmokeTypeCorrect == SmokeSpec => []SmokeTypeOK
<1>1. SmokeInv => SmokeTypeOK
  BY DEF SmokeInv
<1> QED
  BY <1>1, SmokeCorrect, PTL

(* A summary has one entry per task and arm named, and every entry has its  *)
(* trajectory on disk, with the verdict of the last entry of its task-arm.  *)
THEOREM SummaryCorrect == SmokeSpec => []SummaryAgrees
<1>1. ASSUME SmokeInv, mode = "done"
      PROVE  SummaryAgrees
  <2>1. /\ results \in Seq(ResultType) /\ DOMAIN results = 1 .. Len(results)
        /\ pending = <<>> /\ Scanned /\ ListsInv
        /\ summary = [state |-> "complete", results |-> results]
    BY <1>1 DEF SmokeInv, SmokeTypeOK
  <2>2. ASSUME NEW p
        PROVE  LookedAt(p) <=> p \in PlacesAsked
    <3>1. asked.n \in Nat /\ place[1] \in Nat /\ place[1] > asked.n
      BY <1>1, <2>1, TasksAssumption DEF SmokeInv, SmokeTypeOK, Scanned
    <3>2. \A i \in 1 .. asked.n : i < place[1]
      BY <3>1
    <3>3. p \in PlacesAsked => p[1] \in 1 .. asked.n
      BY DEF PlacesAsked
    <3> QED
      BY <3>2, <3>3 DEF LookedAt
  <2>3. ASSUME NEW p
        PROVE  Listed(p, results, pending) <=> p \in { results[k].at : k \in DOMAIN results }
    BY <2>1 DEF Listed
  <2>4. { results[k].at : k \in DOMAIN results } = PlacesAsked
    BY <2>1, <2>2, <2>3 DEF ListsInv
  <2>5. ASSUME NEW k \in DOMAIN results
        PROVE  /\ results[k].ta = TaskArm(results[k].at)
               /\ Complete(disk[results[k].ta]) /\ disk[results[k].ta].key = config[1]
               /\ LastOf(k) => disk[results[k].ta].verdict = results[k].verdict
    <3>1. results[k].ta = TaskArm(results[k].at) /\ Recorded(k)
      BY <2>1 DEF ListsInv
    <3>2. /\ Reusable(results[k].ta, disk, config[1])
          /\ \/ disk[results[k].ta].verdict = results[k].verdict
             \/ \E l \in 1 .. Len(results) : l > k /\ results[l].ta = results[k].ta
      BY <1>1, <3>1 DEF Recorded
    <3> QED
      BY <2>1, <3>1, <3>2 DEF LastOf, Reusable
  <2> QED
    BY <2>1, <2>4, <2>5 DEF SummaryAgrees, ListsInv, Apart
<1>2. SmokeInv => SummaryAgrees
  BY <1>1 DEF SummaryAgrees
<1> QED
  BY <1>2, SmokeCorrect, PTL

(* Two places of one task-arm name its arm twice. *)
LEMMA TwoPlaces ==
  ASSUME SmokeTypeOK, mode # "off", NEW p \in PlacesAsked, NEW q \in PlacesAsked, p # q,
         TaskArm(p) = TaskArm(q)
  PROVE  NamedTwice(TaskArm(p)[2])
<1>1. /\ p[1] \in 1 .. asked.n /\ p[2] \in 1 .. Len(asked.arms) /\ p = <<p[1], p[2]>>
      /\ q[1] \in 1 .. asked.n /\ q[2] \in 1 .. Len(asked.arms) /\ q = <<q[1], q[2]>>
  BY DEF PlacesAsked
<1>2. /\ asked.n \in 0 .. Len(Tasks) /\ Len(Tasks) \in Nat /\ asked.arms \in ArmLists
      /\ DOMAIN Tasks = 1 .. Len(Tasks) /\ DOMAIN asked.arms = 1 .. Len(asked.arms)
  BY TasksAssumption, ArmsAssumption DEF SmokeTypeOK
<1>3. p[1] \in DOMAIN Tasks /\ q[1] \in DOMAIN Tasks
  BY <1>1, <1>2
<1>4. Tasks[p[1]] = Tasks[q[1]] /\ asked.arms[p[2]] = asked.arms[q[2]]
  BY DEF TaskArm
<1>5. p[1] = q[1]
  BY <1>3, <1>4, TasksAssumption DEF IsInjective
<1>6. p[2] # q[2] /\ p[2] \in DOMAIN asked.arms /\ q[2] \in DOMAIN asked.arms
  BY <1>1, <1>2, <1>5
<1> QED
  BY <1>4, <1>6 DEF NamedTwice, TaskArm

(* Nothing that is done for a model and seed is done again for them, but    *)
(* for an arm named twice.                                                  *)
THEOREM KeepsCompletedCorrect == SmokeSpec => KeepsCompleted
<1>1. ASSUME SmokeInv, [SmokeNext]_smokeVars, NEW ta \in TaskArms,
             Cached(ta, config[1]), config' = config
      PROVE  disk'[ta] = disk[ta] \/ RunAgain(ta)
  <2>1. CASE \/ TruncateTrajectory \/ \E v \in Verdicts : WriteTrajectory(v)
    <3>1. mode \in {"task", "writing"}
      BY <2>1 DEF TruncateTrajectory, WriteTrajectory
    <3>2. /\ SmokeTypeOK /\ ListsInv /\ results \in Seq(ResultType)
          /\ Head(pending) = pending[1] /\ 1 \in 1 .. Len(pending)
          /\ Head(pending) \in PlacesAsked /\ Current = TaskArm(Head(pending))
      BY <1>1, <3>1, InTask
    <3>3. disk \in [TaskArms -> Files]
      BY <3>2 DEF SmokeTypeOK
    <3>4. \E file : disk' = [disk EXCEPT ![Current] = file]
      BY <2>1 DEF TruncateTrajectory, WriteTrajectory
    <3>5. CASE ta # Current
      BY <1>1, <3>3, <3>4, <3>5
    <3>6. CASE ta = Current
      <4>1. Reusable(TaskArm(pending[1]), disk, config[1]) /\ ToRun(1)
        BY <1>1, <3>2, <3>6 DEF ListsInv, Reusable, Cached
      <4>2. PICK k \in 1 .. Len(results) : results[k].ta = ta /\ ~results[k].cached
        BY <3>2, <3>6, <4>1 DEF ToRun, Made
      <4>3. /\ results[k].at # Head(pending) /\ TaskArm(results[k].at) = ta
            /\ Listed(results[k].at, results, pending)
        BY <3>2, <4>2 DEF ListsInv, Apart, Listed
      <4>4. results[k].at \in PlacesAsked
        BY <3>2, <4>3 DEF ListsInv, LookedAt
      <4>5. NamedTwice(ta[2])
        BY <3>1, <3>2, <3>6, <4>3, <4>4, TwoPlaces
      <4> QED
        BY <3>2, <4>2, <4>5 DEF RunAgain
    <3> QED
      BY <3>5, <3>6
  <2>2. CASE \/ \E c \in Config, n \in 1 .. Len(Tasks), arms \in ArmLists : Launch(c, n, arms)
             \/ Scan \/ Confirm \/ StartTask \/ TruncateSummary \/ WriteSummary
             \/ Decline \/ Die \/ Idle \/ UNCHANGED smokeVars
    BY <2>2 DEF Launch, Scan, Confirm, StartTask, TruncateSummary, WriteSummary, Decline, Die,
                Exit, Idle, smokeVars
  <2> QED
    BY <1>1, <2>1, <2>2 DEF SmokeNext, Work
<1>2. SmokeInv /\ [SmokeNext]_smokeVars =>
        [\A ta \in TaskArms :
           Cached(ta, config[1]) /\ config' = config =>
             disk'[ta] = disk[ta] \/ RunAgain(ta)]_smokeVars
  BY <1>1
<1> QED
  BY <1>2, SmokeCorrect, PTL DEF SmokeSpec, KeepsCompleted
=============================================================================
