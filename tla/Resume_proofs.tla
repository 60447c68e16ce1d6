---------------------------- MODULE Resume_proofs ----------------------------
(***************************************************************************)
(* TLAPS proofs about Resume: whatever the number of versions, crashes and *)
(* samples, a checkpoint manager that keeps any number of checkpoints but  *)
(* one leaves the checkpoint the tracker names whole, and a synchronous    *)
(* training resumes where it was; and how far an asynchronous one drifts.  *)
(***************************************************************************)
EXTENDS Resume, TLAPS, FiniteSetTheorems

(* A save is under way; of part p it is over. *)
Saving == {"actor", "critic", "data", "tracker"}
SavedNow(p) == pc \in (IF p = "actor" THEN {"critic", "data", "tracker"}
                       ELSE {"data", "tracker"})

(* In a life the tracker names the last version saved or loaded, but for   *)
(* the moment it is written.                                               *)
TrackerOK ==
  /\ pc \notin {"down", "stuck"} =>
       \/ tracker.kind = "whole" /\ tracker.of = lastCkpt
       \/ tracker.kind = "absent" /\ lastCkpt = 0
       \/ tracker.kind = "torn" /\ pc = "tracker" /\ stage = "write"
  /\ pc = "stuck" => tracker.kind = "torn"

(* What is saved is newer than what the tracker names. *)
VersionsOK ==
  /\ lastCkpt <= version
  /\ pc \in Saving => lastCkpt < version
  /\ pc \notin Saving => stage = "open"
  /\ pc = "down" => lastCkpt = 0

(* A manager remembers its paths in the order of their versions, the last  *)
(* of them that of the tracker until the next one is registered, and has   *)
(* made room before it writes.                                             *)
PathsOK ==
  \A p \in Parts :
    /\ \A i, j \in 1 .. Len(saved[p]) : i < j => saved[p][i] < saved[p][j]
    /\ \A i \in 1 .. Len(saved[p]) :
         saved[p][i] <= (IF SavedNow(p) THEN version ELSE lastCkpt)
    /\ pc = p /\ stage # "open" /\ keep > 0 => Len(saved[p]) < keep

(* The parts of this save that are written are whole. *)
WrittenOK ==
  /\ \A p \in Parts : SavedNow(p) \/ (pc = p /\ stage = "register") =>
       shards[p][version] = File("whole", weights)
  /\ pc = "tracker" => data[version].kind = "whole"

TrackedOK ==
  tracker.kind = "whole" =>
    /\ Loadable(tracker.of)
    /\ shards["actor"][tracker.of] = shards["critic"][tracker.of]
    /\ data[tracker.of].kind = "whole"

IInv ==
  /\ TypeOK
  /\ TrackerOK
  /\ VersionsOK
  /\ PathsOK
  /\ WrittenOK
  /\ TrackedOK

-----------------------------------------------------------------------------
(* What Last keeps: the n latest of a sequence, in their order. *)
LEMMA LastFacts ==
  ASSUME NEW S, NEW s \in Seq(S), NEW n \in 0 .. Len(s)
  PROVE  /\ Last(s, n) \in Seq(S)
         /\ Len(Last(s, n)) = n
         /\ \A i \in 1 .. n : Last(s, n)[i] = s[Len(s) - n + i]
BY DEF Last

(* Appending a path that is newer than all others keeps their order. *)
LEMMA AppendFacts ==
  ASSUME NEW S, NEW s \in Seq(S), NEW v \in S
  PROVE  /\ Append(s, v) \in Seq(S)
         /\ Len(Append(s, v)) = Len(s) + 1
         /\ \A i \in 1 .. Len(s) : Append(s, v)[i] = s[i]
         /\ Append(s, v)[Len(s) + 1] = v
OBVIOUS

LEMMA RoomFacts ==
  ASSUME TrainerTypes, PathTypes, NEW p \in Parts
  PROVE  /\ RoomForNew(saved[p]) \in 0 .. Len(saved[p])
         /\ 1 \notin Keeps /\ keep > 0 => RoomForNew(saved[p]) < keep
<1> keep \in Nat /\ Len(saved[p]) \in Nat /\ (1 \notin Keeps => keep # 1)
  BY ConstantsOK DEF TrainerTypes, PathTypes
<1> keep > 0 => Len(saved[p]) <= keep
  BY DEF PathTypes
<1> QED
  BY DEF RoomForNew

LEMMA KeptFacts ==
  ASSUME TrainerTypes, NEW s \in Seq(Version)
  PROVE  /\ KeptOf(s) \in 0 .. Len(s)
         /\ keep > 0 => KeptOf(s) <= keep
         /\ keep > 0 /\ Len(s) <= keep => KeptOf(s) = Len(s)
         /\ keep = 0 => KeptOf(s) = Len(s)
<1> keep \in Nat /\ Len(s) \in Nat
  BY ConstantsOK DEF TrainerTypes
<1> QED
  BY DEF KeptOf

(* Every place of the walk through the games is one. *)
Places == [cycle : Nat, offset : 0 .. Games - 1]

LEMMA CursorFacts ==
  /\ \A c \in Nat : CursorAt(c) \in [count : Nat, place : Places]
  /\ \A place \in Places : Advance(place) \in Places
<1>1. ASSUME NEW c \in Nat PROVE CursorAt(c) \in [count : Nat, place : Places]
  <2>1. c \div Games \in Nat /\ c % Games \in 0 .. Games - 1
    BY ConstantsOK
  <2> QED
    BY <2>1 DEF CursorAt, IteratorAt, Places
<1>2. ASSUME NEW place \in Places PROVE Advance(place) \in Places
  <2>1. Games \in Nat \ {0}
    BY ConstantsOK
  <2> QED
    BY <2>1 DEF Advance, Places
<1> QED
  BY <1>1, <1>2

-----------------------------------------------------------------------------
LEMMA InitType == Init => TypeOK
<1> SUFFICES ASSUME Init PROVE TypeOK
  OBVIOUS
<1>1. EnvTypes
  BY CursorFacts DEF Init, EnvTypes, Places
<1>2. DiskTypes
  BY ConstantsOK DEF Init, DiskTypes, NoShards, Absent, File, FileOf, Version
<1>3. TrainerTypes /\ FeedTypes
  BY ConstantsOK DEF Init, TrainerTypes, FeedTypes, Samples, Version
<1>4. PathTypes
  BY ConstantsOK DEF Init, PathTypes, TrainerTypes
<1> QED
  BY <1>1, <1>2, <1>3, <1>4, ConstantsOK DEF Init, TypeOK

LEMMA TypeStep == TypeOK /\ [Next]_vars => TypeOK'
<1> SUFFICES ASSUME TypeOK, [Next]_vars PROVE TypeOK'
  OBVIOUS
<1> USE DEF disk, trainerVars, feedVars, envVars
<1>1. CASE BeginStep
  <2>1. DiskTypes' /\ TrainerTypes' /\ PathTypes'
    BY <1>1 DEF BeginStep, TypeOK, DiskTypes, TrainerTypes, PathTypes
  <2>2. FeedTypes'
    BY <1>1 DEF BeginStep, TypeOK, FeedTypes
  <2>3. Step \in Samples
    BY ConstantsOK DEF TypeOK, TrainerTypes, Step, Samples, Version
  <2>4. EnvTypes'
    BY <1>1, <2>3 DEF BeginStep, TypeOK, EnvTypes
  <2> QED
    BY <1>1, <2>1, <2>2, <2>4 DEF BeginStep, TypeOK
<1>2. ASSUME NEW s \in sessions, ResetEnv(s) \/ ResetRaises(s) PROVE TypeOK'
  <2>1. DiskTypes' /\ TrainerTypes' /\ PathTypes' /\ FeedTypes' /\ crashes' = crashes
    BY <1>2 DEF ResetEnv, ResetRaises, TypeOK, DiskTypes, TrainerTypes, PathTypes, FeedTypes
  <2>2. s \in Samples \X Workers /\ s[2] \in Workers /\ cursor[s[2]].place \in Places
    BY DEF TypeOK, EnvTypes, Places
  <2>3. Advance(cursor[s[2]].place) \in Places
    BY <2>2, CursorFacts
  <2>4. cursor' \in [Workers -> [count : Nat, place : Places]]
    <3>1. CASE ResetEnv(s)
      BY <3>1, <2>2, <2>3 DEF ResetEnv, TypeOK, EnvTypes, Places
    <3>2. CASE ResetRaises(s)
      BY <3>2, <2>2, <2>3 DEF ResetRaises, TypeOK, EnvTypes, Places
    <3> QED
      BY <3>1, <3>2, <1>2
  <2>5. EnvTypes'
    BY <1>2, <2>2, <2>4 DEF ResetEnv, ResetRaises, TypeOK, EnvTypes, Places
  <2> QED
    BY <2>1, <2>5 DEF TypeOK
<1>3. CASE FinishStep
  <2>1. DiskTypes' /\ PathTypes' /\ FeedTypes'
    BY <1>3 DEF FinishStep, TypeOK, DiskTypes, PathTypes, FeedTypes
  <2>2. TrainerTypes'
    BY <1>3 DEF FinishStep, TypeOK, TrainerTypes, FeedTypes, Step, Samples, Version, Parts
  <2>3. EnvTypes'
    BY <1>3 DEF FinishStep, TypeOK, EnvTypes, Pending
  <2> QED
    BY <1>3, <2>1, <2>2, <2>3 DEF FinishStep, TypeOK
<1>4. CASE Feed
  <2>1. DiskTypes' /\ TrainerTypes' /\ PathTypes' /\ EnvTypes'
    BY <1>4 DEF Feed, TypeOK, DiskTypes, TrainerTypes, PathTypes, EnvTypes
  <2>2. FeedTypes'
    BY <1>4, ConstantsOK DEF Feed, TypeOK, FeedTypes, Samples
  <2> QED
    BY <1>4, <2>1, <2>2 DEF Feed, TypeOK
<1>5. ASSUME NEW sample \in pipeline, NEW esi \in BOOLEAN, Train(sample, esi) PROVE TypeOK'
  <2>1. DiskTypes' /\ PathTypes' /\ EnvTypes'
    BY <1>5 DEF Train, TypeOK, DiskTypes, PathTypes, EnvTypes
  <2>2. TrainerTypes'
    BY SMTT(30), <1>5, ConstantsOK DEF Train, TypeOK, TrainerTypes, FeedTypes, Samples, Version, Parts
  <2>3. FeedTypes'
    BY <1>5 DEF Train, TypeOK, FeedTypes
  <2> QED
    BY <1>5, <2>1, <2>2, <2>3 DEF Train, TypeOK
<1>6. CASE Finish
  BY <1>6 DEF Finish, TypeOK, DiskTypes, TrainerTypes, PathTypes, FeedTypes, EnvTypes, Parts
<1>7. ASSUME NEW p \in Parts, OpenPart(p) PROVE TypeOK'
  <2> DEFINE n == RoomForNew(saved[p])
  <2>1. FeedTypes' /\ EnvTypes' /\ TrainerTypes'
    BY <1>7 DEF OpenPart, TypeOK, TrainerTypes, FeedTypes, EnvTypes
  <2>2. /\ saved[p] \in Seq(Version) /\ n \in 0 .. Len(saved[p])
        /\ Last(saved[p], n) \in Seq(Version) /\ Len(Last(saved[p], n)) = n
    BY RoomFacts, LastFacts DEF TypeOK, PathTypes
  <2>3. PathTypes'
    <3>1. saved' = [saved EXCEPT ![p] = Last(saved[p], n)] /\ keep' = keep
      BY <1>7 DEF OpenPart
    <3>2. keep > 0 => n <= keep
      <4>1. keep \in Nat /\ Len(saved[p]) \in Nat /\ (keep > 0 => Len(saved[p]) <= keep)
        BY ConstantsOK DEF TypeOK, TrainerTypes, PathTypes
      <4> QED
        BY <4>1, <2>2
    <3> HIDE DEF n
    <3> QED
      BY <2>2, <3>1, <3>2 DEF TypeOK, PathTypes
  <2>4. Without(shards[p], Dropped(saved[p], n)) \in [Version -> FileOf(Seq(Nat))]
    BY DEF TypeOK, DiskTypes, Without, NoShards, File, FileOf
  <2>5. File("torn", weights) \in FileOf(Seq(Nat))
    BY DEF TypeOK, TrainerTypes, File, FileOf
  <2>6. DiskTypes'
    BY <1>7, <2>4, <2>5 DEF OpenPart, TypeOK, DiskTypes
  <2> QED
    BY <1>7, <2>1, <2>3, <2>6 DEF OpenPart, TypeOK
<1>8. ASSUME NEW p \in Parts, WritePart(p) PROVE TypeOK'
  <2>1. TrainerTypes' /\ PathTypes' /\ FeedTypes' /\ EnvTypes'
    BY <1>8 DEF WritePart, TypeOK, TrainerTypes, PathTypes, FeedTypes, EnvTypes
  <2>2. File("whole", weights) \in FileOf(Seq(Nat))
    BY DEF TypeOK, TrainerTypes, File, FileOf
  <2>3. DiskTypes'
    BY <1>8, <2>2 DEF WritePart, TypeOK, DiskTypes
  <2> QED
    BY <1>8, <2>1, <2>3 DEF WritePart, TypeOK
<1>9. ASSUME NEW p \in Parts, RegisterPart(p) PROVE TypeOK'
  <2> DEFINE paths == Append(saved[p], version)
             n == KeptOf(paths)
  <2>1. FeedTypes' /\ EnvTypes' /\ TrainerTypes'
    BY <1>9 DEF RegisterPart, TypeOK, TrainerTypes, FeedTypes, EnvTypes, Parts
  <2>2. paths \in Seq(Version)
    BY DEF TypeOK, PathTypes, TrainerTypes
  <2>3. /\ n \in 0 .. Len(paths) /\ (keep > 0 => n <= keep)
        /\ Last(paths, n) \in Seq(Version) /\ Len(Last(paths, n)) = n
    BY <2>2, KeptFacts, LastFacts DEF TypeOK
  <2>4. PathTypes'
    BY <1>9, <2>3 DEF RegisterPart, TypeOK, PathTypes
  <2>5. Without(shards[p], Dropped(paths, n)) \in [Version -> FileOf(Seq(Nat))]
    BY DEF TypeOK, DiskTypes, Without, NoShards, File, FileOf
  <2>6. DiskTypes'
    BY <1>9, <2>5 DEF RegisterPart, TypeOK, DiskTypes
  <2> QED
    BY <1>9, <2>1, <2>4, <2>6 DEF RegisterPart, TypeOK
<1>10. CASE SaveData
  <2>1. TrainerTypes' /\ PathTypes' /\ FeedTypes' /\ EnvTypes'
    BY <1>10 DEF SaveData, TypeOK, TrainerTypes, PathTypes, FeedTypes, EnvTypes
  <2>2. data' \in [Version -> FileOf(Nat)]
    <3>1. [data[version] EXCEPT !.kind = "whole"] \in FileOf(Nat)
      BY DEF TypeOK, DiskTypes, TrainerTypes, FileOf
    <3>2. File("torn", position) \in FileOf(Nat)
      BY DEF TypeOK, FeedTypes, File, FileOf
    <3> QED
      BY <1>10, <3>1, <3>2 DEF SaveData, TypeOK, DiskTypes
  <2>3. DiskTypes'
    BY <1>10, <2>2 DEF SaveData, TypeOK, DiskTypes
  <2> QED
    BY <1>10, <2>1, <2>3 DEF SaveData, TypeOK
<1>11. CASE SaveTracker
  <2>1. TrainerTypes' /\ PathTypes' /\ FeedTypes' /\ EnvTypes'
    BY <1>11 DEF SaveTracker, TypeOK, TrainerTypes, PathTypes, FeedTypes, EnvTypes
  <2>2. DiskTypes'
    BY <1>11 DEF SaveTracker, TypeOK, DiskTypes, TrainerTypes, File, FileOf
  <2> QED
    BY <1>11, <2>1, <2>2 DEF SaveTracker, TypeOK
<1>12. CASE Crash
  <2>1. EnvTypes'
    BY <1>12, CursorFacts DEF Crash, EnvTypes, Places
  <2>2. TrainerTypes' /\ FeedTypes' /\ DiskTypes'
    BY <1>12, ConstantsOK DEF Crash, TypeOK, TrainerTypes, FeedTypes, DiskTypes, Samples, Version
  <2>3. PathTypes'
    BY <1>12, ConstantsOK DEF Crash, TypeOK, TrainerTypes, PathTypes
  <2> QED
    BY <1>12, <2>1, <2>2, <2>3, ConstantsOK DEF Crash, TypeOK
<1>13. CASE FromScratch \/ LoadRaises
  BY <1>13 DEF FromScratch, LoadRaises, TypeOK, DiskTypes, TrainerTypes, PathTypes, FeedTypes,
     EnvTypes
<1>14. CASE LoadCheckpoint
  <2>1. tracker.of \in Version /\ tracker.of \in Nat
    BY ConstantsOK DEF TypeOK, DiskTypes, FileOf, Version
  <2>2. EnvTypes'
    BY <1>14, <2>1, CursorFacts DEF LoadCheckpoint, TypeOK, EnvTypes, Places
  <2>3. shards["actor"][tracker.of].of \in Seq(Nat) /\ data[tracker.of].of \in Nat
    BY <2>1 DEF TypeOK, DiskTypes, FileOf, Parts
  <2>4. TrainerTypes' /\ FeedTypes'
    <3>1. tracker.of * Trigger + 2 \in Samples /\ tracker.of * Trigger + 1 \in Samples
      BY <2>1, ConstantsOK DEF Samples
    <3> QED
      BY <1>14, <2>1, <2>3, <3>1 DEF LoadCheckpoint, TypeOK, TrainerTypes, FeedTypes
  <2>5. DiskTypes' /\ PathTypes'
    BY <1>14 DEF LoadCheckpoint, TypeOK, DiskTypes, PathTypes
  <2> QED
    BY <1>14, <2>2, <2>4, <2>5 DEF LoadCheckpoint, TypeOK
<1>15. CASE UNCHANGED vars
  BY <1>15 DEF vars, TypeOK, DiskTypes, TrainerTypes, PathTypes, FeedTypes, EnvTypes
<1> QED
  BY <1>1, <1>2, <1>3, <1>4, <1>5, <1>6, <1>7, <1>8, <1>9, <1>10, <1>11, <1>12, <1>13, <1>14,
     <1>15 DEF Next, Over

-----------------------------------------------------------------------------
Rest == TrackerOK /\ VersionsOK /\ PathsOK /\ WrittenOK /\ TrackedOK

(* What the invariant is about besides the types. *)
restVars == <<keep, shards, data, tracker, pc, stage, weights, version, lastCkpt, saved>>

LEMMA QuietStep == Rest /\ UNCHANGED restVars => Rest'
BY DEF Rest, restVars, TrackerOK, VersionsOK, PathsOK, WrittenOK, TrackedOK, SavedNow, Loadable

(* Steps that change what the trainer does, and not what is on the disk. *)
LEMMA TrainingStep ==
  ASSUME TypeOK, Rest, pc \notin Saving,
         UNCHANGED <<keep, shards, data, tracker, lastCkpt, saved>>, stage' = "open",
         pc \notin {"down", "stuck"}, pc' \notin {"down", "stuck"},
         pc' \in Saving => pc' = "actor",
         version' \in Nat, version' >= version, pc' = "actor" => lastCkpt < version'
  PROVE  Rest'
<1> USE DEF Saving
<1>0. lastCkpt \in Nat /\ version \in Nat
  BY ConstantsOK DEF TypeOK, TrainerTypes, Version
<1>1. TrackerOK'
  BY DEF Rest, TrackerOK
<1>2. VersionsOK'
  BY <1>0 DEF Rest, VersionsOK
<1>3. \A p \in Parts : ~SavedNow(p) /\ ~SavedNow(p)'
  BY DEF SavedNow, Parts
<1>4. PathsOK'
  BY <1>3 DEF Rest, PathsOK
<1>5. WrittenOK'
  BY <1>3 DEF WrittenOK, Parts
<1>6. TrackedOK'
  BY DEF Rest, TrackedOK, Loadable
<1> QED
  BY <1>1, <1>2, <1>4, <1>5, <1>6 DEF Rest

(* The version being saved is not the one the tracker names, and no path   *)
(* of a part that is still to be registered is newer than that.            *)
LEMMA SavingFacts ==
  ASSUME TypeOK, Rest, NEW p \in Parts, pc = p
  PROVE  /\ tracker.kind = "whole" => tracker.of < version
         /\ tracker.kind = "whole" => tracker.of = lastCkpt
         /\ \A i \in 1 .. Len(saved[p]) : saved[p][i] \in Nat /\ saved[p][i] < version
                                          /\ saved[p][i] <= lastCkpt
         /\ lastCkpt \in Nat /\ version \in Nat /\ version \in Version
<1>1. ~SavedNow(p) /\ pc \in Saving
  BY DEF SavedNow, Parts, Saving
<1>2. lastCkpt \in Nat /\ version \in Nat /\ version \in Version /\ lastCkpt < version
  BY <1>1, ConstantsOK DEF TypeOK, TrainerTypes, Version, Rest, VersionsOK
<1>3. \A i \in 1 .. Len(saved[p]) : saved[p][i] \in Nat /\ saved[p][i] <= lastCkpt
  BY SMTT(30), <1>1, ConstantsOK DEF TypeOK, PathTypes, Version, Rest, PathsOK
<1>4. tracker.kind = "whole" => tracker.of = lastCkpt
  BY DEF Rest, TrackerOK, Parts
<1> QED
  BY <1>2, <1>3, <1>4

(* Making room for a new checkpoint never removes the tracked one. *)
LEMMA OpenStep ==
  ASSUME 1 \notin Keeps, TypeOK, Rest, NEW p \in Parts, OpenPart(p)
  PROVE  Rest'
<1> DEFINE n == RoomForNew(saved[p])
           gone == Dropped(saved[p], n)
<1>0. pc = p
  BY DEF OpenPart
<1>1. /\ saved[p] \in Seq(Version) /\ Len(saved[p]) \in Nat
      /\ n \in 0 .. Len(saved[p]) /\ keep \in Nat /\ (keep > 0 => n < keep)
      /\ keep > 0 => Len(saved[p]) <= keep
  BY SMTT(30), RoomFacts, ConstantsOK DEF TypeOK, PathTypes, TrainerTypes
<1>2. /\ Len(Last(saved[p], n)) = n
      /\ \A i \in 1 .. n : Last(saved[p], n)[i] = saved[p][Len(saved[p]) - n + i]
  BY <1>1, LastFacts
<1>3. /\ saved' = [saved EXCEPT ![p] = Last(saved[p], n)]
      /\ shards' = [shards EXCEPT ![p] =
                      [Without(shards[p], gone) EXCEPT ![version] = File("torn", weights)]]
      /\ pc' = pc /\ stage = "open" /\ stage' = "write"
      /\ UNCHANGED <<keep, data, tracker, weights, version, lastCkpt>>
  BY DEF OpenPart
<1>4. \A q \in Parts : saved'[q] = IF q = p THEN Last(saved[p], n) ELSE saved[q]
  BY <1>3 DEF TypeOK, PathTypes
<1>5. version \notin gone
  BY <1>0, <1>1, SavingFacts DEF Dropped
<1>6. tracker.kind = "whole" => tracker.of \notin gone
  <2>1. SUFFICES ASSUME tracker.kind = "whole", NEW i \in 1 .. Len(saved[p]) - n,
                        saved[p][i] = tracker.of
                 PROVE FALSE
    BY DEF Dropped
  <2>2. tracker.of = lastCkpt
    BY <1>0, <2>1, SavingFacts
  <2>3. n >= 1
    <3>1. keep > 1 /\ Len(saved[p]) >= keep
      BY <1>1, <2>1 DEF RoomForNew
    <3> QED
      BY <1>1, <3>1 DEF RoomForNew
  <2>4. i \in 1 .. Len(saved[p]) /\ Len(saved[p]) \in 1 .. Len(saved[p]) /\ i < Len(saved[p])
    BY <1>1, <2>1, <2>3
  <2>5. saved[p][i] < saved[p][Len(saved[p])]
    BY <2>4 DEF Rest, PathsOK
  <2>6. saved[p][Len(saved[p])] <= lastCkpt /\ saved[p][Len(saved[p])] \in Nat
    BY <1>0, <2>4, SavingFacts
  <2>7. saved[p][i] \in Nat /\ lastCkpt \in Nat
    BY <1>0, <2>4, SavingFacts
  <2> QED
    BY <2>1, <2>2, <2>5, <2>6, <2>7
<1>7. \A q \in Parts : \A v \in Version :
        shards'[q][v] = IF q = p THEN IF v = version THEN File("torn", weights)
                                      ELSE IF v \in gone THEN NoShards ELSE shards[q][v]
                        ELSE shards[q][v]
  BY <1>0, <1>3, SavingFacts DEF TypeOK, DiskTypes, Without
<1> HIDE DEF n, gone
<1>8. TrackerOK' /\ VersionsOK'
  BY <1>3, <1>0 DEF Rest, TrackerOK, VersionsOK, Saving, Parts
<1>9. \A q \in Parts : SavedNow(q)' = SavedNow(q)
  BY <1>3 DEF SavedNow
<1>10. PathsOK'
  <2>1. SUFFICES ASSUME NEW q \in Parts
        PROVE /\ \A i, j \in 1 .. Len(saved'[q]) : i < j => saved'[q][i] < saved'[q][j]
              /\ \A i \in 1 .. Len(saved'[q]) :
                   saved'[q][i] <= (IF SavedNow(q)' THEN version' ELSE lastCkpt')
              /\ pc' = q /\ stage' # "open" /\ keep' > 0 => Len(saved'[q]) < keep'
    BY DEF PathsOK
  <2>2. CASE q # p
    BY <1>0, <1>3, <1>4, <1>9, <2>2 DEF Rest, PathsOK
  <2>3. CASE q = p
    <3>1. \A i \in 1 .. n : Len(saved[p]) - n + i \in 1 .. Len(saved[p])
      BY <1>1
    <3>2. Len(saved'[q]) = n /\ \A i \in 1 .. n : saved'[q][i] = saved[p][Len(saved[p]) - n + i]
      BY <1>2, <1>4, <2>3
    <3>3. \A i, j \in 1 .. n : i < j =>
            saved[p][Len(saved[p]) - n + i] < saved[p][Len(saved[p]) - n + j]
      <4>1. \A i, j \in 1 .. n : i < j => Len(saved[p]) - n + i < Len(saved[p]) - n + j
        BY <1>1
      <4> QED
        BY <3>1, <4>1 DEF Rest, PathsOK
    <3>4. \A i \in 1 .. n : saved[p][Len(saved[p]) - n + i]
                              <= (IF SavedNow(p) THEN version ELSE lastCkpt)
      BY <3>1 DEF Rest, PathsOK
    <3>5. \A i, j \in 1 .. Len(saved'[q]) : i < j => saved'[q][i] < saved'[q][j]
      BY <3>2, <3>3
    <3>6. SavedNow(q)' = SavedNow(p) /\ version' = version /\ lastCkpt' = lastCkpt
      BY <1>3, <1>9, <2>3
    <3>7. \A i \in 1 .. Len(saved'[q]) :
            saved'[q][i] <= (IF SavedNow(q)' THEN version' ELSE lastCkpt')
      BY <3>2, <3>4, <3>6
    <3> QED
      BY <1>1, <1>3, <3>2, <3>5, <3>7
  <2> QED
    BY <2>2, <2>3
<1>11. WrittenOK'
  <2>1. ASSUME NEW q \in Parts, SavedNow(q)' \/ (pc' = q /\ stage' = "register")
        PROVE  shards'[q][version'] = File("whole", weights')
    <3>1. SavedNow(q) /\ q # p
      BY <1>0, <1>3, <1>9, <2>1 DEF SavedNow, Parts
    <3> QED
      BY <1>0, <1>3, <1>7, <3>1, SavingFacts DEF Rest, WrittenOK
  <2> QED
    BY <1>0, <1>3, <2>1 DEF WrittenOK, Parts
<1>12. TrackedOK'
  <2>1. SUFFICES ASSUME tracker.kind = "whole"
                 PROVE \A q \in Parts : shards'[q][tracker.of] = shards[q][tracker.of]
    BY <1>3 DEF Rest, TrackedOK, Loadable, Parts
  <2>2. tracker.of \in Version /\ tracker.of # version
    BY <1>0, <2>1, SavingFacts DEF TypeOK, DiskTypes, FileOf
  <2> QED
    BY <1>6, <1>7, <2>1, <2>2
<1> QED
  BY <1>8, <1>10, <1>11, <1>12 DEF Rest

(* A step that leaves the files of the tracked checkpoint alone. *)
LEMMA TrackedKept ==
  ASSUME TrackedOK, tracker' = tracker,
         tracker.kind = "whole" =>
           /\ \A q \in Parts : shards'[q][tracker.of] = shards[q][tracker.of]
           /\ data'[tracker.of] = data[tracker.of]
  PROVE  TrackedOK'
BY DEF TrackedOK, Loadable, Parts

LEMMA WriteStep ==
  ASSUME TypeOK, Rest, NEW p \in Parts, WritePart(p)
  PROVE  Rest'
<1>0. /\ pc = p /\ pc' = p /\ stage = "write" /\ stage' = "register"
      /\ shards' = [shards EXCEPT ![p][version] = File("whole", weights)]
      /\ UNCHANGED <<keep, data, tracker, weights, version, lastCkpt, saved>>
  BY DEF WritePart, trainerVars
<1>1. \A q \in Parts : \A v \in Version :
        shards'[q][v] = IF q = p /\ v = version THEN File("whole", weights) ELSE shards[q][v]
  BY <1>0, SavingFacts DEF TypeOK, DiskTypes
<1>2. \A q \in Parts : SavedNow(q)' = SavedNow(q)
  BY <1>0 DEF SavedNow
<1>3. TrackerOK' /\ VersionsOK'
  BY <1>0 DEF Rest, TrackerOK, VersionsOK, Saving, Parts
<1>4. PathsOK'
  BY <1>0, <1>2 DEF Rest, PathsOK
<1>5. WrittenOK'
  <2>1. ASSUME NEW q \in Parts, SavedNow(q)' \/ (pc' = q /\ stage' = "register")
        PROVE  shards'[q][version'] = File("whole", weights')
    BY <1>0, <1>1, <1>2, <2>1, SavingFacts DEF Rest, WrittenOK
  <2> QED
    BY <1>0, <2>1 DEF WrittenOK, Parts
<1>6. TrackedOK'
  <2>1. tracker.kind = "whole" => tracker.of \in Version /\ tracker.of # version
    BY <1>0, SavingFacts DEF TypeOK, DiskTypes, FileOf
  <2> QED
    BY <1>0, <1>1, <2>1, TrackedKept DEF Rest
<1> QED
  BY <1>3, <1>4, <1>5, <1>6 DEF Rest

(* Room was made before, so registering a new path drops none. *)
LEMMA RegisterStep ==
  ASSUME TypeOK, Rest, NEW p \in Parts, RegisterPart(p)
  PROVE  Rest'
<1> DEFINE paths == Append(saved[p], version)
           n == KeptOf(paths)
<1>0. pc = p /\ stage = "register"
  BY DEF RegisterPart
<1>1. /\ saved[p] \in Seq(Version) /\ Len(saved[p]) \in Nat /\ version \in Version
      /\ keep \in Nat /\ (keep > 0 => Len(saved[p]) < keep)
  BY <1>0, ConstantsOK DEF TypeOK, PathTypes, TrainerTypes, Rest, PathsOK
<1>2. /\ paths \in Seq(Version) /\ Len(paths) = Len(saved[p]) + 1
      /\ \A i \in 1 .. Len(saved[p]) : paths[i] = saved[p][i]
      /\ paths[Len(saved[p]) + 1] = version
  BY <1>1, AppendFacts
<1>3. n = Len(paths)
  <2>1. TrainerTypes /\ (keep = 0 \/ keep > 0) /\ (keep > 0 => Len(paths) <= keep)
    BY <1>1, <1>2 DEF TypeOK
  <2>2. /\ keep > 0 /\ Len(paths) <= keep => KeptOf(paths) = Len(paths)
        /\ keep = 0 => KeptOf(paths) = Len(paths)
    BY <1>2, <2>1, KeptFacts
  <2> QED
    BY <2>1, <2>2
<1>4. Dropped(paths, n) = {}
  <2>1. Len(paths) - n = 0
    BY <1>1, <1>2, <1>3
  <2>2. 1 .. Len(paths) - n = {}
    BY <2>1
  <2> HIDE DEF paths, n
  <2> QED
    BY <2>2 DEF Dropped
<1>5. Len(Last(paths, n)) = Len(paths) /\ \A i \in 1 .. Len(paths) : Last(paths, n)[i] = paths[i]
  <2>1. Len(paths) \in 0 .. Len(paths)
    BY <1>1, <1>2
  <2>2. /\ Len(Last(paths, Len(paths))) = Len(paths)
        /\ \A i \in 1 .. Len(paths) :
             Last(paths, Len(paths))[i] = paths[Len(paths) - Len(paths) + i]
    BY <1>2, <2>1, LastFacts
  <2>3. \A i \in 1 .. Len(paths) : Len(paths) - Len(paths) + i = i
    BY <1>1, <1>2
  <2> HIDE DEF paths, n
  <2> QED
    BY <1>3, <2>2, <2>3
<1>6. Without(shards[p], {}) = shards[p]
  <2>1. shards[p] \in [Version -> FileOf(Seq(Nat))]
    BY DEF TypeOK, DiskTypes
  <2>2. shards[p] = [v \in Version |-> shards[p][v]]
    BY <2>1
  <2> QED
    BY <2>2 DEF Without
<1>7. /\ saved' = [saved EXCEPT ![p] = Last(paths, n)]
      /\ shards' = shards
      /\ pc' = (IF p = "actor" THEN "critic" ELSE "data") /\ stage' = "open"
      /\ UNCHANGED <<keep, data, tracker, weights, version, lastCkpt>>
  <2>1. /\ saved' = [saved EXCEPT ![p] = Last(paths, n)]
        /\ shards' = [shards EXCEPT ![p] = Without(shards[p], Dropped(paths, n))]
        /\ pc' = (IF p = "actor" THEN "critic" ELSE "data") /\ stage' = "open"
        /\ UNCHANGED <<keep, data, tracker, weights, version, lastCkpt>>
    BY DEF RegisterPart
  <2>2. shards' = [shards EXCEPT ![p] = shards[p]]
    BY <1>4, <1>6, <2>1
  <2>3. shards' = shards
    BY <2>2 DEF TypeOK, DiskTypes
  <2> QED
    BY <2>1, <2>3
<1>8. \A q \in Parts : saved'[q] = IF q = p THEN Last(paths, n) ELSE saved[q]
  BY <1>7 DEF TypeOK, PathTypes
<1> HIDE DEF n, paths
<1>9. SavedNow(p)' /\ ~SavedNow(p)
  BY <1>0, <1>7 DEF SavedNow, Parts
<1>10. \A q \in Parts : q # p => SavedNow(q)' = SavedNow(q)
  BY <1>0, <1>7 DEF SavedNow, Parts
<1>11. TrackerOK' /\ VersionsOK'
  BY <1>0, <1>7 DEF Rest, TrackerOK, VersionsOK, Saving, Parts
<1>12. PathsOK'
  <2>1. ASSUME NEW q \in Parts
        PROVE /\ \A i, j \in 1 .. Len(saved'[q]) : i < j => saved'[q][i] < saved'[q][j]
              /\ \A i \in 1 .. Len(saved'[q]) :
                   saved'[q][i] <= (IF SavedNow(q)' THEN version' ELSE lastCkpt')
    <3>1. CASE q # p
      BY <1>7, <1>8, <1>10, <3>1 DEF Rest, PathsOK
    <3>2. CASE q = p
      <4>1. /\ Len(saved'[q]) = Len(saved[p]) + 1
            /\ \A i \in 1 .. Len(saved[p]) : saved'[q][i] = saved[p][i]
            /\ saved'[q][Len(saved[p]) + 1] = version
        BY <1>1, <1>2, <1>5, <1>8, <3>2
      <4>2. \A i \in 1 .. Len(saved[p]) : saved[p][i] \in Nat /\ saved[p][i] < version
        BY <1>0, SavingFacts
      <4>3. version \in Nat
        BY <1>1, ConstantsOK DEF Version
      <4>4. \A i, j \in 1 .. Len(saved[p]) : i < j => saved[p][i] < saved[p][j]
        BY DEF Rest, PathsOK
      <4>5. \A i \in 1 .. Len(saved[p]) + 1 : i \in 1 .. Len(saved[p]) \/ i = Len(saved[p]) + 1
        BY <1>1
      <4>6. ASSUME NEW i \in 1 .. Len(saved'[q]), NEW j \in 1 .. Len(saved'[q]), i < j
            PROVE  saved'[q][i] < saved'[q][j]
        <5>1. i \in 1 .. Len(saved[p])
          BY <1>1, <4>1, <4>6
        <5>2. CASE j \in 1 .. Len(saved[p])
          BY <4>1, <4>4, <4>6, <5>1, <5>2
        <5>3. CASE j = Len(saved[p]) + 1
          BY <4>1, <4>2, <5>1, <5>3
        <5> QED
          BY <4>1, <4>5, <5>2, <5>3
      <4>7. ASSUME NEW i \in 1 .. Len(saved'[q]) PROVE saved'[q][i] <= version
        BY <4>1, <4>2, <4>3, <4>5
      <4> QED
        BY <1>7, <1>9, <3>2, <4>6, <4>7
    <3> QED
      BY <3>1, <3>2
  <2> QED
    BY <1>7, <2>1 DEF PathsOK
<1>13. WrittenOK'
  <2>1. ASSUME NEW q \in Parts, SavedNow(q)' \/ (pc' = q /\ stage' = "register")
        PROVE  shards'[q][version'] = File("whole", weights')
    BY <1>0, <1>7, <1>10, <2>1 DEF Rest, WrittenOK
  <2> QED
    BY <1>7, <2>1 DEF WrittenOK, Parts
<1>14. TrackedOK'
  BY <1>7, TrackedKept DEF Rest
<1> QED
  BY <1>11, <1>12, <1>13, <1>14 DEF Rest

LEMMA SaveDataStep ==
  ASSUME TypeOK, Rest, SaveData
  PROVE  Rest'
<1>1. /\ pc = "data" /\ pc' \in {"data", "tracker"}
      /\ pc' = "tracker" => stage' = "open"
      /\ UNCHANGED <<keep, shards, tracker, weights, version, lastCkpt, saved>>
  BY DEF SaveData, trainerVars
<1>2. \A p \in Parts : SavedNow(p) /\ SavedNow(p)' /\ pc # p /\ pc' # p
  BY <1>1 DEF SavedNow, Parts
<1>3. lastCkpt \in Nat /\ version \in Nat /\ version \in Version /\ lastCkpt < version
  BY <1>1, ConstantsOK DEF TypeOK, TrainerTypes, Version, Rest, VersionsOK, Saving
<1>4. data \in [Version -> FileOf(Nat)] /\ data[version] \in FileOf(Nat)
  BY <1>3 DEF TypeOK, DiskTypes
<1>5. /\ \A v \in Version \ {version} : data'[v] = data[v]
      /\ pc' = "tracker" => data'[version].kind = "whole"
  BY <1>3, <1>4 DEF SaveData, FileOf
<1>6. TrackerOK' /\ VersionsOK'
  BY <1>1 DEF Rest, TrackerOK, VersionsOK, Saving
<1>7. PathsOK'
  BY <1>1, <1>2 DEF Rest, PathsOK
<1>8. WrittenOK'
  BY <1>1, <1>2, <1>5 DEF Rest, WrittenOK
<1>9. TrackedOK'
  <2>1. tracker.kind = "whole" => tracker.of \in Version /\ tracker.of # version
    BY <1>1, <1>3 DEF Rest, TrackerOK, TypeOK, DiskTypes, FileOf
  <2> QED
    BY <1>1, <1>5, <2>1, TrackedKept DEF Rest
<1> QED
  BY <1>6, <1>7, <1>8, <1>9 DEF Rest

(* The tracker names a version only when all its parts are written. *)
LEMMA SaveTrackerStep ==
  ASSUME TypeOK, Rest, SaveTracker
  PROVE  Rest'
<1>0. /\ pc = "tracker" /\ UNCHANGED <<keep, shards, data, weights, version, saved>>
  BY DEF SaveTracker
<1>1. lastCkpt \in Nat /\ version \in Nat /\ version \in Version /\ lastCkpt < version
  BY <1>0, ConstantsOK DEF TypeOK, TrainerTypes, Version, Rest, VersionsOK, Saving
<1>2. \A p \in Parts : SavedNow(p)
  BY <1>0 DEF SavedNow, Parts
<1>3. CASE /\ stage' = "write" /\ tracker' = File("torn", tracker.of)
           /\ pc' = pc /\ lastCkpt' = lastCkpt
  <2>1. tracker'.kind = "torn"
    BY <1>3 DEF File
  <2>2. \A p \in Parts : SavedNow(p)' /\ pc' # p
    BY <1>0, <1>3 DEF SavedNow, Parts
  <2>3. TrackerOK' /\ TrackedOK' /\ VersionsOK'
    BY <1>0, <1>3, <2>1 DEF Rest, TrackerOK, TrackedOK, VersionsOK, Saving
  <2>4. PathsOK' /\ WrittenOK'
    BY <1>0, <1>2, <1>3, <2>2 DEF Rest, PathsOK, WrittenOK
  <2> QED
    BY <2>3, <2>4 DEF Rest
<1>4. CASE /\ stage' = "open" /\ tracker' = File("whole", version)
           /\ pc' = "idle" /\ lastCkpt' = version
  <2>1. tracker'.kind = "whole" /\ tracker'.of = version
    BY <1>4 DEF File
  <2>2. \A p \in Parts : ~SavedNow(p)' /\ pc' # p
    BY <1>4 DEF SavedNow, Parts
  <2>3. TrackerOK' /\ VersionsOK'
    BY <1>0, <1>1, <1>4, <2>1 DEF TrackerOK, VersionsOK, Saving
  <2>4. PathsOK'
    BY <1>0, <1>2, <1>4, <2>2 DEF Rest, PathsOK
  <2>5. WrittenOK'
    BY <1>4, <2>2 DEF WrittenOK
  <2>6. TrackedOK'
    <3>1. \A p \in Parts : shards[p][version] = File("whole", weights)
      BY <1>2 DEF Rest, WrittenOK
    <3>2. data[version].kind = "whole"
      BY <1>0 DEF Rest, WrittenOK
    <3> QED
      BY <1>0, <2>1, <3>1, <3>2 DEF TrackedOK, Loadable, File, Parts
  <2> QED
    BY <2>3, <2>4, <2>5, <2>6 DEF Rest
<1> QED
  BY <1>3, <1>4 DEF SaveTracker

LEMMA RestartStep ==
  ASSUME TypeOK, Rest, Crash \/ FromScratch \/ LoadCheckpoint \/ LoadRaises
  PROVE  Rest'
<1>0. /\ UNCHANGED <<keep, shards, data, tracker>>
      /\ pc' \notin Saving /\ \A p \in Parts : ~SavedNow(p)' /\ pc' # p
      /\ tracker.of \in Version /\ tracker.of \in Nat /\ lastCkpt \in Nat
      /\ tracker.kind \in {"absent", "torn", "whole"}
  <2>1. UNCHANGED <<keep, shards, data, tracker>> /\ pc' \in {"down", "idle", "stuck"}
    BY DEF Crash, FromScratch, LoadCheckpoint, LoadRaises, disk
  <2>2. pc' \notin Saving /\ \A p \in Parts : ~SavedNow(p)' /\ pc' # p
    BY <2>1 DEF SavedNow, Saving, Parts
  <2>3. /\ tracker.of \in Version /\ tracker.of \in Nat /\ lastCkpt \in Nat
        /\ tracker.kind \in {"absent", "torn", "whole"}
    BY ConstantsOK DEF TypeOK, DiskTypes, TrainerTypes, FileOf, Version
  <2> QED
    BY <2>1, <2>2, <2>3
<1>1. WrittenOK' /\ TrackedOK'
  BY <1>0, TrackedKept DEF Rest, WrittenOK, Saving
<1>2. CASE Crash
  <2>1. TrackerOK' /\ VersionsOK'
    BY <1>2 DEF Crash, TrackerOK, VersionsOK, Saving
  <2>2. PathsOK'
    <3>1. \A p \in Parts : Len(saved'[p]) = 0 /\ 1 .. Len(saved'[p]) = {}
      BY <1>2 DEF Crash
    <3> QED
      BY <1>0, <3>1 DEF PathsOK
  <2> QED
    BY <1>1, <2>1, <2>2 DEF Rest
<1>3. ASSUME pc = "down", stage' = stage, saved' = saved, lastCkpt' >= lastCkpt,
             lastCkpt' \in Nat, TrackerOK', lastCkpt' <= version', pc' # "down"
      PROVE  Rest'
  <2>1. stage = "open" /\ \A p \in Parts : ~SavedNow(p)
    BY <1>3 DEF Rest, VersionsOK, Saving, SavedNow, Parts
  <2>2. VersionsOK'
    BY <1>0, <1>3, <2>1 DEF VersionsOK
  <2>3. ASSUME NEW p \in Parts, NEW i \in 1 .. Len(saved[p]) PROVE saved[p][i] <= lastCkpt'
    <3>1. saved[p][i] <= lastCkpt /\ saved[p][i] \in Nat
      BY SMTT(30), <2>1, ConstantsOK DEF Rest, PathsOK, TypeOK, PathTypes, Version
    <3> QED
      BY <1>0, <1>3, <3>1
  <2>4. PathsOK'
    BY <1>0, <1>3, <2>3 DEF Rest, PathsOK
  <2> QED
    BY <1>1, <1>3, <2>2, <2>4 DEF Rest
<1>4. CASE FromScratch
  <2>1. /\ pc = "down" /\ tracker.kind = "absent" /\ pc' = "idle" /\ stage' = stage
        /\ saved' = saved /\ lastCkpt' = lastCkpt /\ version' = version
    BY <1>4 DEF FromScratch, trainerVars
  <2>2. lastCkpt = 0 /\ lastCkpt <= version
    BY <2>1 DEF Rest, VersionsOK
  <2>3. TrackerOK'
    BY <1>0, <2>1, <2>2 DEF TrackerOK
  <2> QED
    BY <1>0, <1>3, <2>1, <2>2, <2>3
<1>5. CASE LoadCheckpoint
  <2>1. /\ pc = "down" /\ tracker.kind = "whole" /\ pc' = "idle" /\ stage' = stage
        /\ saved' = saved /\ lastCkpt' = tracker.of /\ version' = tracker.of
    BY <1>5 DEF LoadCheckpoint
  <2>2. lastCkpt = 0
    BY <2>1 DEF Rest, VersionsOK
  <2>3. TrackerOK'
    BY <1>0, <2>1 DEF TrackerOK
  <2> QED
    BY <1>0, <1>3, <2>1, <2>2, <2>3
<1>6. CASE LoadRaises
  <2>1. /\ pc = "down" /\ tracker.kind # "absent" /\ pc' = "stuck" /\ stage' = stage
        /\ ~(tracker.kind = "whole" /\ Loadable(tracker.of))
        /\ saved' = saved /\ lastCkpt' = lastCkpt /\ version' = version
    BY <1>6 DEF LoadRaises, trainerVars
  <2>2. lastCkpt <= version
    BY DEF Rest, VersionsOK
  <2>3. tracker.kind = "torn"
    BY <1>0, <2>1 DEF Rest, TrackedOK
  <2>4. TrackerOK'
    BY <1>0, <2>1, <2>3 DEF TrackerOK
  <2> QED
    BY <1>0, <1>3, <2>1, <2>2, <2>4
<1> QED
  BY <1>2, <1>4, <1>5, <1>6

-----------------------------------------------------------------------------
LEMMA InitInvariant == Init => IInv
<1> SUFFICES ASSUME Init PROVE IInv
  OBVIOUS
<1>1. TypeOK
  BY InitType
<1>2. TrackerOK /\ VersionsOK /\ WrittenOK /\ TrackedOK
  BY DEF Init, TrackerOK, VersionsOK, WrittenOK, TrackedOK, Saving, SavedNow, Parts, Absent, File
<1>3. PathsOK
  <2>1. \A p \in Parts : Len(saved[p]) = 0 /\ 1 .. Len(saved[p]) = {}
    BY DEF Init
  <2> QED
    BY <2>1 DEF Init, PathsOK, Parts
<1> QED
  BY <1>1, <1>2, <1>3 DEF IInv

LEMMA StepInvariant ==
  ASSUME 1 \notin Keeps, IInv, [Next]_vars
  PROVE  IInv'
<1> USE DEF disk, trainerVars
<1>0. TypeOK /\ Rest /\ TypeOK'
  BY TypeStep DEF IInv, Rest
<1> SUFFICES Rest'
  BY <1>0 DEF IInv, Rest
<1>1. /\ version \in Nat /\ lastCkpt \in Nat /\ lastCkpt <= version
      /\ pc \notin Saving => stage = "open"
  BY <1>0, ConstantsOK DEF TypeOK, TrainerTypes, Version, Rest, VersionsOK
<1>2. CASE BeginStep
  BY <1>0, <1>1, <1>2, TrainingStep DEF BeginStep, Saving
<1>3. CASE \E s \in sessions : ResetEnv(s) \/ ResetRaises(s)
  BY <1>0, <1>3, QuietStep DEF ResetEnv, ResetRaises, restVars
<1>4. CASE FinishStep
  BY <1>0, <1>1, <1>4, TrainingStep DEF FinishStep, Saving, Step
<1>5. CASE Feed
  BY <1>0, <1>5, QuietStep DEF Feed, restVars
<1>6. CASE \E sample \in pipeline, esi \in BOOLEAN : Train(sample, esi)
  <2>1. PICK sample \in pipeline, esi \in BOOLEAN : Train(sample, esi)
    BY <1>6
  <2>2. version' \in Nat /\ version' >= version
    BY <1>1, <2>1 DEF Train
  <2>3. pc' = "actor" => lastCkpt < version'
    BY <1>1, <2>1, <2>2 DEF Train, SaveIsDue
  <2>4. pc' \in {"actor", "idle"} /\ pc = "idle"
    BY <2>1 DEF Train
  <2> QED
    BY <1>0, <1>1, <2>1, <2>2, <2>3, <2>4, TrainingStep DEF Train, Saving
<1>7. CASE Finish
  BY <1>0, <1>1, <1>7, TrainingStep DEF Finish, SaveIsDue, Saving
<1>8. CASE \E p \in Parts : OpenPart(p) \/ WritePart(p) \/ RegisterPart(p)
  BY <1>0, <1>8, OpenStep, WriteStep, RegisterStep
<1>9. CASE SaveData \/ SaveTracker
  BY <1>0, <1>9, SaveDataStep, SaveTrackerStep
<1>10. CASE Crash \/ FromScratch \/ LoadCheckpoint \/ LoadRaises
  BY <1>0, <1>10, RestartStep
<1>11. CASE UNCHANGED vars
  BY <1>0, <1>11, QuietStep DEF vars, restVars
<1> QED
  BY <1>2, <1>3, <1>4, <1>5, <1>6, <1>7, <1>8, <1>9, <1>10, <1>11 DEF Next, Over

LEMMA InvariantImplies == IInv => TrackedIsWhole
<1> SUFFICES ASSUME IInv PROVE TrackedIsWhole
  OBVIOUS
<1>1. pc = "idle" /\ lastCkpt > 0 => tracker = File("whole", lastCkpt)
  <2>1. pc = "idle" /\ lastCkpt > 0 => tracker.kind = "whole" /\ tracker.of = lastCkpt
    BY DEF IInv, TrackerOK
  <2>2. tracker = [kind |-> tracker.kind, of |-> tracker.of]
    BY DEF IInv, TypeOK, DiskTypes, FileOf
  <2> QED
    BY <2>1, <2>2 DEF File
<1> QED
  BY <1>1 DEF IInv, TrackerOK, TrackedOK, TrackedIsWhole

-----------------------------------------------------------------------------
(* Every variable of a training keeps its type through saves, crashes and  *)
(* resumptions, and no manager remembers more paths than it may keep       *)
(* (ensure_checkpoint_capacity, register_checkpoint).                      *)
THEOREM TypeCorrect == Spec => []TypeOK
<1>1. TypeOK /\ [Next]_vars => TypeOK'
  BY TypeStep
<1> QED
  BY InitType, <1>1, PTL DEF Spec

(* Unless exactly one checkpoint is kept, the tracked checkpoint can be    *)
(* loaded at every moment, of both trainers and after any number of        *)
(* crashes; a restart is stopped by a torn tracker file only.              *)
THEOREM TrackedCorrect ==
  ASSUME 1 \notin Keeps
  PROVE  Spec => []TrackedIsWhole
<1>1. IInv /\ [Next]_vars => IInv'
  BY StepInvariant
<1> QED
  BY InitInvariant, <1>1, InvariantImplies, PTL DEF Spec

-----------------------------------------------------------------------------
(* The synchronous trainer: what is on the disk is the state of the        *)
(* version it is filed under.                                              *)
Alive == pc \notin {"down", "stuck"}
Upto(n) == [i \in 1 .. n |-> i]

FilesOK ==
  /\ \A p \in Parts : \A v \in Version :
       shards[p][v].kind # "absent" => shards[p][v].of = Upto(v)
  /\ \A v \in Version : data[v].kind # "absent" => data[v].of = v
  /\ tracker.kind = "whole" => data[tracker.of].kind # "absent"
  /\ pc = "tracker" \/ (pc = "data" /\ stage = "write") => data[version].kind # "absent"

(* Of a worker that is not troubled, only this step's session is pending. *)
SessionsOK ==
  Alive => \A s \in sessions : s[2] \in troubled \/ (pc = "rollout" /\ s[1] = Step)

(* A process that has just started. *)
DownOK ==
  pc = "down" =>
    /\ weights = <<>> /\ version = 0 /\ position = 0
    /\ cursor = [w \in Workers |-> CursorAt(0)]
    /\ sessions = {}

SyncInv ==
  mode = "sync" => SyncResumesExactly /\ FilesOK /\ SessionsOK /\ DownOK

(* A number has one quotient and one remainder. *)
LEMMA DivisionIsUnique ==
  ASSUME NEW c \in Nat, NEW g \in Nat \ {0}, NEW q \in Nat, NEW r \in 0 .. g - 1,
         c = g * q + r
  PROVE  c \div g = q /\ c % g = r
<1>1. c \div g = q
  OBVIOUS
<1>2. c % g = r
  OBVIOUS
<1> QED
  BY <1>1, <1>2

(* One reset takes a cursor from one step to the next. *)
LEMMA NextCursor ==
  ASSUME NEW c \in Nat
  PROVE  [count |-> CursorAt(c).count + 1, place |-> Advance(CursorAt(c).place)] = CursorAt(c + 1)
<1> DEFINE q == c \div Games
           r == c % Games
<1>1. Games \in Nat \ {0} /\ c + 1 \in Nat
  BY ConstantsOK
<1>2. q \in Nat /\ r \in 0 .. Games - 1 /\ c = Games * q + r
  BY <1>1
<1>3. IteratorAt(c) = [cycle |-> q, offset |-> r]
  BY DEF IteratorAt
<1> HIDE DEF q, r
<1>4. Advance(IteratorAt(c)) = IteratorAt(c + 1)
  <2>1. CASE r + 1 < Games
    <3>1. r + 1 \in 0 .. Games - 1 /\ c + 1 = Games * q + (r + 1)
      BY <1>1, <1>2, <2>1
    <3>2. (c + 1) \div Games = q /\ (c + 1) % Games = r + 1
      BY <1>1, <1>2, <3>1, DivisionIsUnique
    <3> QED
      BY <1>3, <2>1, <3>2 DEF IteratorAt, Advance
  <2>2. CASE ~(r + 1 < Games)
    <3>1. r + 1 = Games
      BY <1>1, <1>2, <2>2
    <3>2. c + 1 = Games * (q + 1) + 0 /\ 0 \in 0 .. Games - 1 /\ q + 1 \in Nat
      BY <1>1, <1>2, <3>1
    <3>3. (c + 1) \div Games = q + 1 /\ (c + 1) % Games = 0
      BY <1>1, <3>2, DivisionIsUnique
    <3> QED
      BY <1>3, <2>2, <3>3 DEF IteratorAt, Advance
  <2> QED
    BY <2>1, <2>2
<1> QED
  BY <1>4 DEF CursorAt

(* The files of the synchronous trainer change in these ways only. *)
LEMMA FilesKept ==
  ASSUME FilesOK, UNCHANGED <<shards, data, tracker, version>>,
         pc' \notin {"data", "tracker"}
  PROVE  FilesOK'
BY DEF FilesOK

(* A part's save changes its shards in these ways only. *)
LEMMA PartChange ==
  ASSUME TypeOK, NEW p \in Parts, OpenPart(p) \/ WritePart(p) \/ RegisterPart(p)
  PROVE  \A q \in Parts : \A v \in Version :
           \/ shards'[q][v] = shards[q][v]
           \/ shards'[q][v] = NoShards
           \/ v = version /\ \E kind \in {"torn", "whole"} : shards'[q][v] = File(kind, weights)
<1>1. version \in Version
  BY DEF TypeOK, TrainerTypes
<1> SUFFICES ASSUME NEW q \in Parts, NEW v \in Version
             PROVE  \/ shards'[q][v] = shards[q][v]
                    \/ shards'[q][v] = NoShards
                    \/ /\ v = version
                       /\ \E kind \in {"torn", "whole"} : shards'[q][v] = File(kind, weights)
  OBVIOUS
<1>2. CASE OpenPart(p)
  <2>1. shards' = [shards EXCEPT ![p] =
                     [Without(shards[p], Dropped(saved[p], RoomForNew(saved[p])))
                        EXCEPT ![version] = File("torn", weights)]]
    BY <1>2 DEF OpenPart
  <2>2. shards'[q][v] =
          IF q = p /\ v = version THEN File("torn", weights)
          ELSE IF q = p THEN Without(shards[p], Dropped(saved[p], RoomForNew(saved[p])))[v]
          ELSE shards[q][v]
    BY <1>1, <2>1 DEF TypeOK, DiskTypes, Without
  <2> QED
    BY <2>2 DEF Without
<1>3. CASE WritePart(p)
  <2>1. shards' = [shards EXCEPT ![p][version] = File("whole", weights)]
    BY <1>3 DEF WritePart
  <2>2. shards'[q][v] = IF q = p /\ v = version THEN File("whole", weights) ELSE shards[q][v]
    BY <1>1, <2>1 DEF TypeOK, DiskTypes
  <2> QED
    BY <2>2
<1>4. CASE RegisterPart(p)
  <2>1. PICK gone : shards' = [shards EXCEPT ![p] = Without(shards[p], gone)]
    BY <1>4 DEF RegisterPart
  <2> QED
    BY <2>1 DEF TypeOK, DiskTypes, Without
<1> QED
  BY <1>2, <1>3, <1>4

LEMMA SavingFiles ==
  ASSUME TypeOK, SyncInv, mode = "sync", NEW p \in Parts,
         OpenPart(p) \/ WritePart(p) \/ RegisterPart(p)
  PROVE  FilesOK'
<1>1. /\ pc = p /\ weights = Upto(version) /\ version \in Version
      /\ UNCHANGED <<data, tracker, version>>
      /\ pc' \in {p, "critic", "data"} /\ (pc' = "data" => stage' = "open")
  BY DEF SyncInv, SyncResumesExactly, Upto, Parts, TypeOK, TrainerTypes, OpenPart, WritePart,
     RegisterPart, trainerVars
<1>2. \A kind \in {"torn", "whole"} : File(kind, weights).of = Upto(version)
  BY <1>1 DEF File
<1>3. NoShards.kind = "absent"
  BY DEF NoShards, File
<1>4. ASSUME NEW q \in Parts, NEW v \in Version, shards'[q][v].kind # "absent"
      PROVE  shards'[q][v].of = Upto(v)
  <2>1. shards[q][v].kind # "absent" => shards[q][v].of = Upto(v)
    BY DEF SyncInv, FilesOK
  <2>2. \/ shards'[q][v] = shards[q][v]
        \/ shards'[q][v] = NoShards
        \/ v = version /\ \E kind \in {"torn", "whole"} : shards'[q][v] = File(kind, weights)
    BY PartChange
  <2> QED
    BY <1>2, <1>3, <1>4, <2>1, <2>2
<1> QED
  BY <1>1, <1>4 DEF SyncInv, FilesOK, Parts

LEMMA SyncDataStep ==
  ASSUME TypeOK, SyncInv, mode = "sync", SaveData
  PROVE  FilesOK'
<1>1. /\ pc = "data" /\ version \in Version /\ position = version
      /\ UNCHANGED <<shards, tracker, version>>
      /\ data \in [Version -> FileOf(Nat)] /\ tracker.of \in Version
  BY DEF SyncInv, SyncResumesExactly, SaveData, trainerVars, TypeOK, TrainerTypes, DiskTypes,
     FileOf
<1>2. FilesOK
  BY DEF SyncInv
<1>3. CASE stage = "open"
  <2>1. /\ data' = [data EXCEPT ![version] = File("torn", position)]
    BY <1>3 DEF SaveData
  <2>2. \A v \in Version : data'[v] = IF v = version THEN File("torn", version) ELSE data[v]
    BY <1>1, <2>1
  <2> QED
    BY <1>1, <1>2, <2>2 DEF FilesOK, File
<1>4. CASE stage = "write"
  <2>1. data' = [data EXCEPT ![version].kind = "whole"]
    BY <1>4 DEF SaveData
  <2>2. data[version].of = version
    BY <1>1, <1>2, <1>4 DEF FilesOK
  <2>3. \A v \in Version : data'[v] = IF v = version THEN [data[v] EXCEPT !.kind = "whole"] ELSE data[v]
    BY <1>1, <2>1
  <2>4. data'[version].kind = "whole" /\ data'[version].of = version
    BY <1>1, <2>2, <2>3 DEF FileOf
  <2> QED
    BY <1>1, <1>2, <2>3, <2>4 DEF FilesOK
<1> QED
  BY <1>3, <1>4 DEF SaveData

LEMMA SyncTrackerStep ==
  ASSUME TypeOK, FilesOK, SaveTracker
  PROVE  FilesOK'
<1>1. pc = "tracker" /\ UNCHANGED <<shards, data, version>>
      /\ data[version].kind # "absent"
  BY DEF SaveTracker, FilesOK
<1>2. tracker' = File("torn", tracker.of) \/ tracker' = File("whole", version)
  BY DEF SaveTracker
<1>3. tracker'.kind = "torn" \/ (tracker'.kind = "whole" /\ tracker'.of = version)
  BY <1>2 DEF File
<1> QED
  BY <1>1, <1>3 DEF FilesOK

(* Steps that leave what the trainer and its workers hold alone. *)
LEMMA SameMemory ==
  ASSUME SyncResumesExactly, SessionsOK, mode = "sync",
         UNCHANGED <<mode, weights, version, position, cursor, sessions, troubled>>,
         Alive, pc # "rollout", pc' \notin {"down", "stuck", "rollout"}
  PROVE  SyncResumesExactly' /\ SessionsOK'
<1>1. SyncResumesExactly'
  BY DEF SyncResumesExactly, Alive, Step
<1>2. SessionsOK'
  BY DEF SessionsOK, Alive
<1> QED
  BY <1>1, <1>2

LEMMA BeginSync ==
  ASSUME TypeOK, SyncInv, BeginStep
  PROVE  SyncResumesExactly' /\ SessionsOK'
<1>1. /\ mode = "sync" /\ mode' = mode /\ pc = "idle" /\ pc' = "rollout"
      /\ UNCHANGED <<weights, version, cursor, troubled>>
      /\ position' = position + 1 /\ sessions' = sessions \cup { <<Step, w>> : w \in Workers }
      /\ Step' = Step
  BY DEF BeginStep, trainerVars, Step
<1>2. SyncResumesExactly /\ SessionsOK
  BY <1>1 DEF SyncInv
<1>3. \A w \in Workers : <<Step, w>> \in sessions'
  BY <1>1
<1>4. SessionsOK'
  BY <1>1, <1>2 DEF SessionsOK, Alive
<1>5. SyncResumesExactly'
  BY <1>1, <1>2, <1>3 DEF SyncResumesExactly, Step
<1> QED
  BY <1>4, <1>5

LEMMA ResetSync ==
  ASSUME TypeOK, SyncInv, mode = "sync", NEW s \in sessions, ResetEnv(s) \/ ResetRaises(s)
  PROVE  SyncResumesExactly' /\ SessionsOK'
<1>1. /\ Alive /\ s \in Samples \X Workers /\ s = <<s[1], s[2]>> /\ s[2] \in Workers
      /\ UNCHANGED <<mode, pc, weights, version, position>> /\ Step' = Step
      /\ sessions' = sessions \ {s}
      /\ version \in Nat
  <2>1. Running /\ sessions' = sessions \ {s} /\ UNCHANGED <<mode, pc, trainerVars, feedVars>>
    BY DEF ResetEnv, ResetRaises
  <2>2. s \in Samples \X Workers /\ version \in Nat
    BY ConstantsOK DEF TypeOK, EnvTypes, TrainerTypes, Version
  <2>3. s = <<s[1], s[2]>> /\ s[2] \in Workers
    BY <2>2
  <2> QED
    BY <2>1, <2>2, <2>3 DEF Running, Alive, trainerVars, feedVars, Step
<1>2. SyncResumesExactly /\ SessionsOK
  BY DEF SyncInv
<1>3. \A w \in Workers : w # s[2] => cursor'[w] = cursor[w]
  BY DEF ResetEnv, ResetRaises, TypeOK, EnvTypes
<1>4. troubled \subseteq troubled' /\ (ResetRaises(s) => s[2] \in troubled')
  BY DEF ResetEnv, ResetRaises
<1>5. SessionsOK'
  BY <1>1, <1>2, <1>4 DEF SessionsOK, Alive
<1>6. ASSUME NEW w \in Workers \ troubled'
      PROVE  cursor'[w] = CursorAt(IF pc = "rollout" /\ <<Step, w>> \notin sessions'
                                   THEN Step ELSE version)
  <2>1. w \notin troubled
    BY <1>4, <1>6
  <2>2. cursor[w] = CursorAt(IF pc = "rollout" /\ <<Step, w>> \notin sessions
                             THEN Step ELSE version)
    BY <1>1, <1>2, <2>1 DEF SyncResumesExactly, Alive
  <2>3. CASE w # s[2]
    <3>1. <<Step, w>> \in sessions' <=> <<Step, w>> \in sessions
      BY <1>1, <2>3
    <3> QED
      BY <1>3, <2>2, <2>3, <3>1
  <2>4. CASE w = s[2]
    <3>1. pc = "rollout" /\ s[1] = Step /\ s = <<Step, w>>
      BY <1>1, <1>2, <2>1, <2>4 DEF SessionsOK
    <3>2. cursor[w] = CursorAt(version) /\ <<Step, w>> \notin sessions'
      BY <1>1, <2>2, <3>1
    <3>3. ResetEnv(s)
      BY <1>4, <1>6, <2>4
    <3>4. cursor'[w] = [count |-> cursor[w].count + 1, place |-> Advance(cursor[w].place)]
      BY <2>4, <3>3 DEF ResetEnv, TypeOK, EnvTypes
    <3> QED
      BY <1>1, <3>1, <3>2, <3>4, NextCursor DEF Step
  <2> QED
    BY <2>3, <2>4
<1>7. SyncResumesExactly'
  BY <1>1, <1>2, <1>6 DEF SyncResumesExactly, Alive
<1> QED
  BY <1>5, <1>7

LEMMA FinishSync ==
  ASSUME TypeOK, SyncInv, FinishStep
  PROVE  SyncResumesExactly' /\ SessionsOK'
<1>1. /\ mode = "sync" /\ mode' = mode /\ pc = "rollout" /\ pc' \in {"actor", "idle"}
      /\ weights' = Append(weights, position) /\ version' = Step
      /\ troubled' = troubled \cup { s[2] : s \in Pending(Step) }
      /\ UNCHANGED <<position, cursor, sessions>>
      /\ version \in Nat
  BY ConstantsOK DEF FinishStep, feedVars, TypeOK, TrainerTypes, Version
<1>2. SyncResumesExactly /\ SessionsOK
  BY <1>1 DEF SyncInv
<1>3. SessionsOK'
  <2>1. \A s \in sessions : s[2] \in troubled'
    BY <1>1, <1>2 DEF SessionsOK, Alive, Pending
  <2> QED
    BY <1>1, <2>1 DEF SessionsOK
<1>4. weights = Upto(version) /\ position = Step
  BY <1>1, <1>2 DEF SyncResumesExactly, Upto
<1>5. weights' = Upto(Step)
  <2>1. Upto(version) \in Seq(Nat) /\ Len(Upto(version)) = version
    BY <1>1 DEF Upto
  <2>2. Append(Upto(version), version + 1) = Upto(version + 1)
    BY <1>1, <2>1 DEF Upto
  <2> QED
    BY <1>1, <1>4, <2>2 DEF Step
<1>6. ASSUME NEW w \in Workers \ troubled' PROVE cursor[w] = CursorAt(Step)
  <2>1. w \notin troubled /\ <<Step, w>> \notin sessions
    BY <1>1, <1>6 DEF Pending
  <2> QED
    BY <1>1, <1>2, <2>1 DEF SyncResumesExactly
<1>7. SyncResumesExactly'
  BY <1>1, <1>4, <1>5, <1>6 DEF SyncResumesExactly, Upto
<1> QED
  BY <1>3, <1>7

LEMMA RestartSync ==
  ASSUME TypeOK, SyncInv, mode = "sync", Crash \/ FromScratch \/ LoadCheckpoint \/ LoadRaises
  PROVE  SyncResumesExactly' /\ SessionsOK' /\ DownOK'
<1> USE DEF trainerVars, feedVars, envVars
<1>1. SyncResumesExactly /\ FilesOK /\ SessionsOK /\ DownOK
  BY DEF SyncInv
<1>2. CASE Crash
  BY <1>2 DEF Crash, SyncResumesExactly, SessionsOK, DownOK, Alive
<1>3. CASE FromScratch
  <2>1. /\ pc = "down" /\ pc' = "idle" /\ mode' = mode
        /\ UNCHANGED <<weights, version, position, cursor, sessions, troubled>>
    BY <1>3 DEF FromScratch
  <2>2. SyncResumesExactly'
    <3>1. weights' = [i \in 1 .. 0 |-> i]
      BY <1>1, <2>1 DEF DownOK
    <3> QED
      BY <1>1, <2>1, <3>1 DEF DownOK, SyncResumesExactly
  <2> QED
    BY <1>1, <2>1, <2>2 DEF DownOK, SessionsOK
<1>4. CASE LoadCheckpoint
  <2> DEFINE v == tracker.of
  <2>1. /\ pc = "down" /\ tracker.kind = "whole" /\ Loadable(v) /\ pc' = "idle"
        /\ weights' = shards["actor"][v].of /\ version' = v
        /\ position' = data[v].of
        /\ cursor' = [w \in Workers |-> CursorAt(v)]
        /\ UNCHANGED <<mode, sessions>>
    BY <1>4 DEF LoadCheckpoint
  <2>2. v \in Version
    BY DEF TypeOK, DiskTypes, FileOf
  <2>3. weights' = Upto(v) /\ position' = v
    BY <1>1, <2>1, <2>2 DEF FilesOK, Loadable, Parts
  <2>4. sessions' = {}
    BY <1>1, <2>1 DEF DownOK
  <2> HIDE DEF v
  <2>5. SyncResumesExactly'
    BY <2>1, <2>3 DEF SyncResumesExactly, Upto
  <2> QED
    BY <2>1, <2>4, <2>5 DEF SessionsOK, DownOK
<1>5. CASE LoadRaises
  BY <1>5 DEF LoadRaises, SyncResumesExactly, SessionsOK, DownOK, Alive
<1> QED
  BY <1>2, <1>3, <1>4, <1>5

LEMMA InitSync == Init => SyncInv
<1> SUFFICES ASSUME Init PROVE SyncInv
  OBVIOUS
<1>1. <<>> = [i \in 1 .. 0 |-> i]
  OBVIOUS
<1>2. SyncResumesExactly
  BY <1>1 DEF Init, SyncResumesExactly
<1>3. FilesOK
  BY DEF Init, FilesOK, Absent, NoShards, File, Parts
<1>4. SessionsOK /\ DownOK
  BY DEF Init, SessionsOK, DownOK
<1> QED
  BY <1>2, <1>3, <1>4 DEF SyncInv

LEMMA SyncStep ==
  ASSUME TypeOK, SyncInv, [Next]_vars
  PROVE  SyncInv'
<1> USE DEF disk, trainerVars, feedVars, envVars
<1>0. SUFFICES ASSUME mode' = "sync"
               PROVE  SyncResumesExactly' /\ FilesOK' /\ SessionsOK' /\ DownOK'
  BY DEF SyncInv
<1>1. mode' = mode
  BY DEF Next, Over, vars, BeginStep, ResetEnv, ResetRaises, FinishStep, Feed, Train, Finish,
     OpenPart, WritePart, RegisterPart, SaveData, SaveTracker, Crash, FromScratch,
     LoadCheckpoint, LoadRaises
<1>2. mode = "sync" /\ SyncResumesExactly /\ FilesOK /\ SessionsOK /\ DownOK
  BY <1>0, <1>1 DEF SyncInv
<1>3. CASE BeginStep
  <2>1. FilesOK' /\ DownOK'
    BY <1>2, <1>3, FilesKept DEF BeginStep, DownOK
  <2> QED
    BY <1>3, <2>1, BeginSync
<1>4. CASE \E s \in sessions : ResetEnv(s) \/ ResetRaises(s)
  <2>1. UNCHANGED <<shards, data, tracker, version, pc, stage>> /\ Running
    BY <1>4 DEF ResetEnv, ResetRaises
  <2>2. FilesOK' /\ DownOK'
    BY <1>2, <2>1 DEF FilesOK, DownOK, Running
  <2> QED
    BY <1>2, <1>4, <2>2, ResetSync
<1>5. CASE FinishStep
  <2>1. UNCHANGED <<shards, data, tracker>> /\ pc' \in {"actor", "idle"}
    BY <1>5 DEF FinishStep
  <2>2. FilesOK' /\ DownOK'
    BY <1>2, <2>1 DEF FilesOK, DownOK
  <2> QED
    BY <1>5, <2>2, FinishSync
<1>6. CASE Feed \/ \E sample \in pipeline, esi \in BOOLEAN : Train(sample, esi)
  BY <1>2, <1>6 DEF Feed, Train
<1>7. CASE Finish
  <2>1. /\ UNCHANGED <<mode, shards, data, tracker, weights, version, position, cursor, sessions,
                       troubled>>
        /\ pc = "idle" /\ pc' \in {"actor", "ended"}
    BY <1>7 DEF Finish
  <2>2. SyncResumesExactly' /\ SessionsOK'
    BY <1>2, <2>1, SameMemory DEF Alive
  <2> QED
    BY <1>2, <2>1, <2>2, FilesKept DEF DownOK
<1>8. ASSUME NEW p \in Parts, OpenPart(p) \/ WritePart(p) \/ RegisterPart(p)
      PROVE  SyncResumesExactly' /\ FilesOK' /\ SessionsOK' /\ DownOK'
  <2>1. /\ UNCHANGED <<mode, weights, version, position, cursor, sessions, troubled>>
        /\ pc \in Parts /\ pc' \in {"actor", "critic", "data"}
    BY <1>8 DEF OpenPart, WritePart, RegisterPart, Parts
  <2>2. SyncResumesExactly' /\ SessionsOK'
    BY <1>2, <2>1, SameMemory DEF Alive, Parts
  <2> QED
    BY <1>2, <1>8, <2>1, <2>2, SavingFiles DEF DownOK
<1>9. CASE SaveData \/ SaveTracker
  <2>1. /\ UNCHANGED <<mode, weights, version, position, cursor, sessions, troubled>>
        /\ pc \in {"data", "tracker"} /\ pc' \in {"data", "tracker", "idle"}
    BY <1>9 DEF SaveData, SaveTracker
  <2>2. SyncResumesExactly' /\ SessionsOK'
    BY <1>2, <2>1, SameMemory DEF Alive
  <2> QED
    BY <1>2, <1>9, <2>1, <2>2, SyncDataStep, SyncTrackerStep DEF DownOK
<1>10. CASE Crash \/ FromScratch \/ LoadCheckpoint \/ LoadRaises
  <2>1. UNCHANGED <<shards, data, tracker>> /\ pc' \in {"down", "idle", "stuck"}
    BY <1>10 DEF Crash, FromScratch, LoadCheckpoint, LoadRaises
  <2>2. FilesOK'
    BY <1>2, <2>1 DEF FilesOK
  <2> QED
    BY <1>2, <1>10, <2>2, RestartSync
<1>11. CASE UNCHANGED vars
  BY <1>2, <1>11 DEF vars, SyncResumesExactly, FilesOK, SessionsOK, DownOK, Alive, Step
<1> QED
  BY <1>3, <1>4, <1>5, <1>6, <1>7, <1>8, <1>9, <1>10, <1>11 DEF Next, Over

(* A synchronous training takes every batch of the dataloader once and in  *)
(* order, and its untroubled workers play the game of the step, after any  *)
(* number of crashes (_load_checkpoint, _load_alfworld_env_state).         *)
THEOREM SyncCorrect == Spec => []SyncResumesExactly
<1>1. TypeOK /\ SyncInv /\ [Next]_vars => TypeOK' /\ SyncInv'
  BY TypeStep, SyncStep
<1>2. SyncInv => SyncResumesExactly
  BY DEF SyncInv, SyncResumesExactly
<1> QED
  BY InitType, InitSync, <1>1, <1>2, PTL DEF Spec

-----------------------------------------------------------------------------
(* The asynchronous trainer: how far a lineage, in memory or on the disk,  *)
(* can be from the run without a crash.  Every life leaves behind at most  *)
(* what was in flight and the steps of one version.                        *)
SetOf(lineage) == { lineage[i] : i \in 1 .. Len(lineage) }
Lives == IF Alive THEN crashes + 1 ELSE crashes

(* What is known of the weights of version v that are filed with the       *)
(* position p, after so many lives.                                        *)
Fits(lineage, v, p, lives) ==
  /\ Cardinality(SetOf(lineage)) = Len(lineage)
  /\ SetOf(lineage) \subseteq 1 .. p
  /\ Cardinality((1 .. p) \ SetOf(lineage)) <= lives * Ahead
  /\ Len(lineage) - v * Trigger \in 0 .. lives * (Trigger - 1)

(* The samples of this life: one is trained, in flight, or was skipped by  *)
(* an earlier life.                                                        *)
SamplesOK ==
  Alive =>
    /\ Cardinality(SetOf(weights)) = Len(weights)
    /\ SetOf(weights) \subseteq 1 .. position
    /\ pipeline \subseteq (1 .. position) \ SetOf(weights)
    /\ Cardinality(pipeline) <= Ahead
    /\ Cardinality((1 .. position) \ (SetOf(weights) \cup pipeline)) <= crashes * Ahead

(* The steps beyond the versions are those of earlier lives, and the step  *)
(* counter follows the versions.                                           *)
StepsOK ==
  Alive =>
    /\ Len(weights) - version * Trigger - (localStep - 1) \in 0 .. crashes * (Trigger - 1)
    /\ globalSteps - version * Trigger - localStep \in {0, 1}
    /\ crashes = 0 => globalSteps = version * Trigger + localStep

(* The tracker names what was last saved or loaded, which is never saved   *)
(* again.                                                                  *)
LastOK ==
  /\ Alive /\ tracker.kind = "whole" => tracker.of = lastCkpt
  /\ pc \in Saving => lastCkpt # version
  /\ pc \notin Saving => stage = "open"

ActorOK ==
  SavedNow("actor") \/ (pc = "actor" /\ stage # "open") =>
    shards["actor"][version].kind = "absent" \/ shards["actor"][version].of = weights

DiskOK ==
  /\ pc = "tracker" \/ (pc = "data" /\ stage = "write") =>
       Fits(weights, version, data[version].of, Lives)
  /\ tracker.kind = "whole" /\ shards["actor"][tracker.of].kind = "whole" =>
       Fits(shards["actor"][tracker.of].of, tracker.of, data[tracker.of].of, Lives)

StartedOK ==
  pc = "down" => /\ weights = <<>> /\ version = 0 /\ position = 0 /\ pipeline = {}
                 /\ localStep = 1 /\ globalSteps = 1 /\ crashes > 0

DriftInv ==
  mode = "async" => SamplesOK /\ StepsOK /\ LastOK /\ ActorOK /\ DiskOK /\ StartedOK

(* The types, and the products that the bounds are made of. *)
LEMMA DriftTypes ==
  ASSUME TypeOK
  PROVE  /\ crashes \in Nat /\ Ahead \in Nat /\ Trigger \in Nat /\ Trigger >= 1
         /\ Trigger - 1 \in Nat /\ localStep \in Nat /\ Len(weights) \in Nat
         /\ version \in Nat /\ position \in Nat /\ globalSteps \in Nat
         /\ weights \in Seq(Nat) /\ localStep \in 1 .. Trigger
         /\ crashes * Ahead \in Nat /\ (crashes + 1) * Ahead = crashes * Ahead + Ahead
         /\ crashes * (Trigger - 1) \in Nat
         /\ (crashes + 1) * (Trigger - 1) = crashes * (Trigger - 1) + (Trigger - 1)
         /\ version * Trigger \in Nat
         /\ (version + 1) * Trigger = version * Trigger + Trigger
<1>1. /\ crashes \in Nat /\ Ahead \in Nat /\ Trigger \in Nat /\ Trigger >= 1
      /\ version \in Nat /\ position \in Nat /\ globalSteps \in Nat
      /\ weights \in Seq(Nat) /\ localStep \in 1 .. Trigger
  BY ConstantsOK DEF TypeOK, TrainerTypes, FeedTypes, Version, Samples
<1>2. crashes * Ahead \in Nat /\ (crashes + 1) * Ahead = crashes * Ahead + Ahead
  BY <1>1
<1>3. Trigger - 1 \in Nat /\ localStep \in Nat /\ Len(weights) \in Nat
  BY <1>1
<1>4. /\ crashes * (Trigger - 1) \in Nat
      /\ (crashes + 1) * (Trigger - 1) = crashes * (Trigger - 1) + (Trigger - 1)
  BY <1>1, <1>3
<1>5. version * Trigger \in Nat /\ (version + 1) * Trigger = version * Trigger + Trigger
  BY <1>1
<1> QED
  BY <1>1, <1>2, <1>3, <1>4, <1>5, Zenon

(* What appending a sample does to a lineage. *)
LEMMA LongerLineage ==
  ASSUME NEW l \in Seq(Nat), NEW x \in Nat
  PROVE  SetOf(Append(l, x)) = SetOf(l) \cup {x} /\ Len(Append(l, x)) = Len(l) + 1
<1> DEFINE m == Append(l, x)
<1>1. /\ Len(m) = Len(l) + 1 /\ Len(l) \in Nat
      /\ \A i \in 1 .. Len(l) : m[i] = l[i]
      /\ m[Len(l) + 1] = x
  BY AppendFacts
<1> HIDE DEF m
<1>2. 1 .. Len(m) = (1 .. Len(l)) \cup {Len(l) + 1}
  BY <1>1
<1>3. { m[i] : i \in 1 .. Len(m) } = { l[i] : i \in 1 .. Len(l) } \cup {x}
  BY <1>1, <1>2
<1> QED
  BY <1>1, <1>3 DEF SetOf, m

(* What fits after n lives fits after one more. *)
LEMMA FitsLater ==
  ASSUME TypeOK, NEW l, NEW v, NEW p \in Nat, Fits(l, v, p, crashes)
  PROVE  Fits(l, v, p, crashes + 1)
<1>1. Cardinality((1 .. p) \ SetOf(l)) \in Nat
  <2>1. IsFiniteSet(1 .. p)
    BY FS_Interval
  <2>2. IsFiniteSet((1 .. p) \ SetOf(l))
    BY <2>1, FS_Subset
  <2> QED
    BY <2>2, FS_CardinalityType
<1>2. /\ Cardinality((1 .. p) \ SetOf(l)) <= (crashes + 1) * Ahead
      /\ Len(l) - v * Trigger \in 0 .. (crashes + 1) * (Trigger - 1)
  <2> DEFINE a == crashes * Ahead
             b == crashes * (Trigger - 1)
             c == Cardinality((1 .. p) \ SetOf(l))
             d == Len(l) - v * Trigger
  <2>1. /\ a \in Nat /\ b \in Nat /\ Ahead \in Nat /\ Trigger - 1 \in Nat
        /\ (crashes + 1) * Ahead = a + Ahead
        /\ (crashes + 1) * (Trigger - 1) = b + (Trigger - 1)
    BY DriftTypes, Zenon
  <2>2. c <= a /\ d \in 0 .. b /\ c \in Nat
    BY <1>1 DEF Fits
  <2> HIDE DEF a, b, c, d
  <2>3. c <= a + Ahead /\ d \in 0 .. b + (Trigger - 1)
    BY <2>1, <2>2
  <2> QED
    BY <2>1, <2>3 DEF c, d
<1> QED
  BY <1>2 DEF Fits

(* Reading the next sample of the dataloader. *)
LEMMA FeedDrift ==
  ASSUME TypeOK, SamplesOK, Feed
  PROVE  SamplesOK'
<1>1. /\ pc \notin {"down", "stuck"} /\ UNCHANGED <<pc, weights, crashes>>
      /\ Cardinality(pipeline) < Ahead
      /\ position' = position + 1 /\ pipeline' = pipeline \cup {position + 1}
  BY DEF Feed, Running, trainerVars
<1>2. /\ Cardinality(SetOf(weights)) = Len(weights)
      /\ SetOf(weights) \subseteq 1 .. position
      /\ pipeline \subseteq (1 .. position) \ SetOf(weights)
      /\ Cardinality((1 .. position) \ (SetOf(weights) \cup pipeline)) <= crashes * Ahead
  BY <1>1 DEF SamplesOK, Alive
<1>3. /\ position \in Nat /\ Ahead \in Nat /\ position + 1 \notin 1 .. position
      /\ 1 .. position + 1 = (1 .. position) \cup {position + 1}
  <2>1. position \in Nat /\ Ahead \in Nat
    BY DriftTypes
  <2> QED
    BY <2>1
<1>4. Cardinality(pipeline') <= Ahead
  <2>0. IsFiniteSet(1 .. position)
    BY <1>3, FS_Interval
  <2>1. IsFiniteSet(pipeline)
    BY <1>2, <2>0, FS_Subset
  <2>2. Cardinality(pipeline) \in Nat /\ Cardinality(pipeline') = Cardinality(pipeline) + 1
    BY <1>1, <1>2, <1>3, <2>1, FS_AddElement, FS_CardinalityType
  <2> QED
    BY <1>1, <1>3, <2>2
<1>5. (1 .. position + 1) \ (SetOf(weights) \cup pipeline')
        = (1 .. position) \ (SetOf(weights) \cup pipeline)
  BY <1>1, <1>3
<1>6. /\ SetOf(weights) \subseteq 1 .. position + 1
      /\ pipeline' \subseteq (1 .. position + 1) \ SetOf(weights)
  BY <1>1, <1>2, <1>3
<1>7. SetOf(weights)' = SetOf(weights)
  BY <1>1 DEF SetOf
<1> QED
  BY <1>1, <1>2, <1>4, <1>5, <1>6, <1>7 DEF SamplesOK

(* Training on a sample in flight. *)
LEMMA TrainDrift ==
  ASSUME TypeOK, SamplesOK, StepsOK, NEW sample \in pipeline, NEW esi \in BOOLEAN,
         Train(sample, esi)
  PROVE  SamplesOK' /\ StepsOK'
<1>1. /\ pc = "idle" /\ pc' \in {"idle", "actor"} /\ Alive /\ Alive'
      /\ pipeline' = pipeline \ {sample} /\ weights' = Append(weights, sample)
      /\ globalSteps' = globalSteps + 1
      /\ UNCHANGED <<position, crashes>>
      /\ \/ localStep = Trigger /\ localStep' = 1 /\ version' = version + 1
         \/ localStep # Trigger /\ localStep' = localStep + 1 /\ version' = version
  BY DEF Train, Alive
<1>2. /\ Cardinality(SetOf(weights)) = Len(weights)
      /\ SetOf(weights) \subseteq 1 .. position
      /\ pipeline \subseteq (1 .. position) \ SetOf(weights)
      /\ Cardinality(pipeline) <= Ahead
      /\ Cardinality((1 .. position) \ (SetOf(weights) \cup pipeline)) <= crashes * Ahead
  BY <1>1 DEF SamplesOK
<1>3. position \in Nat /\ Ahead \in Nat /\ weights \in Seq(Nat) /\ IsFiniteSet(1 .. position)
  BY DriftTypes, FS_Interval
<1>4. sample \in 1 .. position /\ sample \notin SetOf(weights) /\ sample \in Nat
  BY <1>2, <1>3
<1>5. SetOf(weights)' = SetOf(weights) \cup {sample} /\ Len(weights') = Len(weights) + 1
  <2>1. /\ SetOf(Append(weights, sample)) = SetOf(weights) \cup {sample}
        /\ Len(Append(weights, sample)) = Len(weights) + 1
    BY <1>3, <1>4, LongerLineage
  <2>2. SetOf(weights)' = SetOf(Append(weights, sample))
    BY <1>1 DEF SetOf
  <2> QED
    BY <1>1, <2>1, <2>2
<1>6. Cardinality(SetOf(weights)') = Len(weights')
  <2>1. IsFiniteSet(SetOf(weights))
    BY <1>2, <1>3, FS_Subset
  <2> QED
    BY ZenonT(40), <1>2, <1>4, <1>5, <2>1, FS_AddElement
<1>7. Cardinality(pipeline') <= Ahead
  <2>1. IsFiniteSet(pipeline)
    BY <1>2, <1>3, FS_Subset
  <2>2. Cardinality(pipeline) \in Nat /\ Cardinality(pipeline') = Cardinality(pipeline) - 1
    BY <1>1, <2>1, FS_RemoveElement, FS_CardinalityType
  <2> QED
    BY <1>2, <1>3, <2>2
<1>8. SetOf(weights)' \cup pipeline' = SetOf(weights) \cup pipeline
  BY <1>1, <1>5
<1>9. /\ SetOf(weights)' \subseteq 1 .. position
      /\ pipeline' \subseteq (1 .. position) \ SetOf(weights)'
  BY <1>1, <1>2, <1>4, <1>5
<1>10. SamplesOK'
  BY <1>1, <1>2, <1>6, <1>7, <1>8, <1>9 DEF SamplesOK
<1>11. StepsOK'
  <2> DEFINE a == version * Trigger
             b == crashes * (Trigger - 1)
             n == Len(weights)
  <2>1. /\ a \in Nat /\ b \in Nat /\ n \in Nat /\ globalSteps \in Nat /\ Trigger \in Nat
        /\ localStep \in Nat
        /\ (version + 1) * Trigger = a + Trigger
    BY DriftTypes, Zenon
  <2>2. /\ n - a - (localStep - 1) \in 0 .. b
        /\ globalSteps - a - localStep \in {0, 1}
        /\ crashes = 0 => globalSteps = a + localStep
    BY <1>1 DEF StepsOK
  <2>3. /\ n + 1 - version' * Trigger - (localStep' - 1) \in 0 .. b
        /\ globalSteps + 1 - version' * Trigger - localStep' \in {0, 1}
        /\ crashes = 0 => globalSteps + 1 = version' * Trigger + localStep'
        /\ version' * Trigger \in Nat /\ localStep' \in Nat
    <3>1. CASE localStep = Trigger /\ localStep' = 1 /\ version' = version + 1
      <4>1. version' * Trigger = a + Trigger
        BY <2>1, <3>1
      <4> HIDE DEF a, b, n
      <4> QED
        BY <2>1, <2>2, <3>1, <4>1
    <3>2. CASE localStep' = localStep + 1 /\ version' = version
      <4>1. version' * Trigger = a
        BY <3>2
      <4> HIDE DEF a, b, n
      <4> QED
        BY <2>1, <2>2, <3>2, <4>1
    <3> QED
      BY <1>1, <3>1, <3>2
  <2>4. Len(weights') = n + 1 /\ globalSteps' = globalSteps + 1 /\ crashes' = crashes
    BY <1>1, <1>5
  <2>5. /\ Len(weights') - version' * Trigger - (localStep' - 1)
             \in 0 .. crashes' * (Trigger - 1)
        /\ globalSteps' - version' * Trigger - localStep' \in {0, 1}
        /\ crashes' = 0 => globalSteps' = version' * Trigger + localStep'
    <3>1. b = crashes' * (Trigger - 1)
      BY <2>4, Zenon
    <3> HIDE DEF b, n
    <3> DEFINE q == version' * Trigger
               t == localStep'
    <3>2. /\ n + 1 - q - (t - 1) \in 0 .. b
          /\ globalSteps + 1 - q - t \in {0, 1}
          /\ crashes = 0 => globalSteps + 1 = q + t
          /\ q \in Nat /\ t \in Nat /\ n \in Nat /\ b \in Nat /\ globalSteps \in Nat
      BY <2>1, <2>3, Zenon
    <3> HIDE DEF q, t
    <3>3. /\ Len(weights') - q - (t - 1) \in 0 .. b
          /\ globalSteps' - q - t \in {0, 1}
          /\ crashes' = 0 => globalSteps' = q + t
      BY <2>4, <3>2
    <3>4. Len(weights') - q - (t - 1) \in 0 .. crashes' * (Trigger - 1)
      <4>1. 0 .. crashes' * (Trigger - 1) = 0 .. b
        BY <3>1, Zenon
      <4> QED
        BY <3>3, <4>1, Zenon
    <3> QED
      BY <3>3, <3>4 DEF q, t
  <2> QED
    BY <2>5, Zenon DEF StepsOK
<1> QED
  BY <1>10, <1>11

(* What is in memory may be saved with the dataloader's position: what is  *)
(* in flight will then have been skipped.                                  *)
LEMMA MemoryFits ==
  ASSUME TypeOK, SamplesOK, StepsOK, Alive
  PROVE  Fits(weights, version, position, crashes + 1)
<1> DEFINE skipped == (1 .. position) \ (SetOf(weights) \cup pipeline)
<1>1. /\ Cardinality(SetOf(weights)) = Len(weights)
      /\ SetOf(weights) \subseteq 1 .. position
      /\ pipeline \subseteq (1 .. position) \ SetOf(weights)
      /\ Cardinality(pipeline) <= Ahead
      /\ Cardinality(skipped) <= crashes * Ahead
  BY DEF SamplesOK
<1>2. /\ position \in Nat /\ IsFiniteSet(1 .. position) /\ Ahead \in Nat
      /\ crashes * Ahead \in Nat /\ (crashes + 1) * Ahead = crashes * Ahead + Ahead
  BY DriftTypes, FS_Interval
<1>3. IsFiniteSet(pipeline) /\ IsFiniteSet(skipped)
  BY <1>1, <1>2, FS_Subset
<1>4. (1 .. position) \ SetOf(weights) = skipped \cup pipeline /\ skipped \cap pipeline = {}
  BY <1>1
<1> HIDE DEF skipped
<1>5. Cardinality(skipped \cup pipeline) <= (crashes + 1) * Ahead
  <2>1. /\ Cardinality(skipped) \in Nat /\ Cardinality(pipeline) \in Nat
        /\ Cardinality(skipped \cup pipeline) = Cardinality(skipped) + Cardinality(pipeline)
    <3>1. Cardinality(skipped) \in Nat /\ Cardinality(pipeline) \in Nat
      BY <1>3, FS_CardinalityType
    <3>2. Cardinality(skipped \cup pipeline)
            = Cardinality(skipped) + Cardinality(pipeline) - Cardinality(skipped \cap pipeline)
      BY <1>3, FS_Union
    <3>3. Cardinality(skipped \cap pipeline) = 0
      BY <1>4, FS_EmptySet
    <3> QED
      BY <3>1, <3>2, <3>3
  <2>2. Cardinality(skipped) + Cardinality(pipeline) <= crashes * Ahead + Ahead
    BY <1>1, <1>2, <2>1
  <2> QED
    BY <1>2, <2>1, <2>2
<1>6. Len(weights) - version * Trigger \in 0 .. (crashes + 1) * (Trigger - 1)
  <2> DEFINE a == version * Trigger
             b == crashes * (Trigger - 1)
             n == Len(weights)
  <2>1. /\ a \in Nat /\ b \in Nat /\ n \in Nat /\ Trigger \in Nat /\ localStep \in 1 .. Trigger
        /\ (crashes + 1) * (Trigger - 1) = b + (Trigger - 1)
    BY DriftTypes
  <2>2. n - a - (localStep - 1) \in 0 .. b
    BY DEF StepsOK
  <2> HIDE DEF a, b, n
  <2>3. n - a \in 0 .. b + (Trigger - 1)
    BY <2>1, <2>2
  <2> QED
    BY <2>1, <2>3 DEF a, n
<1> QED
  BY <1>1, <1>4, <1>5, <1>6 DEF Fits

(* At the beginning nothing is trained or in flight. *)
LEMMA NothingYet ==
  ASSUME TypeOK, weights' = <<>>, version' = 0, position' = 0, pipeline' = {},
         localStep' = 1, globalSteps' = 1, crashes' = crashes
  PROVE  SamplesOK' /\ StepsOK'
<1>1. /\ SetOf(<<>>) = {} /\ Len(<<>>) = 0 /\ 1 .. 0 = {} /\ Cardinality({}) = 0
      /\ ({} \ ({} \cup {})) = {}
  BY FS_EmptySet DEF SetOf
<1>2. /\ crashes * Ahead \in Nat /\ crashes * (Trigger - 1) \in Nat
      /\ 0 * Trigger = 0 /\ Ahead \in Nat
  BY DriftTypes
<1>3. SetOf(weights)' = {} /\ Len(weights') = 0
  BY <1>1 DEF SetOf
<1>4. SamplesOK'
  <2>1. (1 .. position') \ (SetOf(weights)' \cup pipeline') = {}
    BY <1>1, <1>3
  <2>2. 0 <= crashes' * Ahead
    BY <1>2
  <2>3. /\ SetOf(weights)' \subseteq 1 .. position'
        /\ pipeline' \subseteq (1 .. position') \ SetOf(weights)'
        /\ Cardinality(SetOf(weights)') = Len(weights') /\ Cardinality(pipeline') <= Ahead
    <3>1. SetOf(weights)' = {} /\ pipeline' = {} /\ Len(weights') = 0
      BY <1>3
    <3>2. 0 <= Ahead
      BY <1>2
    <3> QED
      BY <1>1, <3>1, <3>2
  <2> QED
    BY <1>1, <2>1, <2>2, <2>3 DEF SamplesOK
<1>5. StepsOK'
  BY <1>1, <1>2, <1>3 DEF StepsOK
<1> QED
  BY <1>4, <1>5

(* Steps that leave the memory of a life alone. *)
LEMMA MemoryKept ==
  ASSUME SamplesOK, StepsOK, Alive,
         UNCHANGED <<weights, version, localStep, globalSteps, position, pipeline, crashes>>
  PROVE  SamplesOK' /\ StepsOK'
<1>1. SetOf(weights)' = SetOf(weights)
  BY DEF SetOf
<1>2. SamplesOK'
  BY <1>1 DEF SamplesOK
<1>3. StepsOK'
  BY DEF StepsOK
<1> QED
  BY <1>2, <1>3

(* Saving a part changes no file that the tracker needs but by removing it. *)
LEMMA PartDrift ==
  ASSUME TypeOK, SamplesOK, StepsOK, LastOK, ActorOK, DiskOK, NEW p \in Parts,
         OpenPart(p) \/ WritePart(p) \/ RegisterPart(p)
  PROVE  SamplesOK' /\ StepsOK' /\ LastOK' /\ ActorOK' /\ DiskOK' /\ StartedOK'
<1>1. /\ pc = p /\ pc \in {"actor", "critic"}
      /\ pc' \in {p, "critic", "data"} /\ (pc' = "data" => stage' = "open")
      /\ (p = "critic" => pc' # "actor") /\ pc' \in Saving
      /\ UNCHANGED <<data, tracker, weights, version, localStep, globalSteps, lastCkpt,
                     position, pipeline, crashes>>
  BY DEF OpenPart, WritePart, RegisterPart, Parts, Saving, trainerVars, feedVars
<1>2. Alive /\ Alive' /\ Lives' = Lives
  BY <1>1 DEF Alive, Lives
<1>3. SamplesOK' /\ StepsOK'
  BY <1>1, <1>2, MemoryKept
<1>4. LastOK' /\ StartedOK'
  BY <1>1, <1>2 DEF LastOK, StartedOK, Saving
<1>5. \A v \in Version :
        \/ shards'["actor"][v] = shards["actor"][v]
        \/ shards'["actor"][v].kind = "absent"
        \/ v = version /\ shards'["actor"][v].of = weights
  BY PartChange DEF NoShards, File, Parts
<1>6. version \in Version /\ tracker.of \in Version
  BY DEF TypeOK, TrainerTypes, DiskTypes, FileOf
<1>7. ActorOK'
  <2>1. SUFFICES ASSUME SavedNow("actor")' \/ (pc' = "actor" /\ stage' # "open")
                 PROVE  \/ shards'["actor"][version].kind = "absent"
                        \/ shards'["actor"][version].of = weights
    BY <1>1 DEF ActorOK
  <2>2. CASE OpenPart("actor")
    <3>1. shards'["actor"][version] = File("torn", weights)
      BY <1>6, <2>2 DEF OpenPart, TypeOK, DiskTypes, Without, Parts
    <3> QED
      BY <3>1 DEF File
  <2>3. CASE ~OpenPart("actor")
    <3>1. SavedNow("actor") \/ (pc = "actor" /\ stage # "open")
      BY <1>1, <2>3 DEF SavedNow, OpenPart, WritePart, RegisterPart, Parts
    <3> QED
      BY <1>5, <1>6, <3>1 DEF ActorOK
  <2> QED
    BY <2>2, <2>3
<1>8. DiskOK'
  <2>1. tracker.kind = "whole" => tracker.of # version
    BY <1>1, <1>2 DEF LastOK, Saving
  <2>2. tracker.kind = "whole" /\ shards'["actor"][tracker.of].kind = "whole" =>
          shards'["actor"][tracker.of] = shards["actor"][tracker.of]
    BY <1>5, <1>6, <2>1
  <2> QED
    BY <1>1, <1>2, <2>2 DEF DiskOK
<1> QED
  BY <1>3, <1>4, <1>7, <1>8

(* data.pt gets the position of now; what is in flight will be skipped. *)
LEMMA DataDrift ==
  ASSUME TypeOK, SamplesOK, StepsOK, LastOK, ActorOK, DiskOK, SaveData
  PROVE  SamplesOK' /\ StepsOK' /\ LastOK' /\ ActorOK' /\ DiskOK' /\ StartedOK'
<1>1. /\ pc = "data" /\ pc' \in {"data", "tracker"}
      /\ UNCHANGED <<shards, tracker, weights, version, localStep, globalSteps, lastCkpt,
                     position, pipeline, crashes>>
  BY DEF SaveData, trainerVars, feedVars
<1>2. Alive /\ Alive' /\ Lives' = Lives /\ Lives = crashes + 1
  BY <1>1 DEF Alive, Lives
<1>3. SamplesOK' /\ StepsOK'
  BY <1>1, <1>2, MemoryKept
<1>4. LastOK' /\ StartedOK' /\ ActorOK'
  BY <1>1, <1>2 DEF LastOK, StartedOK, ActorOK, Saving, SavedNow
<1>5. version \in Version /\ tracker.of \in Version /\ data \in [Version -> FileOf(Nat)]
  BY DEF TypeOK, TrainerTypes, DiskTypes, FileOf
<1>6. \A v \in Version : v # version => data'[v] = data[v]
  BY <1>5 DEF SaveData
<1>7. tracker.kind = "whole" => tracker.of # version
  BY <1>1, <1>2 DEF LastOK, Saving
<1>8. Fits(weights, version, data'[version].of, Lives)
  <2>1. CASE stage = "open"
    <3>1. data'[version].of = position
      BY <1>5, <2>1 DEF SaveData, File
    <3> QED
      BY <1>2, <3>1, MemoryFits
  <2>2. CASE stage = "write"
    <3>1. data' = [data EXCEPT ![version].kind = "whole"]
      BY <2>2 DEF SaveData
    <3>2. data'[version].of = data[version].of
      BY <1>5, <3>1 DEF FileOf
    <3> QED
      BY <1>1, <2>2, <3>2 DEF DiskOK
  <2> QED
    BY <2>1, <2>2 DEF SaveData
<1>9. DiskOK'
  BY <1>1, <1>2, <1>5, <1>6, <1>7, <1>8 DEF DiskOK
<1> QED
  BY <1>3, <1>4, <1>9

(* The tracker gets a version whose files fit each other. *)
LEMMA TrackerDrift ==
  ASSUME TypeOK, SamplesOK, StepsOK, LastOK, ActorOK, DiskOK, SaveTracker
  PROVE  SamplesOK' /\ StepsOK' /\ LastOK' /\ ActorOK' /\ DiskOK' /\ StartedOK'
<1>1. /\ pc = "tracker" /\ pc' \in {"tracker", "idle"}
      /\ UNCHANGED <<shards, data, weights, version, localStep, globalSteps,
                     position, pipeline, crashes>>
  BY DEF SaveTracker, feedVars
<1>2. Alive /\ Alive' /\ Lives' = Lives
  BY <1>1 DEF Alive, Lives
<1>3. SamplesOK' /\ StepsOK' /\ StartedOK'
  BY <1>1, <1>2, MemoryKept DEF StartedOK
<1>4. Fits(weights, version, data[version].of, Lives)
  BY <1>1 DEF DiskOK
<1>5. CASE stage = "open"
  <2>1. pc' = "tracker" /\ lastCkpt' = lastCkpt /\ tracker'.kind = "torn"
    BY <1>1, <1>5 DEF SaveTracker, File
  <2>2. LastOK' /\ ActorOK' /\ DiskOK'
    BY <1>1, <1>2, <1>4, <2>1 DEF LastOK, ActorOK, DiskOK, Saving, SavedNow
  <2> QED
    BY <1>3, <2>2
<1>6. CASE stage = "write"
  <2>1. /\ pc' = "idle" /\ stage' = "open" /\ lastCkpt' = version
        /\ tracker'.kind = "whole" /\ tracker'.of = version
    BY <1>6 DEF SaveTracker, File
  <2>2. shards["actor"][version].kind = "whole" => shards["actor"][version].of = weights
    BY <1>1 DEF ActorOK, SavedNow
  <2>3. LastOK' /\ ActorOK' /\ DiskOK'
    BY <1>1, <1>2, <1>4, <2>1, <2>2 DEF LastOK, ActorOK, DiskOK, Saving, SavedNow
  <2> QED
    BY <1>3, <2>3
<1> QED
  BY <1>5, <1>6 DEF SaveTracker

(* A life ends and the next one begins with what fits. *)
LEMMA RestartDrift ==
  ASSUME TypeOK, SamplesOK, StepsOK, LastOK, ActorOK, DiskOK, StartedOK,
         Crash \/ FromScratch \/ LoadCheckpoint \/ LoadRaises
  PROVE  SamplesOK' /\ StepsOK' /\ LastOK' /\ ActorOK' /\ DiskOK' /\ StartedOK'
<1> USE DEF trainerVars, feedVars
<1>1. CASE Crash
  <2>1. /\ Alive /\ pc' = "down" /\ stage' = "open" /\ crashes' = crashes + 1
        /\ UNCHANGED <<shards, data, tracker>>
    BY <1>1 DEF Crash, Running, Alive, disk
  <2>2. Lives' = Lives
    BY <2>1 DEF Lives, Alive
  <2>3. SamplesOK' /\ StepsOK' /\ LastOK' /\ ActorOK' /\ DiskOK'
    BY <2>1, <2>2 DEF SamplesOK, StepsOK, LastOK, ActorOK, DiskOK, Alive, Saving, SavedNow
  <2>4. StartedOK'
    BY SMTT(30), <1>1, <2>1, DriftTypes DEF Crash, StartedOK
  <2> QED
    BY <2>3, <2>4
<1>2. CASE FromScratch
  <2>1. /\ pc = "down" /\ tracker.kind = "absent" /\ pc' = "idle"
        /\ UNCHANGED <<shards, data, tracker, stage, weights, version, localStep, globalSteps,
                       lastCkpt, position, pipeline, crashes>>
    BY <1>2 DEF FromScratch, disk
  <2>2. /\ weights = <<>> /\ version = 0 /\ position = 0 /\ pipeline = {}
        /\ localStep = 1 /\ globalSteps = 1 /\ crashes > 0
    BY <2>1 DEF StartedOK
  <2>3. SamplesOK' /\ StepsOK'
    BY <2>1, <2>2, NothingYet
  <2>4. LastOK' /\ ActorOK' /\ DiskOK' /\ StartedOK'
    BY <2>1 DEF LastOK, ActorOK, DiskOK, StartedOK, Saving, SavedNow
  <2> QED
    BY <2>3, <2>4
<1>3. CASE LoadCheckpoint
  <2> DEFINE v == tracker.of
             l == shards["actor"][v].of
             p == data[v].of
  <2>1. /\ pc = "down" /\ tracker.kind = "whole" /\ pc' = "idle"
        /\ shards["actor"][v].kind = "whole"
        /\ weights' = l /\ version' = v /\ lastCkpt' = v /\ position' = p
        /\ globalSteps' = v * Trigger + 2
        /\ UNCHANGED <<shards, data, tracker, stage, localStep, pipeline, crashes>>
    BY <1>3 DEF LoadCheckpoint, Loadable, Parts, disk
  <2>2. localStep = 1 /\ pipeline = {} /\ crashes > 0 /\ stage = "open"
    BY <2>1 DEF StartedOK, LastOK, Saving
  <2>3. Fits(l, v, p, crashes)
    BY <2>1 DEF DiskOK, Lives, Alive
  <2>4. v \in Nat /\ p \in Nat /\ l \in Seq(Nat) /\ Len(l) \in Nat /\ Trigger \in Nat
    BY ConstantsOK DEF TypeOK, DiskTypes, FileOf, Version, Parts
  <2>5. Fits(l, v, p, crashes + 1)
    BY <2>3, <2>4, FitsLater
  <2>6. Lives' = crashes + 1 /\ Alive'
    BY <2>1 DEF Lives, Alive
  <2> HIDE DEF v, l, p
  <2>7. SetOf(weights)' = SetOf(l)
    BY <2>1 DEF SetOf
  <2>8. SamplesOK'
    <3>1. Cardinality({}) = 0 /\ Ahead \in Nat
      BY FS_EmptySet, DriftTypes
    <3>2. (1 .. p) \ (SetOf(l) \cup {}) = (1 .. p) \ SetOf(l)
      OBVIOUS
    <3> QED
      BY <2>1, <2>2, <2>3, <2>7, <3>1, <3>2 DEF SamplesOK, Fits
  <2>9. StepsOK'
    <3> DEFINE a == v * Trigger
               n == Len(l)
               b == crashes * (Trigger - 1)
    <3>1. a \in Nat /\ n \in Nat
      BY <2>4
    <3>2. n - a \in 0 .. b
      BY <2>3 DEF Fits
    <3>3. weights' = l /\ version' * Trigger = a /\ globalSteps' = a + 2 /\ localStep' = 1
      BY <2>1, <2>2
    <3>4. crashes' = crashes /\ crashes # 0 /\ b = crashes' * (Trigger - 1)
      BY <2>1, <2>2
    <3> HIDE DEF a, b, n
    <3>5. n - a - (1 - 1) \in 0 .. b /\ a + 2 - a - 1 \in {0, 1}
      BY <3>1, <3>2
    <3>6. Len(weights') = n
      BY <3>3 DEF n
    <3>7. Len(weights') - version' * Trigger - (localStep' - 1) \in 0 .. crashes' * (Trigger - 1)
      BY <3>3, <3>4, <3>5, <3>6, Zenon
    <3>8. globalSteps' - version' * Trigger - localStep' \in {0, 1}
      <4> DEFINE q == version' * Trigger
      <4>1. q = a /\ globalSteps' = a + 2 /\ localStep' = 1
        BY <3>3, Zenon
      <4> HIDE DEF q
      <4>2. globalSteps' - q - localStep' = 1
        BY <3>1, <4>1
      <4> QED
        BY <4>2 DEF q
    <3> QED
      BY <3>4, <3>7, <3>8, Zenon DEF StepsOK
  <2>10. LastOK' /\ ActorOK' /\ StartedOK'
    BY <2>1, <2>2 DEF LastOK, ActorOK, StartedOK, Saving, SavedNow, v
  <2>11. DiskOK'
    BY <2>1, <2>5, <2>6 DEF DiskOK, v, l, p
  <2> QED
    BY <2>8, <2>9, <2>10, <2>11
<1>4. CASE LoadRaises
  <2>1. /\ pc = "down" /\ pc' = "stuck"
        /\ UNCHANGED <<shards, data, tracker, stage, crashes>>
    BY <1>4 DEF LoadRaises, disk
  <2>2. Lives' = Lives
    BY <2>1 DEF Lives, Alive
  <2> QED
    BY <2>1, <2>2 DEF SamplesOK, StepsOK, LastOK, ActorOK, DiskOK, StartedOK, Alive, Saving,
       SavedNow
<1> QED
  BY <1>1, <1>2, <1>3, <1>4

(* The first life starts with nothing. *)
LEMMA InitDrift == Init => DriftInv
<1> SUFFICES ASSUME Init, mode = "async"
             PROVE  SamplesOK /\ StepsOK /\ LastOK /\ ActorOK /\ DiskOK /\ StartedOK
  BY DEF DriftInv
<1>1. /\ weights = <<>> /\ version = 0 /\ position = 0 /\ pipeline = {} /\ localStep = 1
      /\ globalSteps = 1 /\ crashes = 0 /\ pc = "idle" /\ stage = "open"
      /\ tracker.kind = "absent"
  BY DEF Init, Absent, File
<1>2. /\ SetOf(<<>>) = {} /\ Len(<<>>) = 0 /\ 1 .. 0 = {} /\ Cardinality({}) = 0
      /\ ({} \ ({} \cup {})) = {}
  BY FS_EmptySet DEF SetOf
<1>3. Ahead \in Nat /\ Trigger \in Nat /\ Trigger - 1 \in Nat
  BY ConstantsOK
<1>4. 0 * Ahead = 0 /\ 0 * (Trigger - 1) = 0 /\ 0 * Trigger = 0
  BY <1>3
<1>5. SamplesOK
  BY <1>1, <1>2, <1>3, <1>4 DEF SamplesOK
<1>6. StepsOK
  BY <1>1, <1>2, <1>3, <1>4 DEF StepsOK
<1>7. LastOK /\ ActorOK /\ DiskOK /\ StartedOK
  BY <1>1 DEF LastOK, ActorOK, DiskOK, StartedOK, Saving, SavedNow
<1> QED
  BY <1>5, <1>6, <1>7

(* Each step of the asynchronous training keeps the bounds. *)
LEMMA DriftStep ==
  ASSUME TypeOK, DriftInv, [Next]_vars
  PROVE  DriftInv'
<1> USE DEF disk, trainerVars, feedVars, envVars
<1>1. mode' = mode
  BY DEF Next, Over, vars, BeginStep, ResetEnv, ResetRaises, FinishStep, Feed, Train, Finish,
     OpenPart, WritePart, RegisterPart, SaveData, SaveTracker, Crash, FromScratch,
     LoadCheckpoint, LoadRaises
<1>2. SUFFICES ASSUME mode = "async"
               PROVE  SamplesOK' /\ StepsOK' /\ LastOK' /\ ActorOK' /\ DiskOK' /\ StartedOK'
  BY <1>1 DEF DriftInv
<1>3. SamplesOK /\ StepsOK /\ LastOK /\ ActorOK /\ DiskOK /\ StartedOK
  BY <1>2 DEF DriftInv
<1>4. CASE BeginStep \/ FinishStep
  BY <1>2, <1>4 DEF BeginStep, FinishStep
<1>5. ASSUME UNCHANGED <<shards, data, tracker, pc, stage, weights, version, localStep,
                         globalSteps, lastCkpt, position, pipeline, crashes>>
      PROVE  SamplesOK' /\ StepsOK' /\ LastOK' /\ ActorOK' /\ DiskOK' /\ StartedOK'
  <2>1. Alive' = Alive /\ Lives' = Lives
    BY <1>5 DEF Alive, Lives
  <2>2. SamplesOK' /\ StepsOK'
    BY <1>3, <1>5, <2>1, MemoryKept DEF SamplesOK, StepsOK
  <2>3. LastOK' /\ ActorOK' /\ DiskOK' /\ StartedOK'
    BY <1>3, <1>5, <2>1 DEF LastOK, ActorOK, DiskOK, StartedOK, SavedNow
  <2> QED
    BY <2>2, <2>3
<1>6. CASE \E s \in sessions : ResetEnv(s) \/ ResetRaises(s)
  BY <1>5, <1>6 DEF ResetEnv, ResetRaises
<1>7. CASE Feed
  <2>1. /\ UNCHANGED <<shards, data, tracker, pc, stage, weights, version, localStep,
                       globalSteps, lastCkpt, crashes>>
        /\ pc # "down" /\ pc' # "down"
    BY <1>7 DEF Feed, Running
  <2>2. Alive' = Alive /\ Lives' = Lives
    BY <2>1 DEF Alive, Lives
  <2>3. StepsOK' /\ LastOK' /\ ActorOK' /\ DiskOK' /\ StartedOK'
    BY <1>3, <2>1, <2>2 DEF StepsOK, LastOK, ActorOK, DiskOK, StartedOK, SavedNow
  <2> QED
    BY <1>3, <1>7, <2>3, FeedDrift
<1>8. ASSUME NEW sample \in pipeline, NEW esi \in BOOLEAN, Train(sample, esi)
      PROVE  SamplesOK' /\ StepsOK' /\ LastOK' /\ ActorOK' /\ DiskOK' /\ StartedOK'
  <2>1. /\ pc = "idle" /\ pc' \in {"idle", "actor"} /\ (pc' = "actor" => version' # lastCkpt)
        /\ UNCHANGED <<shards, data, tracker, stage, lastCkpt, crashes>>
    BY <1>8 DEF Train, SaveIsDue
  <2>2. Alive /\ Alive' /\ Lives' = Lives
    BY <2>1 DEF Alive, Lives
  <2>3. LastOK' /\ ActorOK' /\ DiskOK' /\ StartedOK'
    BY <1>3, <2>1, <2>2 DEF LastOK, ActorOK, DiskOK, StartedOK, Saving, SavedNow
  <2> QED
    BY <1>3, <1>8, <2>3, TrainDrift
<1>9. CASE Finish
  <2>1. /\ pc = "idle" /\ pc' \in {"actor", "ended"} /\ (pc' = "actor" => version # lastCkpt)
        /\ UNCHANGED <<shards, data, tracker, stage, weights, version, localStep, globalSteps,
                       lastCkpt, position, pipeline, crashes>>
    BY <1>9 DEF Finish, SaveIsDue
  <2>2. Alive /\ Alive' /\ Lives' = Lives
    BY <2>1 DEF Alive, Lives
  <2>3. LastOK' /\ ActorOK' /\ DiskOK' /\ StartedOK'
    BY <1>3, <2>1, <2>2 DEF LastOK, ActorOK, DiskOK, StartedOK, Saving, SavedNow
  <2> QED
    BY <1>3, <2>1, <2>2, <2>3, MemoryKept
<1>10. CASE \E p \in Parts : OpenPart(p) \/ WritePart(p) \/ RegisterPart(p)
  BY <1>3, <1>10, PartDrift
<1>11. CASE SaveData \/ SaveTracker
  BY <1>3, <1>11, DataDrift, TrackerDrift
<1>12. CASE Crash \/ FromScratch \/ LoadCheckpoint \/ LoadRaises
  BY <1>3, <1>12, RestartDrift
<1>13. CASE UNCHANGED vars
  BY <1>5, <1>13 DEF vars
<1> QED
  BY <1>4, <1>6, <1>7, <1>8, <1>9, <1>10, <1>11, <1>12, <1>13 DEF Next, Over

(* What the invariant says of the counters. *)
LEMMA DriftIsBounded == TypeOK /\ DriftInv => AsyncDriftIsBounded
<1> SUFFICES ASSUME TypeOK, SamplesOK, StepsOK, Alive PROVE
      /\ Cardinality(Trained) = Len(weights)
      /\ Trained \cap pipeline = {}
      /\ Cardinality((1 .. position) \ (Trained \cup pipeline)) <= crashes * Ahead
      /\ Len(weights) + 1 - globalSteps \in -1 .. crashes * (Trigger - 1)
      /\ crashes = 0 => globalSteps = Len(weights) + 1
  BY DEF DriftInv, AsyncDriftIsBounded, Alive
<1>1. Trained = SetOf(weights)
  BY DEF Trained, SetOf
<1>2. /\ Cardinality(SetOf(weights)) = Len(weights)
      /\ SetOf(weights) \cap pipeline = {}
      /\ Cardinality((1 .. position) \ (SetOf(weights) \cup pipeline)) <= crashes * Ahead
  BY DEF SamplesOK
<1>3. /\ Len(weights) + 1 - globalSteps \in -1 .. crashes * (Trigger - 1)
      /\ crashes = 0 => globalSteps = Len(weights) + 1
  <2> DEFINE a == version * Trigger
             b == crashes * (Trigger - 1)
             n == Len(weights)
  <2>1. /\ a \in Nat /\ b \in Nat /\ n \in Nat /\ globalSteps \in Nat /\ localStep \in Nat
    BY DriftTypes, Zenon
  <2>2. /\ n - a - (localStep - 1) \in 0 .. b
        /\ globalSteps - a - localStep \in {0, 1}
        /\ crashes = 0 => globalSteps = a + localStep
    BY DEF StepsOK
  <2>3. crashes = 0 => b = 0
    BY DriftTypes
  <2> HIDE DEF a, b, n
  <2>4. n + 1 - globalSteps \in -1 .. b /\ (crashes = 0 => globalSteps = n + 1)
    BY <2>1, <2>2, <2>3
  <2> QED
    BY <2>4, Zenon DEF b, n
<1> QED
  BY <1>1, <1>2, <1>3

(* An asynchronous training never trains twice on a sample, skips no more  *)
(* than was in flight when it crashed, and its step counter parts from its *)
(* lineage by at most the steps of one version per crash, whatever is      *)
(* saved and loaded, and however few checkpoints are kept                  *)
(* (FullyAsyncTrainer.load_checkpoint, _fit_save_checkpoint,               *)
(* FullyAsyncRollouter.save_checkpoint).                                   *)
THEOREM DriftCorrect == Spec => []AsyncDriftIsBounded
<1>1. TypeOK /\ DriftInv /\ [Next]_vars => TypeOK' /\ DriftInv'
  BY TypeStep, DriftStep
<1> QED
  BY InitType, InitDrift, <1>1, DriftIsBounded, PTL DEF Spec
=============================================================================
