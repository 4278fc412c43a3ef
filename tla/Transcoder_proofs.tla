-------------------------- MODULE Transcoder_proofs --------------------------
(***************************************************************************)
(* For any jobs of any items: no permit is lost or invented, and as long   *)
(* as no two jobs of one item are in the semaphore together, for which one *)
(* permit leaves no room, a published file was encoded to its end, and can *)
(* have been touched only by what cancelled jobs left running.             *)
(***************************************************************************)
EXTENDS Transcoder, Integers, FiniteSetTheorems, TLAPS

States == {"new", "queued", "ffmpeg", "encoded", "path", "none", "dead", "orphan", "cancelled"}
Holders == {j \in Jobs : job[j] \in {"ffmpeg", "encoded"}}

TransTypeOK ==
  /\ job \in [Jobs -> States]
  /\ permits \in Int
  /\ temp \in [Items -> SUBSET Jobs] /\ dest \in [Items -> SUBSET Jobs]

PermitsInv == TransTypeOK /\ permits + Cardinality(Holders) = MaxConcurrency

LEMMA HoldersFinite ==
  ASSUME IsFiniteSet(Jobs)
  PROVE  IsFiniteSet(Holders) /\ Cardinality(Holders) \in Nat
BY FS_Subset, FS_CardinalityType DEF Holders

LEMMA InitPermits == TransInit => PermitsInv
<1> SUFFICES ASSUME TransInit PROVE PermitsInv
  OBVIOUS
<1>1. Holders = {} /\ Cardinality({}) = 0
  BY FS_EmptySet DEF TransInit, Holders
<1> QED BY <1>1, TranscoderAssumption DEF TransInit, PermitsInv, TransTypeOK, States

LEMMA NextTyped == TransTypeOK /\ [TransNext]_transVars => TransTypeOK'
<1> SUFFICES ASSUME TransTypeOK, [TransNext]_transVars PROVE TransTypeOK'
  OBVIOUS
<1> USE TranscoderAssumption DEF TransTypeOK, States
<1>0. \A j \in Jobs : JobItem[j] \in Items
  OBVIOUS
<1>1. ASSUME NEW j \in Jobs, RequestTranscode(j) PROVE TransTypeOK'
  BY <1>1 DEF RequestTranscode
<1>2. ASSUME NEW j \in Jobs, StartFfmpeg(j) PROVE TransTypeOK'
  BY <1>0, <1>2 DEF StartFfmpeg
<1>3. ASSUME NEW j \in Jobs, FfmpegSucceeds(j) PROVE TransTypeOK'
  BY <1>3 DEF FfmpegSucceeds
<1>4. ASSUME NEW j \in Jobs, Publish(j) PROVE TransTypeOK'
  BY <1>0, <1>4 DEF Publish
<1>5. ASSUME NEW j \in Jobs, GiveUp(j) PROVE TransTypeOK'
  BY <1>0, <1>5 DEF GiveUp
<1>6. CASE TransCrash
  BY <1>6 DEF TransCrash
<1>7. ASSUME NEW j \in Jobs, Cancel(j) PROVE TransTypeOK'
  BY <1>7 DEF Cancel
<1>8. ASSUME NEW j \in Jobs, OrphanEnds(j) PROVE TransTypeOK'
  BY <1>8 DEF OrphanEnds
<1>9. CASE UNCHANGED transVars
  BY <1>9 DEF transVars
<1> QED BY <1>1, <1>2, <1>3, <1>4, <1>5, <1>6, <1>7, <1>8, <1>9 DEF TransNext

LEMMA NextPermits ==
  ASSUME IsFiniteSet(Jobs), PermitsInv, [TransNext]_transVars
  PROVE  PermitsInv'
<1>0. /\ TransTypeOK /\ TransTypeOK'
      /\ Cardinality(Holders) \in Nat
      /\ permits + Cardinality(Holders) = MaxConcurrency
  BY HoldersFinite, NextTyped DEF PermitsInv
<1>1. ASSUME NEW j \in Jobs, RequestTranscode(j) \/ FfmpegSucceeds(j) \/ OrphanEnds(j)
      PROVE  permits' = permits /\ Holders' = Holders
  BY <1>0, <1>1 DEF RequestTranscode, FfmpegSucceeds, OrphanEnds, TransTypeOK, Holders
<1>2. ASSUME NEW j \in Jobs, StartFfmpeg(j)
      PROVE  permits' = permits - 1 /\ Cardinality(Holders') = Cardinality(Holders) + 1
  <2>1. j \notin Holders /\ Holders' = Holders \cup {j}
    BY <1>0, <1>2 DEF StartFfmpeg, TransTypeOK, Holders
  <2> QED BY <1>2, <2>1, HoldersFinite, FS_AddElement DEF StartFfmpeg
<1>3. ASSUME NEW j \in Jobs, Publish(j) \/ GiveUp(j)
      PROVE  permits' = permits + 1 /\ Cardinality(Holders') = Cardinality(Holders) - 1
  <2>1. j \in Holders /\ Holders' = Holders \ {j}
    BY <1>0, <1>3 DEF Publish, GiveUp, TransTypeOK, Holders
  <2> QED BY <1>3, <2>1, HoldersFinite, FS_RemoveElement DEF Publish, GiveUp
<1>7. ASSUME NEW j \in Jobs, Cancel(j)
      PROVE  \/ permits' = permits /\ Holders' = Holders
             \/ permits' = permits + 1 /\ Cardinality(Holders') = Cardinality(Holders) - 1
  <2>1. CASE job[j] = "queued"
    BY <1>0, <1>7, <2>1 DEF Cancel, TransTypeOK, Holders
  <2>2. CASE job[j] # "queued"
    <3>1. j \in Holders /\ Holders' = Holders \ {j}
      BY <1>0, <1>7, <2>2 DEF Cancel, TransTypeOK, Holders
    <3> QED BY <1>7, <2>2, <3>1, HoldersFinite, FS_RemoveElement DEF Cancel
  <2> QED BY <2>1, <2>2
<1>4. CASE TransCrash
  <2>1. Holders' = {} /\ Cardinality({}) = 0
    BY <1>0, <1>4, FS_EmptySet DEF TransCrash, TransTypeOK, Holders
  <2> QED BY <1>0, <1>4, <2>1, TranscoderAssumption DEF TransCrash, PermitsInv
<1>5. CASE UNCHANGED transVars
  BY <1>0, <1>5 DEF transVars, PermitsInv, Holders
<1>6. permits \in Int
  BY <1>0 DEF TransTypeOK
<1> QED BY <1>0, <1>1, <1>2, <1>3, <1>4, <1>5, <1>6, <1>7 DEF TransNext, PermitsInv

(* Whatever jobs fail, are cancelled or die with the service, the          *)
(* permits of the semaphore are those of the jobs that are inside it.      *)
THEOREM PermitsNeverLost ==
  ASSUME IsFiniteSet(Jobs)
  PROVE  TransSpec => []PermitsConserved
<1>1. TransInit => PermitsInv
  BY InitPermits
<1>2. PermitsInv /\ [TransNext]_transVars => PermitsInv'
  BY NextPermits
<1>3. PermitsInv => PermitsConserved
  BY DEF PermitsInv, PermitsConserved, Holders
<1> QED BY <1>1, <1>2, <1>3, PTL DEF TransSpec

-----------------------------------------------------------------------------
(* What is published.                                                      *)

(* No two jobs of one item are inside the semaphore together.              *)
OnePerItem == \A j, k \in Holders : JobItem[j] = JobItem[k] => j = k

(* What a cancelled job has left: an ffmpeg that runs on, or its file.     *)
Left(j) == job[j] \in {"orphan", "cancelled"}

(* Then no other of them opens its temporary file, and what has been       *)
(* published comes from jobs that are over.                                *)
OwnFiles ==
  /\ \A i \in Items : \A j \in temp[i] : JobItem[j] = i
  /\ \A j \in Holders : /\ j \in temp[JobItem[j]]
                       /\ \A k \in temp[JobItem[j]] \ {j} : Left(k)
  /\ \A i \in Items : \A j \in dest[i] : JobItem[j] = i
  /\ DestIsComplete

(* Steps that keep the files, and in which no job is taken back: what was  *)
(* answered stays answered, what is left behind stays left behind.         *)
LEMMA SameFiles ==
  ASSUME TransTypeOK, OwnFiles, temp' = temp, dest' = dest, Holders' \subseteq Holders,
         \A j \in Jobs : job[j] = "path" => job'[j] = "path",
         \A j \in Jobs : Left(j) => Left(j)'
  PROVE  OwnFiles'
<1>0. \A j \in Jobs : JobItem[j] \in Items
  BY TranscoderAssumption
<1>1. \A i \in Items : temp[i] \subseteq Jobs /\ dest[i] \subseteq Jobs
  BY DEF TransTypeOK
<1>2. \A j \in Holders : j \in Jobs
  BY DEF Holders
<1>3. DestIsComplete'
  BY <1>1 DEF OwnFiles, DestIsComplete, Left
<1>4. \A j \in Holders' : \A k \in temp'[JobItem[j]] \ {j} : Left(k)'
  BY <1>0, <1>1, <1>2 DEF OwnFiles
<1> QED BY <1>3, <1>4 DEF OwnFiles

LEMMA NextOwnFiles ==
  ASSUME TransTypeOK, OwnFiles, OnePerItem, OnePerItem', [TransNext]_transVars
  PROVE  OwnFiles'
<1> USE TranscoderAssumption
<1>0. /\ \A j \in Jobs : JobItem[j] \in Items
      /\ \A i \in Items : temp[i] \subseteq Jobs /\ dest[i] \subseteq Jobs
  BY DEF TransTypeOK
<1>1. ASSUME NEW j \in Jobs,
             RequestTranscode(j) \/ FfmpegSucceeds(j) \/ Cancel(j) \/ OrphanEnds(j)
      PROVE  OwnFiles'
  <2>1. temp' = temp /\ dest' = dest /\ Holders' \subseteq Holders
    BY <1>1 DEF RequestTranscode, FfmpegSucceeds, Cancel, OrphanEnds, TransTypeOK, Holders
  <2>2. \A k \in Jobs : /\ job[k] = "path" => job'[k] = "path"
                        /\ Left(k) => Left(k)'
    BY <1>1 DEF RequestTranscode, FfmpegSucceeds, Cancel, OrphanEnds, TransTypeOK, Left
  <2> QED BY <2>1, <2>2, SameFiles
<1>2. ASSUME NEW j \in Jobs, StartFfmpeg(j) PROVE OwnFiles'
  <2> DEFINE writing == {k \in temp[JobItem[j]] : job[k] \in {"ffmpeg", "orphan"}}
  <2>1. Holders' = Holders \cup {j}
    BY <1>2 DEF StartFfmpeg, TransTypeOK, Holders
  <2>2. \A k \in Holders : k # j /\ JobItem[k] # JobItem[j]
    BY <1>2, <2>1 DEF StartFfmpeg, OnePerItem, Holders
  <2>3. \A k \in writing : job[k] = "orphan" /\ k # j
    <3>1. \A k \in temp[JobItem[j]] : k \in Jobs /\ JobItem[k] = JobItem[j]
      BY <1>0 DEF OwnFiles
    <3>2. \A k \in Jobs : job[k] = "ffmpeg" => k \in Holders
      BY DEF Holders
    <3>3. job[j] = "queued"
      BY <1>2 DEF StartFfmpeg
    <3> QED BY <2>2, <3>1, <3>2, <3>3
  <2>4. temp' = [temp EXCEPT ![JobItem[j]] = writing \cup {j}] /\ dest' = dest
    BY <1>2 DEF StartFfmpeg
  <2>5. \A k \in Jobs : k # j => job'[k] = job[k]
    BY <1>2 DEF StartFfmpeg, TransTypeOK
  <2>6. DestIsComplete'
    <3>1. job[j] = "queued"
      BY <1>2 DEF StartFfmpeg
    <3> QED BY <1>0, <2>4, <2>5, <3>1 DEF OwnFiles, DestIsComplete
  <2>7. \A i \in Items : \A k \in temp'[i] : JobItem[k] = i
    BY <1>0, <2>4 DEF OwnFiles, TransTypeOK
  <2>8. \A h \in Holders' : h \in temp'[JobItem[h]] /\ \A k \in temp'[JobItem[h]] \ {h} : Left(k)'
    <3>1. j \in temp'[JobItem[j]] /\ \A k \in temp'[JobItem[j]] \ {j} : Left(k)'
      <4>1. temp'[JobItem[j]] = writing \cup {j} /\ writing \subseteq Jobs
        BY <1>0, <2>4 DEF TransTypeOK
      <4> HIDE DEF writing
      <4> QED BY <2>3, <2>5, <4>1 DEF Left
    <3>2. ASSUME NEW h \in Holders
          PROVE  h \in temp'[JobItem[h]] /\ \A k \in temp'[JobItem[h]] \ {h} : Left(k)'
      <4>1. h \in Jobs /\ JobItem[h] \in Items /\ JobItem[h] # JobItem[j]
        BY <1>0, <2>2 DEF Holders
      <4>2. temp'[JobItem[h]] = temp[JobItem[h]] /\ j \notin temp[JobItem[h]]
        BY <2>4, <4>1 DEF TransTypeOK, OwnFiles
      <4>3. \A k \in temp[JobItem[h]] : k \in Jobs /\ k # j
        BY <1>0, <4>1, <4>2
      <4> QED BY <2>5, <4>2, <4>3 DEF OwnFiles, Left
    <3> QED BY <2>1, <3>1, <3>2
  <2>9. \A i \in Items : \A k \in dest'[i] : JobItem[k] = i
    BY <2>4 DEF OwnFiles
  <2> QED BY <2>6, <2>7, <2>8, <2>9 DEF OwnFiles
<1>3. ASSUME NEW j \in Jobs, Publish(j) \/ GiveUp(j) PROVE OwnFiles'
  <2>1. j \in Holders /\ Holders' = Holders \ {j}
    BY <1>3 DEF Publish, GiveUp, TransTypeOK, Holders
  <2>2. \A k \in Holders' : k \in Holders /\ JobItem[k] # JobItem[j]
    BY <2>1 DEF OnePerItem
  <2>3. /\ temp' = [temp EXCEPT ![JobItem[j]] = {}]
        /\ job[j] \in {"ffmpeg", "encoded"} /\ \A k \in Jobs : k # j => job'[k] = job[k]
    BY <1>3, <2>1 DEF Publish, GiveUp, TransTypeOK, Holders
  <2>4. \A h \in Holders' : h \in temp'[JobItem[h]] /\ \A k \in temp'[JobItem[h]] \ {h} : Left(k)'
    <3> SUFFICES ASSUME NEW h \in Holders'
                 PROVE  h \in temp'[JobItem[h]] /\ \A k \in temp'[JobItem[h]] \ {h} : Left(k)'
      OBVIOUS
    <3>1. h \in Holders /\ h \in Jobs /\ JobItem[h] \in Items /\ JobItem[h] # JobItem[j]
      BY <1>0, <2>2 DEF Holders
    <3>2. temp'[JobItem[h]] = temp[JobItem[h]]
      BY <2>3, <3>1 DEF TransTypeOK
    <3>3. \A k \in temp[JobItem[h]] : k \in Jobs /\ k # j
      BY <1>0, <3>1 DEF OwnFiles
    <3> QED BY <2>3, <3>1, <3>2, <3>3 DEF OwnFiles, Left
  <2>5. \A i \in Items : \A k \in temp'[i] : JobItem[k] = i
    BY <2>3 DEF OwnFiles, TransTypeOK
  <2>6. DestIsComplete' /\ \A i \in Items : \A k \in dest'[i] : JobItem[k] = i
    <3>1. CASE Publish(j)
      <4>1. dest' = [dest EXCEPT ![JobItem[j]] = temp[JobItem[j]]] /\ job'[j] = "path"
        BY <3>1 DEF Publish, TransTypeOK
      <4>2. \A i \in Items : \A k \in dest'[i] : JobItem[k] = i
        BY <1>0, <4>1 DEF OwnFiles, TransTypeOK
      <4>3. dest'[JobItem[j]] = temp[JobItem[j]] /\ temp[JobItem[j]] \subseteq Jobs
        BY <1>0, <4>1 DEF TransTypeOK
      <4>4. j \in temp[JobItem[j]] /\ \A k \in temp[JobItem[j]] \ {j} : Left(k)
        BY <2>1 DEF OwnFiles
      <4>5. \A k \in dest'[JobItem[j]] \ {j} : job'[k] \in {"orphan", "cancelled"}
        BY <2>3, <4>3, <4>4 DEF Left
      <4>6. \A i \in Items : i # JobItem[j] => dest'[i] = dest[i]
        BY <4>1 DEF TransTypeOK
      <4>7. \A i \in Items : \A k \in dest[i] : k \in Jobs /\ (i # JobItem[j] => k # j)
        BY <1>0 DEF OwnFiles
      <4>8. ASSUME NEW i \in Items, dest'[i] # {}
            PROVE  \E h \in dest'[i] :
                     /\ job'[h] = "path"
                     /\ \A k \in dest'[i] \ {h} : job'[k] \in {"orphan", "cancelled"}
        <5>1. CASE i = JobItem[j]
          BY <4>1, <4>3, <4>4, <4>5, <5>1
        <5>2. CASE i # JobItem[j]
          <6>1. dest'[i] = dest[i] /\ \A k \in dest[i] : job'[k] = job[k]
            BY <2>3, <4>6, <4>7, <5>2
          <6> QED BY <4>8, <6>1 DEF OwnFiles, DestIsComplete
        <5> QED BY <5>1, <5>2
      <4> QED BY <4>2, <4>8 DEF DestIsComplete
    <3>2. CASE GiveUp(j)
      <4>1. dest' = dest /\ \A i \in Items : \A k \in dest[i] : job[k] # "ffmpeg" /\ k # j
        BY <1>0, <2>3, <3>2 DEF GiveUp, OwnFiles, DestIsComplete
      <4>2. \A i \in Items : \A k \in dest[i] : job'[k] = job[k]
        BY <1>0, <2>3, <4>1
      <4> QED BY <4>1, <4>2 DEF OwnFiles, DestIsComplete
    <3> QED BY <1>3, <3>1, <3>2
  <2> QED BY <2>4, <2>5, <2>6 DEF OwnFiles
<1>4. CASE TransCrash
  <2>1. temp' = temp /\ dest' = dest /\ Holders' \subseteq Holders
    BY <1>4 DEF TransCrash, TransTypeOK, Holders
  <2>2. \A k \in Jobs : /\ job[k] = "path" => job'[k] = "path"
                        /\ Left(k) => Left(k)'
    BY <1>4 DEF TransCrash, TransTypeOK, Left
  <2> QED BY <2>1, <2>2, SameFiles
<1>5. CASE UNCHANGED transVars
  BY <1>5 DEF transVars, OwnFiles, Holders, DestIsComplete, Left
<1> QED BY <1>1, <1>2, <1>3, <1>4, <1>5 DEF TransNext

LEMMA OwnFilesAlways == TransSpec /\ []OnePerItem => [](TransTypeOK /\ OwnFiles)
<1>1. TransInit => TransTypeOK /\ OwnFiles
  BY TranscoderAssumption
     DEF TransInit, TransTypeOK, OwnFiles, DestIsComplete, States, Holders
<1>2. TransTypeOK /\ OwnFiles /\ OnePerItem /\ OnePerItem' /\ [TransNext]_transVars
      => (TransTypeOK /\ OwnFiles)'
  BY NextTyped, NextOwnFiles
<1> QED BY <1>1, <1>2, PTL DEF TransSpec

(* Whatever jobs fail, queue, are cancelled or die with the service: while *)
(* no two jobs of one item are in the semaphore at once, what is published *)
(* has been encoded to its end, and only what a cancelled job left running *)
(* can have opened that file besides.                                      *)
THEOREM OnePublisherCompletes == TransSpec /\ []OnePerItem => []DestIsComplete
<1>1. TransTypeOK /\ OwnFiles => DestIsComplete
  BY DEF OwnFiles, DestIsComplete
<1> QED BY <1>1, OwnFilesAlways, PTL

(* The cache the jobs implement.                                           *)
Given(j) == IF job[j] \in {"path", "none", "dead"} THEN job[j]
            ELSE IF job[j] \in {"orphan", "cancelled"} THEN "cancelled"
            ELSE "waiting"
Answers == [j \in Jobs |-> Given(j)]
Whole == {i \in Items : \E j \in Jobs : dest[i] = {j} /\ job[j] = "path"}

LEMMA CacheInit == TransInit => Cache!Init
BY DEF TransInit, Cache!Init

(* A file opened by one ffmpeg only is whole, and one opened by more shows *)
(* that a request of the item was cancelled.                               *)
LEMMA WholeOrSpoiled ==
  ASSUME TransTypeOK, OwnFiles
  PROVE  /\ Whole = {i \in Items : \E j \in Jobs : dest[i] = {j}}
         /\ \A i \in Items : dest[i] # {} /\ i \notin Whole =>
              \E k \in Jobs : JobItem[k] = i /\ Answers[k] = "cancelled"
<1>0. \A i \in Items : dest[i] \subseteq Jobs /\ \A j \in dest[i] : JobItem[j] = i
  BY DEF TransTypeOK, OwnFiles
<1>1. \A i \in Items, j \in Jobs : dest[i] = {j} => job[j] = "path"
  BY DEF OwnFiles, DestIsComplete
<1>2. ASSUME NEW i \in Items, dest[i] # {}, i \notin Whole
      PROVE  \E k \in Jobs : JobItem[k] = i /\ Answers[k] = "cancelled"
  <2>1. PICK j \in dest[i] : /\ job[j] = "path"
                            /\ \A k \in dest[i] \ {j} : job[k] \in {"orphan", "cancelled"}
    BY <1>2 DEF OwnFiles, DestIsComplete
  <2>2. dest[i] # {j}
    BY <1>0, <1>2, <2>1 DEF Whole
  <2>3. PICK k \in dest[i] : k # j
    BY <2>1, <2>2
  <2> QED BY <1>0, <2>1, <2>3 DEF Answers, Given
<1> QED BY <1>1, <1>2 DEF Whole

(* A step maps to one of the cache's, or to none: by OwnFiles what is at   *)
(* dest_path is whole, or of an item with a cancelled request.             *)
LEMMA CacheStep ==
  ASSUME TransTypeOK, OwnFiles, TransTypeOK', OwnFiles', OnePerItem, [TransNext]_transVars
  PROVE  [Cache!Next]_Cache!cacheVars
<1> USE TranscoderAssumption
<1> DEFINE Step == [Cache!Next]_Cache!cacheVars
           Still == Answers' = Answers /\ Whole' = Whole
<1>0. /\ \A j \in Jobs : JobItem[j] \in Items
      /\ Whole = {i \in Items : \E j \in Jobs : dest[i] = {j}}
      /\ Whole' = {i \in Items : \E j \in Jobs : dest'[i] = {j}}
  <2>1. TransTypeOK /\ OwnFiles => Whole = {i \in Items : \E j \in Jobs : dest[i] = {j}}
    BY WholeOrSpoiled
  <2>2. (TransTypeOK /\ OwnFiles
         => Whole = {i \in Items : \E j \in Jobs : dest[i] = {j}})'
    BY WholeOrSpoiled, PTL
  <2> QED BY <2>1, <2>2
<1>1. Still => Step
  BY DEF Cache!cacheVars, Answers, Given, Whole
<1>2. ASSUME NEW j \in Jobs, Answers[j] = "waiting",
             Answers' = [Answers EXCEPT ![j] = "path"],
             \/ Whole' = Whole \cup {JobItem[j]}
             \/ /\ Whole' = Whole \ {JobItem[j]}
                /\ \E k \in Jobs : JobItem[k] = JobItem[j] /\ Answers[k] = "cancelled"
      PROVE  Step
  <2>1. CASE Whole' = Whole \cup {JobItem[j]}
    <3>1. Cache!Provide(j)
      BY <1>2, <2>1 DEF Cache!Provide, Answers, Given, Whole
    <3> QED BY <3>1 DEF Cache!Next
  <2>2. CASE /\ Whole' = Whole \ {JobItem[j]}
             /\ \E k \in Jobs : JobItem[k] = JobItem[j] /\ Answers[k] = "cancelled"
    <3>1. Cache!ProvideAnyhow(j)
      BY <1>2, <2>2 DEF Cache!ProvideAnyhow, Cache!Spoiled, Answers, Given, Whole
    <3> QED BY <3>1 DEF Cache!Next
  <2> QED BY <1>2, <2>1, <2>2
<1>3. ASSUME NEW j \in Jobs, RequestTranscode(j) PROVE Step
  <2>0. Whole' = Whole
    BY <1>0, <1>3 DEF RequestTranscode
  <2>1. CASE dest[JobItem[j]] = {}
    <3>1. Answers' = Answers
      BY <1>3, <2>1 DEF RequestTranscode, TransTypeOK, Answers, Given
    <3> QED BY <1>1, <2>0, <3>1
  <2>2. CASE dest[JobItem[j]] # {}
    <3>1. Answers[j] = "waiting" /\ Answers' = [Answers EXCEPT ![j] = "path"]
      BY <1>3, <2>2 DEF RequestTranscode, TransTypeOK, Answers, Given
    <3>2. \/ Whole' = Whole \cup {JobItem[j]}
          \/ /\ Whole' = Whole \ {JobItem[j]}
             /\ \E k \in Jobs : JobItem[k] = JobItem[j] /\ Answers[k] = "cancelled"
      BY <1>0, <2>0, <2>2, WholeOrSpoiled
    <3> QED BY <1>2, <3>1, <3>2
  <2> QED BY <2>1, <2>2
<1>4. ASSUME NEW j \in Jobs, StartFfmpeg(j) \/ FfmpegSucceeds(j) \/ OrphanEnds(j) PROVE Step
  <2>1. Answers' = Answers
    BY <1>4 DEF StartFfmpeg, FfmpegSucceeds, OrphanEnds, TransTypeOK, Answers, Given
  <2>2. Whole' = Whole
    BY <1>0, <1>4 DEF StartFfmpeg, FfmpegSucceeds, OrphanEnds
  <2> QED BY <1>1, <2>1, <2>2
<1>5. ASSUME NEW j \in Jobs, Publish(j) PROVE Step
  <2>1. Answers[j] = "waiting" /\ Answers' = [Answers EXCEPT ![j] = "path"]
    BY <1>5 DEF Publish, TransTypeOK, Answers, Given
  <2>2. /\ dest' = [dest EXCEPT ![JobItem[j]] = temp[JobItem[j]]]
        /\ j \in temp[JobItem[j]] /\ JobItem[j] \in Items
        /\ temp[JobItem[j]] \subseteq Jobs
        /\ \A k \in temp[JobItem[j]] \ {j} : Left(k) /\ JobItem[k] = JobItem[j]
    <3>1. j \in Holders
      BY <1>5 DEF Publish, Holders
    <3> QED BY <1>0, <1>5, <3>1 DEF Publish, OwnFiles, TransTypeOK
  <2>3. /\ dest'[JobItem[j]] = temp[JobItem[j]]
        /\ \A i \in Items : i # JobItem[j] => dest'[i] = dest[i]
    BY <2>2 DEF TransTypeOK
  <2>4. CASE temp[JobItem[j]] = {j}
    <3>1. Whole' = Whole \cup {JobItem[j]}
      BY <1>0, <2>2, <2>3, <2>4
    <3> QED BY <1>2, <2>1, <3>1
  <2>5. CASE temp[JobItem[j]] # {j}
    <3>1. PICK k \in temp[JobItem[j]] : k # j
      BY <2>2, <2>5
    <3>2. k \in Jobs /\ JobItem[k] = JobItem[j] /\ Answers[k] = "cancelled"
      BY <2>2, <3>1 DEF Left, Answers, Given
    <3>3. \A h \in Jobs : temp[JobItem[j]] # {h}
      BY <2>2, <3>1
    <3>4. Whole' = Whole \ {JobItem[j]}
      BY <1>0, <2>2, <2>3, <3>3
    <3> QED BY <1>2, <2>1, <3>2, <3>4
  <2> QED BY <2>4, <2>5
<1>6. ASSUME NEW j \in Jobs, GiveUp(j) \/ Cancel(j) PROVE Step
  <2>2. Whole' = Whole
    BY <1>0, <1>6 DEF GiveUp, Cancel
  <2>3. CASE GiveUp(j)
    <3>1. Answers[j] = "waiting" /\ Answers' = [Answers EXCEPT ![j] = "none"]
      BY <2>3 DEF GiveUp, TransTypeOK, Answers, Given
    <3>2. Cache!Decline(j)
      BY <2>2, <3>1 DEF Cache!Decline, Answers, Given, Whole
    <3> QED BY <3>2 DEF Cache!Next
  <2>4. CASE Cancel(j)
    <3>1. Answers[j] = "waiting" /\ Answers' = [Answers EXCEPT ![j] = "cancelled"]
      BY <2>4 DEF Cancel, TransTypeOK, Answers, Given
    <3>2. Cache!Cancel(j)
      BY <2>2, <3>1 DEF Cache!Cancel, Answers, Given, Whole
    <3> QED BY <3>2 DEF Cache!Next
  <2> QED BY <1>6, <2>3, <2>4
<1>7. CASE TransCrash
  <2>0. PICK lost \in SUBSET Jobs :
               lost = {j \in Jobs : job[j] \in {"queued", "ffmpeg", "encoded"}}
    OBVIOUS
  <2>1. /\ \A j \in lost : Answers[j] = "waiting"
        /\ Answers' = [j \in Jobs |-> IF j \in lost THEN "dead" ELSE Answers[j]]
    BY <1>7, <2>0 DEF TransCrash, TransTypeOK, Answers, Given
  <2>2. Whole' = Whole
    BY <1>0, <1>7 DEF TransCrash
  <2>3. Cache!Die(lost)
    BY <2>1, <2>2 DEF Cache!Die, Answers, Given, Whole
  <2> QED BY <2>3 DEF Cache!Next
<1>8. CASE UNCHANGED transVars
  <2>1. Answers' = Answers /\ Whole' = Whole
    BY <1>0, <1>8 DEF transVars, Answers, Given
  <2> QED BY <1>1, <2>1
<1> QED BY <1>3, <1>4, <1>5, <1>6, <1>7, <1>8 DEF TransNext

(* Then transcode_to_mp4 is also a cache of files: a path it has answered  *)
(* leads to a whole video from then on, but for items with a cancelled     *)
(* request.                                                                *)
THEOREM TranscoderIsCache == TransSpec /\ []OnePerItem => IsFileCache
<1>1. TransSpec /\ []OnePerItem => [](TransTypeOK /\ OwnFiles)
  BY OwnFilesAlways
<1>2. TransTypeOK /\ OwnFiles /\ (TransTypeOK /\ OwnFiles)' /\ OnePerItem
        /\ [TransNext]_transVars => [Cache!Next]_Cache!cacheVars
  BY CacheStep
<1> QED BY <1>1, <1>2, CacheInit, PTL DEF TransSpec, IsFileCache, Cache!Spec

-----------------------------------------------------------------------------
(* One permit, or jobs of distinct items, keep the jobs of an item apart.  *)

LEMMA OnePermit ==
  ASSUME IsFiniteSet(Jobs), MaxConcurrency = 1
  PROVE  TransSpec => []OnePerItem
<1>1. PermitsInv /\ permits >= 0 => OnePerItem
  <2> SUFFICES ASSUME PermitsInv, permits >= 0, NEW j \in Holders, NEW k \in Holders
               PROVE  j = k
    BY DEF OnePerItem
  <2>1. Cardinality(Holders) <= 1 /\ Cardinality(Holders) \in Nat
    BY HoldersFinite DEF PermitsInv, TransTypeOK
  <2>2. /\ IsFiniteSet(Holders \ {j})
        /\ Cardinality(Holders \ {j}) = Cardinality(Holders) - 1
    BY HoldersFinite, FS_RemoveElement
  <2>3. Cardinality(Holders \ {j}) \in Nat
    BY <2>2, FS_CardinalityType
  <2>4. Holders \ {j} = {}
    BY <2>1, <2>2, <2>3, FS_EmptySet
  <2> QED BY <2>4
<1>2. PermitsInv /\ permits >= 0 /\ [TransNext]_transVars => (permits >= 0)'
  <2> SUFFICES ASSUME PermitsInv, permits >= 0, [TransNext]_transVars PROVE permits' >= 0
    OBVIOUS
  <2> QED BY TranscoderAssumption DEF PermitsInv, TransTypeOK, TransNext, transVars,
       RequestTranscode, StartFfmpeg, FfmpegSucceeds, Publish, GiveUp, Cancel, OrphanEnds,
       TransCrash
<1>3. TransInit => permits >= 0
  BY TranscoderAssumption DEF TransInit
<1> QED BY <1>1, <1>2, <1>3, InitPermits, NextPermits, PTL DEF TransSpec

(* With one permit what is served as transcoded was encoded to its end,    *)
(* also when jobs of the same video queue up behind one that dies half     *)
(* way, and no other ffmpeg had it open but that of a cancelled job.       *)
THEOREM PublishedIsComplete ==
  ASSUME IsFiniteSet(Jobs), MaxConcurrency = 1
  PROVE  TransSpec => []DestIsComplete
BY OnePermit, OnePublisherCompletes, PTL

(* And who has been answered with a path will always find the whole video, *)
(* if no request of that video is cancelled.                               *)
THEOREM TranscoderImplementsCache ==
  ASSUME IsFiniteSet(Jobs), MaxConcurrency = 1
  PROVE  TransSpec => IsFileCache
BY OnePermit, TranscoderIsCache, PTL

(* Both hold with any number of permits too, if no two jobs are of one     *)
(* item.                                                                   *)
COROLLARY DistinctItemsComplete ==
  ASSUME \A j, k \in Jobs : JobItem[j] = JobItem[k] => j = k
  PROVE  TransSpec => []DestIsComplete /\ IsFileCache
<1>1. OnePerItem
  BY DEF OnePerItem, Holders
<1> QED BY <1>1, OnePublisherCompletes, TranscoderIsCache, PTL
=============================================================================
