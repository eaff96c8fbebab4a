--------------------------- MODULE SpecDatasetProofs ---------------------------
(***************************************************************************)
(* Theorems about the spec dataset, for any outcome of the seeds, sizes,   *)
(* limits and number of builds, wherever a build is killed.                *)
(***************************************************************************)
EXTENDS SpecDataset, FiniteSetTheorems, SequenceTheorems, TLAPS

Content == Seeds \cup {None, Torn}
Building == {"sample", "write"}
Phases == Building \cup {"built", "dead", "load", "eval", "raised", "over"}

DatasetShape ==
  /\ profile \in [Seeds -> Kinds] /\ limit \in Nat \ {0} /\ run \in Nat \ {0}
  /\ n \in 1..MaxSize /\ phase \in Phases
  /\ written \in 0..MaxSize /\ part \in 0..3
  /\ phase \in Building => written <= n
  /\ phase = "write" => written < n /\ seed_iter \in Seeds /\ profile[seed_iter] # "poor"
  /\ disk \in [DirIds -> [Files -> Content]]
  /\ next_dir \in 0..MaxSize
  /\ samples \in Seq([seed : Seeds, dir : DirIds]) /\ compared \in Seq(Content)
  /\ Len(compared) <= Len(samples)
  /\ phase \notin {"load", "eval", "raised", "over"} => next_dir = 0 /\ samples = <<>>
  /\ phase \notin {"eval", "over"} => compared = <<>>

(* What a first build has on disk: complete directories, then the one in   *)
(* hand, then nothing.                                                     *)
BuildAt(d) ==
  /\ d < written => disk[d]["spec"] \in Seeds
  /\ d > written => disk[d] = [f \in Files |-> None]
  /\ disk[d]["spec"] \in Seeds => profile[disk[d]["spec"]] # "poor"
  /\ disk[d]["gcc"] \in Seeds => disk[d]["gcc"] = disk[d]["spec"]
  /\ d = written /\ phase = "write" /\ part > 0 => disk[d]["spec"] = seed_iter
  /\ d = written /\ phase = "write" /\ part < 3 => disk[d]["gcc"] = None
  /\ d = written /\ (phase \in {"sample", "built"} \/ (phase = "write" /\ part = 0)) =>
       disk[d] = [f \in Files |-> None]

BuildInv ==
  run = 1 =>
    /\ \A d \in DirIds : BuildAt(d)
    /\ phase = "sample" => part = 0
    /\ phase = "built" => manifest = written

(* What from_directory has read so far: the specs within the vocabulary    *)
(* among the directories it looked at, in their order.                     *)
Before(e) == {d \in PlainDirs : d < e}

LoadInv ==
  phase \in {"load", "eval", "over"} =>
    /\ Len(samples) = Cardinality(Before(next_dir)) /\ Len(samples) <= limit
    /\ \A i \in 1..Len(samples) :
         /\ samples[i].dir \in PlainDirs /\ disk[samples[i].dir]["spec"] = samples[i].seed
         /\ Cardinality(Before(samples[i].dir)) = i - 1
    /\ phase # "load" => Len(samples) = limit \/ next_dir = MaxSize

DatasetInv == DatasetShape /\ BuildInv /\ LoadInv /\ OwnBaselinePlain

-----------------------------------------------------------------------------
LEMMA DatasetInitInv == DatasetInit => DatasetInv
<1> SUFFICES ASSUME DatasetInit PROVE DatasetInv
  OBVIOUS
<1>1. DatasetShape
  <2>1. profile \in [Seeds -> Kinds] /\ limit \in Nat \ {0} /\ n \in 1..MaxSize
    BY DatasetAssumption DEF DatasetInit
  <2>2. disk \in [DirIds -> [Files -> Content]]
    BY DEF DatasetInit, Content
  <2>3. /\ samples \in Seq([seed : Seeds, dir : DirIds]) /\ compared \in Seq(Content)
        /\ Len(compared) <= Len(samples)
    BY EmptySeq DEF DatasetInit
  <2>4. /\ run = 1 /\ phase = "sample" /\ written = 0 /\ part = 0 /\ next_dir = 0
        /\ samples = <<>> /\ compared = <<>> /\ 0 \in 0..MaxSize
    BY DatasetAssumption DEF DatasetInit
  <2> QED BY <2>1, <2>2, <2>3, <2>4 DEF DatasetShape, Phases, Building
<1>2. BuildInv
  <2> SUFFICES ASSUME NEW d \in DirIds
               PROVE  disk[d] = [f \in Files |-> None] /\ ~(d < written)
                      /\ disk[d]["spec"] = None /\ disk[d]["gcc"] = None
    BY DatasetAssumption DEF DatasetInit, BuildInv, BuildAt
  <2> QED BY DEF DatasetInit, DirIds, Files
<1>3. LoadInv
  BY DEF DatasetInit, LoadInv
<1>4. OwnBaselinePlain
  BY DEF DatasetInit, OwnBaselinePlain, OwnBaseline
<1> QED BY <1>1, <1>2, <1>3, <1>4 DEF DatasetInv

LEMMA DatasetShapeStep == DatasetInv /\ [DatasetNext]_dvars => DatasetShape'
<1> SUFFICES ASSUME DatasetInv, [DatasetNext]_dvars PROVE DatasetShape'
  OBVIOUS
<1>0. DatasetShape
  BY DEF DatasetInv
<1> USE DEF Phases, Building
<1>1. CASE SkipSeed
  BY <1>0, <1>1 DEF SkipSeed, conf, stored, reader, DatasetShape
<1>2. CASE TakeSeed
  BY <1>0, <1>2 DEF TakeSeed, conf, build, stored, reader, DatasetShape
<1>w. phase = "write" => written \in DirIds
  BY <1>0, DatasetAssumption DEF DatasetShape, DirIds
<1>p. ASSUME NEW f \in Files, NEW c \in Content, disk' = [disk EXCEPT ![written][f] = c]
      PROVE  disk' \in [DirIds -> [Files -> Content]]
  BY <1>0, <1>p DEF DatasetShape
<1>3. CASE WriteSpec
  <2>1. disk' \in [DirIds -> [Files -> Content]]
    BY <1>0, <1>3, <1>p DEF WriteSpec, DatasetShape, Content, Files
  <2> QED BY <1>0, <1>3, <2>1 DEF WriteSpec, conf, reader, DatasetShape
<1>4. CASE WriteIo
  <2>1. disk' \in [DirIds -> [Files -> Content]]
    BY <1>0, <1>4, <1>p DEF WriteIo, DatasetShape, Content, Files
  <2> QED BY <1>0, <1>4, <2>1 DEF WriteIo, conf, reader, DatasetShape
<1>5. CASE WriteBaseline
  <2>1. disk' \in [DirIds -> [Files -> Content]]
    BY <1>0, <1>5, <1>p DEF WriteBaseline, DatasetShape, Content, Files
  <2> QED BY <1>0, <1>5, <2>1 DEF WriteBaseline, conf, reader, DatasetShape
<1>6. CASE NextSpec
  <2>1. written' \in 0..MaxSize /\ written' <= n
    BY <1>0, <1>6, DatasetAssumption DEF NextSpec, DatasetShape
  <2> QED BY <1>0, <1>6, <2>1 DEF NextSpec, conf, stored, reader, DatasetShape
<1>7. CASE WriteManifest
  BY <1>0, <1>7 DEF WriteManifest, conf, build, reader, DatasetShape
<1>8. CASE Killed
  <2>1. disk' \in [DirIds -> [Files -> Content]]
    BY <1>0, <1>8, <1>p DEF Killed, DatasetShape, Content
  <2> QED BY <1>0, <1>8, <2>1 DEF Killed, conf, build, reader, DatasetShape
<1>9. CASE Rebuild
  <2>1. n' \in 1..MaxSize /\ 0 \in 0..MaxSize /\ run' \in Nat \ {0}
    BY <1>0, <1>9, DatasetAssumption DEF Rebuild, DatasetShape
  <2> QED BY <1>0, <1>9, <2>1 DEF Rebuild, stored, reader, DatasetShape
<1>10. CASE Load
  BY <1>0, <1>10 DEF Load, conf, build, stored, reader, DatasetShape
<1>n. next_dir \in DirIds => next_dir + 1 \in 0..MaxSize
  BY DatasetAssumption DEF DirIds
<1>11. CASE PassOver
  BY <1>0, <1>n, <1>11 DEF PassOver, More, conf, build, stored, DatasetShape
<1>12. CASE LoadRaises
  BY <1>0, <1>12 DEF LoadRaises, conf, build, stored, reader, DatasetShape
<1>13. CASE LoadSample
  <2>1. [seed |-> SpecFile, dir |-> next_dir] \in [seed : Seeds, dir : DirIds]
    BY <1>13 DEF LoadSample, More
  <2>2. /\ samples' \in Seq([seed : Seeds, dir : DirIds])
        /\ Len(samples') = Len(samples) + 1 /\ Len(samples) \in Nat
    <3>1. samples \in Seq([seed : Seeds, dir : DirIds])
      BY <1>0 DEF DatasetShape
    <3>2. samples' = Append(samples, [seed |-> SpecFile, dir |-> next_dir])
      BY <1>13 DEF LoadSample
    <3> QED BY <2>1, <3>1, <3>2, AppendProperties, LenProperties
  <2>3. compared = <<>> /\ compared' = <<>> /\ Len(compared') = 0
    BY <1>0, <1>13 DEF LoadSample, DatasetShape
  <2>4. next_dir' \in 0..MaxSize
    BY <1>n, <1>13 DEF LoadSample, More
  <2> QED BY <1>0, <1>13, <2>2, <2>3, <2>4 DEF LoadSample, conf, build, stored, DatasetShape
<1>14. CASE LoadDone
  BY <1>0, <1>14 DEF LoadDone, conf, build, stored, reader, DatasetShape
<1>15. CASE EvalSample
  <2>1. PICK c \in Content : compared' = Append(compared, c)
    <3>1. \A d \in DirIds : disk[d]["gcc"] \in Content
      BY <1>0 DEF DatasetShape, Files
    <3> QED BY <1>15, <3>1 DEF EvalSample, Content
  <2>2. compared' \in Seq(Content) /\ Len(compared') = Len(compared) + 1 /\ Len(compared) \in Nat
    BY <1>0, <2>1, AppendProperties, LenProperties DEF DatasetShape
  <2>3. Len(compared) < Len(samples) /\ Len(samples) \in Nat
    BY <1>0, <1>15, LenProperties DEF EvalSample, DatasetShape
  <2> QED BY <1>0, <1>15, <2>2, <2>3 DEF EvalSample, conf, build, stored, DatasetShape
<1>16. CASE EvalDone
  BY <1>0, <1>16 DEF EvalDone, conf, build, stored, reader, DatasetShape
<1>17. CASE UNCHANGED dvars
  BY <1>0, <1>17 DEF dvars, conf, build, stored, reader, DatasetShape
<1> QED BY <1>1, <1>2, <1>3, <1>4, <1>5, <1>6, <1>7, <1>8, <1>9, <1>10, <1>11, <1>12,
           <1>13, <1>14, <1>15, <1>16, <1>17 DEF DatasetNext

-----------------------------------------------------------------------------
(* Once the first build is over its directories stay as they are.          *)
LEMMA BuildRead ==
  BuildInv /\ UNCHANGED <<profile, run, written, disk>> /\ phase' \notin {"sample", "write", "built"}
    => BuildInv'
  BY DEF BuildInv, BuildAt

(* Writing one file of the directory in hand leaves the others alone.      *)
LEMMA PutFile ==
  ASSUME DatasetShape, phase = "write", NEW f \in Files, NEW c,
         disk' = [disk EXCEPT ![written][f] = c]
  PROVE  /\ written \in DirIds /\ disk'[written] = [disk[written] EXCEPT ![f] = c]
         /\ disk'[written][f] = c /\ \A g \in Files : g # f => disk'[written][g] = disk[written][g]
         /\ \A d \in DirIds : d # written => disk'[d] = disk[d]
<1>1. written \in DirIds
  BY DatasetAssumption DEF DatasetShape, DirIds
<1>2. disk \in [DirIds -> [Files -> Content]]
  BY DEF DatasetShape
<1> QED BY <1>1, <1>2

LEMMA BuildStep == DatasetInv /\ [DatasetNext]_dvars => BuildInv'
<1> SUFFICES ASSUME DatasetInv, [DatasetNext]_dvars PROVE BuildInv'
  OBVIOUS
<1>0. DatasetShape /\ BuildInv
  BY DEF DatasetInv
<1>d. DirIds \subseteq Nat /\ written \in Nat /\ part \in Nat
  BY <1>0, DatasetAssumption DEF DirIds, DatasetShape
<1>1. CASE SkipSeed
  <2>1. phase = "sample" /\ UNCHANGED <<profile, run, phase, written, part, disk>>
    BY <1>1 DEF SkipSeed, conf, stored
  <2> SUFFICES ASSUME run = 1, NEW d \in DirIds PROVE BuildAt(d)'
    BY <1>0, <2>1 DEF BuildInv
  <2>2. BuildAt(d)
    BY <1>0 DEF BuildInv
  <2> QED BY <2>1, <2>2 DEF BuildAt
<1>2. CASE TakeSeed
  <2>1. /\ phase = "sample" /\ phase' = "write"
        /\ UNCHANGED <<profile, run, seed_iter, written, part, disk>>
    BY <1>2 DEF TakeSeed, conf, build, stored
  <2> SUFFICES ASSUME run = 1, NEW d \in DirIds PROVE BuildAt(d)'
    BY <2>1 DEF BuildInv
  <2>2. BuildAt(d) /\ part = 0
    BY <1>0, <2>1 DEF BuildInv
  <2>3. d = written => disk[d] = [f \in Files |-> None] /\ disk[d]["gcc"] = None
    BY <2>1, <2>2 DEF BuildAt, Files
  <2> QED BY <2>1, <2>2, <2>3 DEF BuildAt
<1>3. CASE WriteSpec
  <2>1. /\ phase = "write" /\ part = 0 /\ part' = 1 /\ disk' = [disk EXCEPT ![written]["spec"] = seed_iter]
        /\ UNCHANGED <<profile, run, phase, seed_iter, written>>
    BY <1>3 DEF WriteSpec, conf
  <2>2. seed_iter \in Seeds /\ profile[seed_iter] # "poor"
    BY <1>0, <2>1 DEF DatasetShape
  <2>3. /\ disk'[written]["spec"] = seed_iter /\ disk'[written]["gcc"] = disk[written]["gcc"]
        /\ \A d \in DirIds : d # written => disk'[d] = disk[d]
    BY <1>0, <2>1, PutFile DEF Files
  <2> SUFFICES ASSUME run = 1, NEW d \in DirIds PROVE BuildAt(d)'
    BY <2>1 DEF BuildInv
  <2>4. BuildAt(d)
    BY <1>0 DEF BuildInv
  <2>5. CASE d = written
    <3>1. disk'[d]["spec"] = seed_iter /\ disk'[d]["gcc"] = None
      BY <2>1, <2>3, <2>4, <2>5 DEF BuildAt
    <3> QED BY <1>d, <2>1, <2>2, <2>5, <3>1, DatasetAssumption DEF BuildAt
  <2>6. CASE d # written
    BY <2>1, <2>3, <2>4, <2>6 DEF BuildAt
  <2> QED BY <2>5, <2>6
<1>4. CASE WriteIo
  <2>1. /\ phase = "write" /\ part = 1 /\ part' = 2 /\ disk' = [disk EXCEPT ![written]["io"] = seed_iter]
        /\ UNCHANGED <<profile, run, phase, seed_iter, written>>
    BY <1>4 DEF WriteIo, conf
  <2>3. /\ disk'[written]["spec"] = disk[written]["spec"] /\ disk'[written]["gcc"] = disk[written]["gcc"]
        /\ \A d \in DirIds : d # written => disk'[d] = disk[d]
    BY <1>0, <2>1, PutFile DEF Files
  <2> SUFFICES ASSUME run = 1, NEW d \in DirIds PROVE BuildAt(d)'
    BY <2>1 DEF BuildInv
  <2>4. BuildAt(d)
    BY <1>0 DEF BuildInv
  <2>5. CASE d = written
    BY <1>d, <2>1, <2>3, <2>4, <2>5 DEF BuildAt
  <2>6. CASE d # written
    BY <2>1, <2>3, <2>4, <2>6 DEF BuildAt
  <2> QED BY <2>5, <2>6
<1>5. CASE WriteBaseline
  <2>1. /\ phase = "write" /\ part = 2 /\ part' = 3
        /\ disk' = [disk EXCEPT ![written]["gcc"] = seed_iter] \/ disk' = disk
        /\ UNCHANGED <<profile, run, phase, seed_iter, written>>
    BY <1>5 DEF WriteBaseline, conf
  <2>3. /\ disk'[written]["spec"] = disk[written]["spec"]
        /\ disk'[written]["gcc"] \in {seed_iter, disk[written]["gcc"]}
        /\ \A d \in DirIds : d # written => disk'[d] = disk[d]
    <3>1. CASE disk' = [disk EXCEPT ![written]["gcc"] = seed_iter]
      BY <1>0, <2>1, <3>1, PutFile DEF Files
    <3> QED BY <2>1, <3>1
  <2> SUFFICES ASSUME run = 1, NEW d \in DirIds PROVE BuildAt(d)'
    BY <2>1 DEF BuildInv
  <2>4. BuildAt(d)
    BY <1>0 DEF BuildInv
  <2>5. CASE d = written
    <3>1. disk[d]["spec"] = seed_iter
      BY <1>d, <2>1, <2>4, <2>5 DEF BuildAt
    <3> QED BY <1>d, <2>1, <2>3, <2>4, <2>5, <3>1 DEF BuildAt
  <2>6. CASE d # written
    BY <2>1, <2>3, <2>4, <2>6 DEF BuildAt
  <2> QED BY <2>5, <2>6
<1>6. CASE NextSpec
  <2>1. /\ phase = "write" /\ part = 3 /\ written' = written + 1 /\ part' = 0 /\ phase' = "sample"
        /\ UNCHANGED <<profile, run, disk>>
    BY <1>6 DEF NextSpec, conf, stored
  <2>2. seed_iter \in Seeds
    BY <1>0, <2>1 DEF DatasetShape
  <2> SUFFICES ASSUME run = 1, NEW d \in DirIds PROVE BuildAt(d)'
    BY <2>1 DEF BuildInv
  <2>4. BuildAt(d)
    BY <1>0 DEF BuildInv
  <2>5. d < written + 1 => disk[d]["spec"] \in Seeds
    BY <1>d, <2>1, <2>2, <2>4 DEF BuildAt
  <2>6. d >= written + 1 => disk[d] = [f \in Files |-> None]
    BY <1>d, <2>4 DEF BuildAt
  <2> QED BY <1>d, <2>1, <2>4, <2>5, <2>6 DEF BuildAt
<1>7. CASE WriteManifest
  BY <1>0, <1>7 DEF WriteManifest, conf, build, BuildInv, BuildAt
<1>8. CASE Killed
  <2>1. phase' = "dead" /\ UNCHANGED <<profile, run, seed_iter, written, part>>
    BY <1>8 DEF Killed, conf, build
  <2>2. CASE UNCHANGED disk
    BY <1>0, <2>1, <2>2, BuildRead
  <2>3. CASE \E f \in Files :
               /\ phase = "write" /\ <<part, f>> \in {<<0, "spec">>, <<1, "io">>, <<2, "gcc">>}
               /\ disk' = [disk EXCEPT ![written][f] = Torn]
    <3>1. PICK f \in Files :
               /\ phase = "write" /\ <<part, f>> \in {<<0, "spec">>, <<1, "io">>, <<2, "gcc">>}
               /\ disk' = [disk EXCEPT ![written][f] = Torn]
      BY <2>3
    <3>2. /\ disk'[written][f] = Torn /\ \A g \in Files : g # f => disk'[written][g] = disk[written][g]
          /\ \A d \in DirIds : d # written => disk'[d] = disk[d]
      BY <1>0, <3>1, PutFile
    <3> SUFFICES ASSUME run = 1, NEW d \in DirIds PROVE BuildAt(d)'
      BY <2>1 DEF BuildInv
    <3>4. BuildAt(d)
      BY <1>0 DEF BuildInv
    <3>5. CASE d = written
      <4>1. disk'[d]["spec"] \in Seeds => disk'[d]["spec"] = disk[d]["spec"]
        BY <3>2, <3>5, DatasetAssumption DEF Files
      <4>2. disk'[d]["gcc"] \notin Seeds
        <5>1. disk[d]["gcc"] = None
          BY <1>d, <3>1, <3>4, <3>5 DEF BuildAt
        <5> QED BY <3>2, <3>5, <5>1, DatasetAssumption DEF Files
      <4> QED BY <1>d, <2>1, <3>4, <3>5, <4>1, <4>2 DEF BuildAt
    <3>6. CASE d # written
      BY <2>1, <3>2, <3>4, <3>6 DEF BuildAt
    <3> QED BY <3>5, <3>6
  <2> QED BY <1>8, <2>2, <2>3 DEF Killed
<1>9. CASE Rebuild
  BY <1>0, <1>9 DEF Rebuild, BuildInv, DatasetShape
<1>10. CASE Load
  BY <1>0, <1>10, BuildRead DEF Load, conf, build, stored
<1>11. CASE PassOver
  BY <1>0, <1>11, BuildRead DEF PassOver, conf, build, stored
<1>12. CASE LoadRaises
  BY <1>0, <1>12, BuildRead DEF LoadRaises, conf, build, stored
<1>13. CASE LoadSample
  BY <1>0, <1>13, BuildRead DEF LoadSample, conf, build, stored
<1>14. CASE LoadDone
  BY <1>0, <1>14, BuildRead DEF LoadDone, conf, build, stored
<1>15. CASE EvalSample
  BY <1>0, <1>15, BuildRead DEF EvalSample, conf, build, stored
<1>16. CASE EvalDone
  BY <1>0, <1>16, BuildRead DEF EvalDone, conf, build, stored
<1>17. CASE UNCHANGED dvars
  BY <1>0, <1>17 DEF dvars, conf, build, stored, BuildInv, BuildAt
<1> QED BY <1>1, <1>2, <1>3, <1>4, <1>5, <1>6, <1>7, <1>8, <1>9, <1>10, <1>11, <1>12,
           <1>13, <1>14, <1>15, <1>16, <1>17 DEF DatasetNext

-----------------------------------------------------------------------------
LEMMA LoadSame ==
  LoadInv /\ UNCHANGED <<profile, limit, disk, phase, samples, next_dir>> => LoadInv'
  BY DEF LoadInv, Before, PlainDirs

(* How many of the specs within the vocabulary lie below a directory.      *)
LEMMA BeforeFacts ==
  /\ IsFiniteSet(PlainDirs) /\ PlainDirs \subseteq DirIds /\ Cardinality(PlainDirs) \in Nat
  /\ \A e : IsFiniteSet(Before(e)) /\ Cardinality(Before(e)) \in Nat
              /\ Cardinality(Before(e)) <= Cardinality(PlainDirs)
  /\ Before(0) = {} /\ Before(MaxSize) = PlainDirs
  /\ \A e \in DirIds : e \notin PlainDirs => Before(e + 1) = Before(e)
  /\ \A e \in PlainDirs : Cardinality(Before(e + 1)) = Cardinality(Before(e)) + 1
<1>1. IsFiniteSet(DirIds)
  BY DatasetAssumption, FS_Interval DEF DirIds
<1>2. PlainDirs \subseteq DirIds
  BY DEF PlainDirs
<1>3. IsFiniteSet(PlainDirs) /\ Cardinality(PlainDirs) \in Nat
  BY <1>1, <1>2, FS_Subset, FS_CardinalityType
<1>4. ASSUME NEW e
      PROVE  IsFiniteSet(Before(e)) /\ Cardinality(Before(e)) \in Nat
               /\ Cardinality(Before(e)) <= Cardinality(PlainDirs)
  <2>1. Before(e) \subseteq PlainDirs
    BY DEF Before
  <2> QED BY <1>3, <2>1, FS_Subset, FS_CardinalityType
<1>5. \A d \in PlainDirs : d \in 0..MaxSize-1
  BY <1>2 DEF DirIds
<1>6. Before(0) = {} /\ Before(MaxSize) = PlainDirs
  BY <1>5, DatasetAssumption DEF Before
<1>7. \A e \in DirIds : Before(e + 1) = Before(e) \cup (PlainDirs \cap {e})
  BY <1>5, DatasetAssumption DEF Before, DirIds
<1>8. \A e \in DirIds : e \notin PlainDirs => Before(e + 1) = Before(e)
  BY <1>7
<1>9. ASSUME NEW e \in PlainDirs PROVE Cardinality(Before(e + 1)) = Cardinality(Before(e)) + 1
  <2>1. Before(e + 1) = Before(e) \cup {e}
    BY <1>2, <1>7
  <2>2. e \notin Before(e)
    BY <1>5 DEF Before
  <2> QED BY <1>4, <2>1, <2>2, FS_AddElement
<1> QED BY <1>2, <1>3, <1>4, <1>6, <1>8, <1>9

LEMMA LoadStep == DatasetInv /\ [DatasetNext]_dvars => LoadInv'
<1> SUFFICES ASSUME DatasetInv, [DatasetNext]_dvars PROVE LoadInv'
  OBVIOUS
<1>0. DatasetShape /\ LoadInv
  BY DEF DatasetInv
<1>1. CASE SkipSeed
  BY <1>1 DEF SkipSeed, LoadInv
<1>2. CASE TakeSeed
  BY <1>2 DEF TakeSeed, LoadInv
<1>3. CASE WriteSpec
  BY <1>3 DEF WriteSpec, LoadInv
<1>4. CASE WriteIo
  BY <1>4 DEF WriteIo, LoadInv
<1>5. CASE WriteBaseline
  BY <1>5 DEF WriteBaseline, LoadInv
<1>6. CASE NextSpec
  BY <1>6 DEF NextSpec, LoadInv
<1>7. CASE WriteManifest
  BY <1>7 DEF WriteManifest, LoadInv
<1>8. CASE Killed
  BY <1>8 DEF Killed, LoadInv
<1>9. CASE Rebuild
  BY <1>9 DEF Rebuild, LoadInv
<1>s. samples \in Seq([seed : Seeds, dir : DirIds]) /\ Len(samples) \in Nat /\ next_dir \in 0..MaxSize /\ limit \in Nat \ {0}
  BY <1>0, LenProperties DEF DatasetShape
<1>10. CASE Load
  <2>1. samples = <<>> /\ next_dir = 0 /\ phase' = "load" /\ UNCHANGED <<profile, limit, disk, samples, next_dir>>
    BY <1>0, <1>10 DEF Load, DatasetShape, conf, stored, reader
  <2>2. Before(next_dir) = {} /\ Before(next_dir)' = Before(next_dir)
    BY <2>1, BeforeFacts DEF Before, PlainDirs
  <2>3. Len(samples') = 0 /\ Cardinality(Before(next_dir)') = 0
    BY <2>1, <2>2, FS_EmptySet
  <2>4. 1..Len(samples') = {}
    BY <2>3
  <2> QED BY <1>s, <2>1, <2>3, <2>4 DEF LoadInv
<1>11. CASE PassOver
  <2>1. /\ phase = "load" /\ phase' = "load" /\ next_dir \in DirIds /\ next_dir' = next_dir + 1
        /\ UNCHANGED <<profile, limit, disk, samples>> /\ next_dir \notin PlainDirs
    BY <1>11, DatasetAssumption DEF PassOver, More, SpecFile, PlainDirs, conf, stored
  <2>2. /\ Before(next_dir)' = Before(next_dir) /\ PlainDirs' = PlainDirs
        /\ \A i \in 1..Len(samples) : Before(samples[i].dir)' = Before(samples[i].dir)
    <3>1. PlainDirs' = PlainDirs /\ Before(next_dir)' = Before(next_dir + 1)
      BY <2>1 DEF Before, PlainDirs
    <3>2. \A i \in 1..Len(samples) : Before(samples[i].dir)' = Before(samples[i].dir)
      BY <2>1, <3>1 DEF Before
    <3> QED BY <2>1, <3>1, <3>2, BeforeFacts
  <2> QED BY <1>0, <2>1, <2>2 DEF LoadInv
<1>12. CASE LoadRaises
  BY <1>12 DEF LoadRaises, LoadInv
<1>13. CASE LoadSample
  <2> DEFINE s == [seed |-> SpecFile, dir |-> next_dir]
             m == Len(samples)
  <2>1. /\ phase = "load" /\ phase' = "load" /\ next_dir \in DirIds /\ next_dir' = next_dir + 1
        /\ samples' = Append(samples, s) /\ Len(samples) < limit
        /\ UNCHANGED <<profile, limit, disk>> /\ next_dir \in PlainDirs /\ SpecFile \in Seeds
    BY <1>13 DEF LoadSample, More, SpecFile, PlainDirs, conf, stored
  <2>2. /\ PlainDirs' = PlainDirs /\ \A e : e' = e => Before(e)' = Before(e)
    BY <2>1 DEF Before, PlainDirs
  <2>3. Before(next_dir)' = Before(next_dir + 1)
    BY <2>1 DEF Before, PlainDirs
  <2>4. /\ Len(samples') = m + 1 /\ samples'[m+1] = s /\ \A i \in 1..m : samples'[i] = samples[i]
    <3>1. s \in [seed : Seeds, dir : DirIds]
      BY <2>1
    <3> QED BY <1>s, <2>1, <3>1, AppendProperties
  <2>5. m = Cardinality(Before(next_dir)) /\ m + 1 <= limit
    BY <1>0, <1>s, <2>1 DEF LoadInv
  <2>6. Len(samples') = Cardinality(Before(next_dir)')
    BY <2>1, <2>3, <2>4, <2>5, BeforeFacts
  <2>7. ASSUME NEW i \in 1..m+1
        PROVE  /\ samples'[i].dir \in PlainDirs' /\ disk'[samples'[i].dir]["spec"] = samples'[i].seed
               /\ Cardinality(Before(samples[i].dir)') = i - 1
    <3>1. CASE i \in 1..m
      <4>1. samples'[i] = samples[i]
        BY <2>4, <3>1
      <4>2. /\ samples[i].dir \in PlainDirs /\ disk[samples[i].dir]["spec"] = samples[i].seed
            /\ Cardinality(Before(samples[i].dir)) = i - 1
        BY <1>0, <2>1, <3>1 DEF LoadInv
      <4>3. Before(samples[i].dir)' = Before(samples[i].dir)
        BY <2>1, <2>2, <4>1 DEF Before
      <4> QED BY <2>1, <2>2, <4>1, <4>2, <4>3
    <3>2. CASE i = m + 1
      <4>1. samples'[i].dir = next_dir /\ samples'[i].seed = disk[next_dir]["spec"]
        BY <2>4, <3>2 DEF SpecFile
      <4>2. Before(samples[i].dir)' = Before(next_dir)
        BY <2>2, <4>1 DEF Before
      <4>3. Cardinality(Before(samples[i].dir)') = i - 1
        BY <1>s, <2>5, <3>2, <4>2
      <4> QED BY <2>1, <2>2, <4>1, <4>3
    <3> QED BY <1>s, <3>1, <3>2
  <2>8. 1..Len(samples') = 1..m+1 /\ Len(samples') <= limit'
    BY <2>1, <2>4, <2>5
  <2> QED BY <2>1, <2>6, <2>7, <2>8 DEF LoadInv
<1>14. CASE LoadDone
  <2>1. /\ phase = "load" /\ phase' = "eval" /\ ~(next_dir \in DirIds /\ Len(samples) < limit)
        /\ UNCHANGED <<profile, limit, disk, samples, next_dir>>
    BY <1>14 DEF LoadDone, More, conf, stored, reader
  <2>2. Len(samples) <= limit
    BY <1>0, <2>1 DEF LoadInv
  <2>3. Len(samples) = limit \/ next_dir = MaxSize
    BY <1>s, <2>1, <2>2, DatasetAssumption DEF DirIds
  <2> QED BY <1>0, <2>1, <2>3 DEF LoadInv, Before, PlainDirs
<1>15. CASE EvalSample
  BY <1>0, <1>15, LoadSame DEF EvalSample, conf, stored
<1>16. CASE EvalDone
  BY <1>0, <1>16 DEF EvalDone, conf, stored, reader, LoadInv, Before, PlainDirs
<1>17. CASE UNCHANGED dvars
  BY <1>0, <1>17, LoadSame DEF dvars, conf, stored, reader
<1> QED BY <1>1, <1>2, <1>3, <1>4, <1>5, <1>6, <1>7, <1>8, <1>9, <1>10, <1>11, <1>12,
           <1>13, <1>14, <1>15, <1>16, <1>17 DEF DatasetNext

-----------------------------------------------------------------------------
LEMMA BaselineSame ==
  OwnBaselinePlain /\ UNCHANGED <<profile, run, samples, compared>> => OwnBaselinePlain'
  BY DEF OwnBaselinePlain, OwnBaseline

(* When the directory was built once and no spec is outside the            *)
(* vocabulary, the loader skips no directory before the last it takes: the *)
(* i-th sample is that of directory i - 1 (data.py, eval_checkpoint.py).   *)
LEMMA DirOfSample ==
  ASSUME DatasetInv, phase = "eval", run = 1, \A s \in Seeds : profile[s] # "conv",
         NEW i \in 1..Len(samples)
  PROVE  samples[i].dir = i - 1 /\ samples[i].dir \in PlainDirs
           /\ disk[samples[i].dir]["spec"] = samples[i].seed
<1> DEFINE d == samples[i].dir
<1>1. d \in PlainDirs /\ disk[d]["spec"] = samples[i].seed /\ Cardinality(Before(d)) = i - 1
  BY DEF DatasetInv, LoadInv
<1>2. \A e \in DirIds : BuildAt(e)
  BY DEF DatasetInv, BuildInv
<1>3. d \in DirIds /\ DirIds \subseteq Nat /\ written \in Nat /\ d \in 0..MaxSize-1
  BY <1>1, DatasetAssumption DEF PlainDirs, DirIds, DatasetInv, DatasetShape
<1>4. d <= written
  <2>1. disk[d]["spec"] # None
    BY <1>1, DatasetAssumption DEF PlainDirs
  <2>2. d > written => disk[d]["spec"] = None
    BY <1>2, <1>3 DEF BuildAt, Files
  <2> QED BY <1>3, <2>1, <2>2
<1>5. ASSUME NEW e \in 0..d-1 PROVE e \in PlainDirs
  <2>1. e \in DirIds /\ e < written
    BY <1>3, <1>4, DatasetAssumption DEF DirIds
  <2>2. disk[e]["spec"] \in Seeds /\ profile[disk[e]["spec"]] # "poor"
    BY <1>2, <2>1 DEF BuildAt
  <2>3. profile[disk[e]["spec"]] = "plain"
    <3>1. profile[disk[e]["spec"]] \in Kinds
      BY <2>2 DEF DatasetInv, DatasetShape
    <3> QED BY <2>2, <3>1 DEF Kinds
  <2> QED BY <2>1, <2>2, <2>3 DEF PlainDirs
<1>6. Before(d) = 0..d-1
  <2>1. \A e \in PlainDirs : e \in Nat
    BY <1>3 DEF PlainDirs
  <2> HIDE DEF d
  <2> QED BY <1>3, <1>5, <2>1 DEF Before
<1>7. Cardinality(0..d-1) = d
  <2>1. 0 \in Int /\ d - 1 \in Int /\ d \in Nat
    BY <1>3
  <2> HIDE DEF d
  <2> QED BY <2>1, FS_Interval
<1> QED BY <1>1, <1>3, <1>6, <1>7

LEMMA BaselineStep == DatasetInv /\ [DatasetNext]_dvars => OwnBaselinePlain'
<1> SUFFICES ASSUME DatasetInv, [DatasetNext]_dvars PROVE OwnBaselinePlain'
  OBVIOUS
<1>0. DatasetShape /\ BuildInv /\ OwnBaselinePlain
  BY DEF DatasetInv
<1>1. CASE SkipSeed
  BY <1>0, <1>1, BaselineSame DEF SkipSeed, conf, reader
<1>2. CASE TakeSeed
  BY <1>0, <1>2, BaselineSame DEF TakeSeed, conf, reader
<1>3. CASE WriteSpec
  BY <1>0, <1>3, BaselineSame DEF WriteSpec, conf, reader
<1>4. CASE WriteIo
  BY <1>0, <1>4, BaselineSame DEF WriteIo, conf, reader
<1>5. CASE WriteBaseline
  BY <1>0, <1>5, BaselineSame DEF WriteBaseline, conf, reader
<1>6. CASE NextSpec
  BY <1>0, <1>6, BaselineSame DEF NextSpec, conf, reader
<1>7. CASE WriteManifest
  BY <1>0, <1>7, BaselineSame DEF WriteManifest, conf, reader
<1>8. CASE Killed
  BY <1>0, <1>8, BaselineSame DEF Killed, conf, reader
<1>9. CASE Rebuild
  BY <1>0, <1>9 DEF Rebuild, OwnBaselinePlain, DatasetShape
<1>10. CASE Load
  BY <1>0, <1>10, BaselineSame DEF Load, conf, reader
<1>11. CASE PassOver
  BY <1>0, <1>11, BaselineSame DEF PassOver, conf
<1>12. CASE LoadRaises
  BY <1>0, <1>12, BaselineSame DEF LoadRaises, conf, reader
<1>13. CASE LoadSample
  <2>1. compared' = <<>>
    BY <1>0, <1>13 DEF LoadSample, DatasetShape
  <2>2. 1..Len(compared') = {}
    BY <2>1
  <2> QED BY <2>2 DEF OwnBaselinePlain, OwnBaseline
<1>14. CASE LoadDone
  BY <1>0, <1>14, BaselineSame DEF LoadDone, conf, reader
<1>15. CASE EvalSample
  <2> DEFINE m == Len(compared)
  <2>1. /\ phase = "eval" /\ m < Len(samples) /\ UNCHANGED <<profile, run, samples, disk>>
        /\ \/ compared' = Append(compared, None)
           \/ compared' = Append(compared, IF m \in DirIds THEN disk[m]["gcc"] ELSE None)
    BY <1>15 DEF EvalSample, BaselineDir, conf, stored
  <2>2. m \in Nat /\ Len(samples) \in Nat /\ compared \in Seq(Content)
    BY <1>0, LenProperties DEF DatasetShape
  <2> SUFFICES ASSUME run = 1, \A s \in Seeds : profile[s] # "conv",
                      NEW i \in 1..Len(compared'), compared'[i] \in Seeds
               PROVE  compared'[i] = samples[i].seed
    BY <2>1 DEF OwnBaselinePlain, OwnBaseline
  <2>3. PICK c \in Content : compared' = Append(compared, c) /\ (c # None => m \in DirIds /\ c = disk[m]["gcc"])
    <3>1. \A d \in DirIds : disk[d]["gcc"] \in Content
      BY <1>0 DEF DatasetShape, Files
    <3> QED BY <2>1, <3>1 DEF Content
  <2>4. Len(compared') = m + 1 /\ compared'[m+1] = c /\ \A j \in 1..m : compared'[j] = compared[j]
    BY <2>2, <2>3, AppendProperties
  <2> HIDE DEF m
  <2>5. CASE i \in 1..m
    BY <1>0, <2>4, <2>5 DEF OwnBaselinePlain, OwnBaseline, m
  <2>6. CASE i = m + 1
    <3>1. c \in Seeds /\ c # None
      BY <2>4, <2>6, DatasetAssumption
    <3>2. m \in DirIds /\ c = disk[m]["gcc"]
      BY <2>3, <3>1
    <3>3. i \in 1..Len(samples) /\ i - 1 = m
      BY <2>1, <2>2, <2>6
    <3>4. disk[m]["spec"] = samples[i].seed
      BY <2>1, <3>3, DirOfSample
    <3>5. disk[m]["gcc"] = disk[m]["spec"]
      BY <1>0, <3>1, <3>2 DEF BuildInv, BuildAt
    <3> QED BY <2>4, <2>6, <3>2, <3>4, <3>5
  <2> QED BY <2>2, <2>4, <2>5, <2>6
<1>16. CASE EvalDone
  BY <1>0, <1>16, BaselineSame DEF EvalDone, conf, reader
<1>17. CASE UNCHANGED dvars
  BY <1>0, <1>17, BaselineSame DEF dvars, conf, reader
<1> QED BY <1>1, <1>2, <1>3, <1>4, <1>5, <1>6, <1>7, <1>8, <1>9, <1>10, <1>11, <1>12,
           <1>13, <1>14, <1>15, <1>16, <1>17 DEF DatasetNext

-----------------------------------------------------------------------------
(* The inductive invariant holds in every state of the dataset's life.     *)
THEOREM DatasetInvariance == DatasetSpec => []DatasetInv
<1>1. DatasetInv /\ [DatasetNext]_dvars => DatasetInv'
  BY DatasetShapeStep, BuildStep, LoadStep, BaselineStep DEF DatasetInv
<1> QED BY DatasetInitInv, <1>1, PTL DEF DatasetSpec

(* The samples are the first specs within the vocabulary, in the order of  *)
(* the directories, up to the limit, over any mixture of what killed and   *)
(* repeated builds left (SpecDataset.from_directory).                      *)
THEOREM LoaderIsComplete == DatasetSpec => []LoadsSupported
<1>1. DatasetInv => LoadsSupported
  <2> SUFFICES ASSUME DatasetInv, phase = "eval" PROVE LoadsSupported
    BY DEF LoadsSupported
  <2>1. /\ Len(samples) = Cardinality(Before(next_dir)) /\ Len(samples) <= limit
        /\ \A i \in 1..Len(samples) :
             /\ samples[i].dir \in PlainDirs /\ disk[samples[i].dir]["spec"] = samples[i].seed
             /\ Cardinality(Before(samples[i].dir)) = i - 1
        /\ Len(samples) = limit \/ next_dir = MaxSize
    BY DEF DatasetInv, LoadInv
  <2>2. /\ Cardinality(PlainDirs) \in Nat /\ limit \in Nat /\ Before(MaxSize) = PlainDirs
        /\ Cardinality(Before(next_dir)) <= Cardinality(PlainDirs)
        /\ Cardinality(Before(next_dir)) \in Nat
    BY BeforeFacts DEF DatasetInv, DatasetShape
  <2>3. Len(samples) = IF Cardinality(PlainDirs) < limit THEN Cardinality(PlainDirs) ELSE limit
    <3>1. CASE Len(samples) = limit
      BY <2>1, <2>2, <3>1
    <3>2. CASE next_dir = MaxSize
      <4>1. Cardinality(Before(next_dir)) = Cardinality(PlainDirs)
        BY <2>2, <3>2
      <4> QED BY <2>1, <2>2, <4>1
    <3> QED BY <2>1, <3>1, <3>2
  <2> QED BY <2>1, <2>3 DEF LoadsSupported, Before
<1> QED BY DatasetInvariance, <1>1, PTL

(* The baseline a sample is set against was compiled from its own spec,    *)
(* when the directory was built once, killed or not, and no spec is        *)
(* outside the vocabulary (eval_checkpoint.py).                            *)
THEOREM BaselineIsOwn == DatasetSpec => []OwnBaselinePlain
<1>1. DatasetInv => OwnBaselinePlain
  BY DEF DatasetInv
<1> QED BY DatasetInvariance, <1>1, PTL

(* The manifest of a first build counts the specs in the directory         *)
(* (build_dataset.py).                                                     *)
THEOREM ManifestIsTrue == DatasetSpec => []ManifestAudits
<1>1. DatasetInv => ManifestAudits
  <2> SUFFICES ASSUME DatasetInv, phase = "built", run = 1
               PROVE  manifest = Cardinality({d \in DirIds : disk[d]["spec"] # None})
    BY DEF ManifestAudits
  <2>1. (\A d \in DirIds : BuildAt(d)) /\ manifest = written
    BY DEF DatasetInv, BuildInv
  <2>2. written \in Nat /\ written <= MaxSize /\ DirIds = 0..MaxSize-1 /\ MaxSize \in Nat
    BY DatasetAssumption DEF DatasetInv, DatasetShape, DirIds
  <2>3. \A d \in DirIds : d < written <=> disk[d]["spec"] # None
    <3> SUFFICES ASSUME NEW d \in DirIds PROVE d < written <=> disk[d]["spec"] # None
      OBVIOUS
    <3>1. BuildAt(d) /\ d \in Nat
      BY <2>1, <2>2
    <3>2. d < written => disk[d]["spec"] # None
      BY <3>1, DatasetAssumption DEF BuildAt
    <3>3. d >= written => disk[d]["spec"] = None
      BY <2>2, <3>1 DEF BuildAt, Files
    <3> QED BY <2>2, <3>1, <3>2, <3>3
  <2>4. {d \in DirIds : disk[d]["spec"] # None} = 0..written-1
    BY <2>2, <2>3
  <2>5. Cardinality(0..written-1) = written
    BY <2>2, FS_Interval
  <2> QED BY <2>1, <2>4, <2>5
<1> QED BY DatasetInvariance, <1>1, PTL
=============================================================================
