--------------------------- MODULE ArchifyProofs ---------------------------
(***************************************************************************)
(* The processes of the diagram tool that keep something beside a source:  *)
(* the preview, the commands and the visual check.  Each is proved about   *)
(* alone, with the invariant that its promises rest on; then the tool as a *)
(* whole, where in a behaviour one process is at work and the others stay  *)
(* as they were, so what each promises alone they promise together.        *)
(***************************************************************************)
EXTENDS Archify, TLAPS, SequenceTheorems

-----------------------------------------------------------------------------
(* preview.  While a child works on what has not moved, that is what is    *)
(* queued; what was verified last lies at the output; and with nothing     *)
(* under way what is shown is the verdict on what was queued.              *)
Verdict(content) ==
  \/ /\ shown.status = "verified" /\ shown.good = content
     /\ shown.buffer = ArtifactOf[content] /\ output = shown.buffer
  \/ shown.status = "needs-fix" /\ (content \notin Good \/ faulted)

PreviewInv ==
  /\ PreviewTypes
  /\ build.child # "none" /\ ~build.moved => ~queue.timer /\ queue.hash = build.of
  /\ shown.good # Nothing => /\ shown.good \in Good
                             /\ shown.buffer = ArtifactOf[shown.good]
                             /\ output = shown.buffer
  /\ ~ending.stopping /\ ~queue.timer /\ build.child = "none" => Verdict(queue.hash)
  /\ ending.stopped => build.child = "none" /\ ~ending.server /\ ending.stopping

LEMMA PreviewStarts == PreviewInit => PreviewInv
<1>1. SUFFICES ASSUME PreviewInit PROVE PreviewInv
  OBVIOUS
<1>2. PreviewTypes
  BY <1>1 DEF PreviewInit, PreviewTypes, Status
<1>3. /\ build.child = "none" /\ queue.timer /\ ~ending.stopped
      /\ shown.good = Nothing
  BY <1>1 DEF PreviewInit
<1> QED
  BY <1>2, <1>3 DEF PreviewInv

LEMMA LaunchKeeps ==
  ASSUME PreviewInv, Launch
  PROVE  PreviewInv'
<1> USE DEF PreviewInv, PreviewTypes, Verdict, Status
<1>1. queue.timer /\ ~ending.stopping /\ UNCHANGED <<source, output, ending>>
  BY DEF Launch
<1>2. CASE LaunchAgain
  BY <1>1, <1>2 DEF LaunchAgain
<1>3. CASE LaunchLastGood
  <2>1. source # Nothing
    BY PreviewAssumption DEF PreviewAssumption
  <2> QED
    BY <1>1, <1>3, <2>1 DEF LaunchLastGood, ShownAgain
<1>4. CASE LaunchLater
  <2>1. PreviewTypes'
    BY <1>1, <1>4 DEF LaunchLater
  <2>2. build.child # "none" /\ ~build.moved => FALSE
    BY <1>1
  <2>3. UNCHANGED <<build, shown, output, ending>> /\ build.child # "none"
    BY <1>1, <1>4 DEF LaunchLater
  <2> QED
    BY <2>1, <2>2, <2>3
<1>5. CASE BeginBuild
  <2>1. /\ build' \in [child : {"runs", "none"}, of : {source}, moved : {FALSE}]
        /\ queue' = [queue EXCEPT !.timer = FALSE] /\ source = queue.hash
        /\ shown' \in {[shown EXCEPT !.status = "checking"],
                       [shown EXCEPT !.status = "needs-fix"]}
        /\ faulted' \in BOOLEAN
        /\ build'.child = "none" => faulted' /\ shown'.status = "needs-fix"
    <3>1. CASE /\ build' = [child |-> "runs", of |-> source, moved |-> FALSE]
               /\ shown' = [shown EXCEPT !.status = "checking"]
               /\ faulted' = FALSE
      BY <1>5, <3>1 DEF BeginBuild
    <3>2. CASE /\ build' = [child |-> "none", of |-> source, moved |-> FALSE]
               /\ shown' = [shown EXCEPT !.status = "needs-fix"]
               /\ faulted' = TRUE
      BY <1>5, <3>2 DEF BeginBuild
    <3> QED
      BY <1>5, <3>1, <3>2 DEF BeginBuild
  <2>2. PreviewTypes'
    BY <1>1, <2>1
  <2>3. /\ shown'.good = shown.good /\ shown'.buffer = shown.buffer
        /\ queue'.hash = source /\ ~queue'.timer
        /\ build'.of = source
    BY <2>1
  <2> QED
    BY <1>1, <2>1, <2>2, <2>3
<1> QED
  BY <1>2, <1>3, <1>4, <1>5 DEF Launch

LEMMA ChildClosesKeeps ==
  ASSUME PreviewInv, ChildCloses
  PROVE  PreviewInv'
<1> USE DEF PreviewInv, PreviewTypes, Verdict, Status
<1>1. build.child = "runs" /\ ~ending.stopping /\ UNCHANGED <<source, ending>>
  BY DEF ChildCloses
<1>2. CASE Commit
  <2>1. build.of \in Good /\ ArtifactOf[build.of] \in Artifacts /\ Good \subseteq Contents
    BY <1>2, PreviewAssumption DEF Commit, Artifacts, PreviewAssumption
  <2> QED
    BY <1>1, <1>2, <2>1 DEF Commit, AfterBuild, AnythingMoved, Requeued
<1>3. CASE Supersede
  BY <1>1, <1>3 DEF Supersede, AfterBuild, AnythingMoved, Requeued
<1>4. CASE PublishFailure
  <2>1. /\ shown' = [shown EXCEPT !.status = "needs-fix"]
        /\ faulted' = (build.of \in Good) /\ output' = output
        /\ build' = [build EXCEPT !.child = "none", !.moved = FALSE]
        /\ queue' \in {Requeued, queue}
        /\ ~build.moved
    BY <1>4 DEF PublishFailure, AfterBuild, AnythingMoved
  <2>2. faulted' \in BOOLEAN
    BY <2>1
  <2>3. PreviewTypes'
    <3>1. Requeued \in [hash : Contents, timer : BOOLEAN, pending : BOOLEAN]
      BY DEF Requeued
    <3>2. /\ build' \in [child : {"none", "runs", "hangs"},
                         of : Contents \cup {Nothing}, moved : BOOLEAN]
          /\ shown' \in [status : Status, buffer : Artifacts \cup {Nothing},
                         good : Contents \cup {Nothing}]
      BY <2>1
    <3> QED
      BY <1>1, <2>1, <2>2, <3>1, <3>2
  <2>4. /\ shown'.good = shown.good /\ shown'.buffer = shown.buffer
        /\ shown'.status = "needs-fix" /\ build'.child = "none"
        /\ queue'.timer \/ queue'.hash = build.of
    BY <1>1, <2>1 DEF Requeued
  <2> QED
    BY <1>1, <2>1, <2>3, <2>4
<1>5. CASE DiscardStale
  BY <1>1, <1>5 DEF DiscardStale, AfterBuild, AnythingMoved, Requeued
<1> QED
  BY <1>2, <1>3, <1>4, <1>5 DEF ChildCloses

LEMMA PreviewKeeps ==
  ASSUME PreviewInv, [PreviewNext]_previewVars
  PROVE  PreviewInv'
<1> USE DEF PreviewInv, PreviewTypes, Verdict
<1>1. CASE Edit \/ Observe \/ ChildHangs
  BY <1>1 DEF Edit, Observe, ChildHangs
<1>2. CASE Stop \/ StopByForce \/ GraceExpires \/ KillExpires
  BY <1>2 DEF Stop, StopByForce, GraceExpires, KillExpires, AfterGrace
<1>3. CASE ServerCloses \/ StoppedChildCloses
  BY <1>3 DEF ServerCloses, StoppedChildCloses, FinishStop
<1>4. CASE UNCHANGED previewVars
  BY <1>4 DEF previewVars
<1> QED
  BY <1>1, <1>2, <1>3, <1>4, LaunchKeeps, ChildClosesKeeps DEF PreviewNext

LEMMA PreviewInvariance == PreviewSpec => []PreviewInv
BY PreviewStarts, PreviewKeeps, PTL DEF PreviewSpec

(* What preview shows with nothing under way is the verdict on the source  *)
(* that it has seen, whatever was edited while it was built: bin/preview's *)
(* epochs, pendingBuild and the last look before commitCandidate's rename. *)
THEOREM PreviewTellsTheTruth == PreviewSpec => []RestsOnTheTruth
<1>1. PreviewInv => RestsOnTheTruth
  BY DEF PreviewInv, RestsOnTheTruth, AtRest, Verdict
<1> QED
  BY <1>1, PreviewInvariance, PTL

(* A stop is only over once no child is left to write into the staging     *)
(* directory that it removes (finishStop).                                 *)
THEOREM NoChildOutlivesStop ==
  PreviewSpec => [](ending.stopped => build.child = "none" /\ ~ending.server)
<1>1. PreviewInv => (ending.stopped => build.child = "none" /\ ~ending.server)
  BY DEF PreviewInv
<1> QED
  BY <1>1, PreviewInvariance, PTL

-----------------------------------------------------------------------------
(* The commands.  Where an invocation is, and what it holds there.         *)
Places == {"absent", "read", "validate", "render", "check", "recheck", "replace",
           "aside", "put", "undo", "clean", "ended", "killed"}
Files == [kind : {"absent", "previous", "directory", "delta", "receipt", "migrated", "page"},
          from : Seq(Texts)]
Undos == {"remove", "restore"} \X (1..2)
JobRecords == [at : Places, read : Seq(Texts), seen : Seq(Texts), rendered : Seq(Texts),
               kept : Seq((1..2) \X Files), before : Seq(Files), done : 0..2,
               undo : Seq(Undos), lost : BOOLEAN,
               result : {"none", "ok", "failed", "not restored"}]

BeforeCommit == {"read", "validate", "render", "check", "recheck"}

CommandTypes ==
  /\ text \in [Inputs -> Texts]
  /\ file \in [Targets -> Files]
  /\ job \in [Jobs -> JobRecords]

(* An invocation goes through the places of its command only.              *)
InPlace(j, r) ==
  /\ r.at = "read" => Len(r.read) < Len(InputsOf[j]) /\ r.seen = <<>>
  /\ r.at = "validate" => Len(r.seen) < 2
  /\ r.at \in {"validate", "aside", "put", "undo"} => KindOf[j] = "compare"
  /\ r.at \in {"aside", "put"} => r.done \in {0, 1}
  /\ r.at \in BeforeCommit => r.done = 0
  /\ r.result = "ok" => r.at \in {"clean", "ended", "killed"}
  /\ KindOf[j] = "compare" /\ r.at # "absent" => Len(r.before) = 2

Trusted(f) == f \in Found \/ Range(f.from) \subseteq Sound

(* What is about to be committed has passed; what is kept was trusted.     *)
Trust(j, r) ==
  /\ r.at = "check" /\ KindOf[j] # "validate" => r.rendered = r.read
  /\ r.at \in {"recheck", "replace", "aside", "put"} =>
       r.rendered = r.read /\ Range(r.rendered) \subseteq Sound
  /\ r.result = "ok" /\ KindOf[j] # "validate" => r.rendered = r.read
  /\ \A k \in Range(r.kept) : Trusted(k[2])

(* What there is left to undo: removals first, then only what is kept.     *)
Undoable(r) ==
  r.at = "undo" =>
    /\ \A n \in DOMAIN r.undo : r.undo[n][1] = "restore" =>
         \E k \in Range(r.kept) : k[1] = r.undo[n][2]
    /\ \A n \in DOMAIN r.undo : r.undo[n][1] = "remove" =>
         \A m \in 1..n : r.undo[m][1] = "remove"

Now(j, f, i) == f[TargetsOf[j][i]]
Saved(r, i) == r.before[i] = NoFile \/ <<i, r.before[i]>> \in Range(r.kept)
ToRestore(r, i) == <<"restore", i>> \in Range(r.undo)
ToRemove(r, i) == <<"remove", i>> \in Range(r.undo)
(* A comparison that nobody else interferes with, rename by rename.        *)
Pair(j, r, f) ==
  /\ r.at \in BeforeCommit =>
       /\ r.kept = <<>> /\ r.done = 0 /\ ~r.lost /\ r.result = "none"
       /\ \A i \in 1..2 : Now(j, f, i) = r.before[i]
  /\ r.at = "aside" =>
       /\ ~r.lost /\ r.result = "none"
       /\ \A i \in 1..2 : IF i <= r.done THEN Now(j, f, i) = NoFile /\ Saved(r, i)
                          ELSE Now(j, f, i) = r.before[i]
  /\ r.at = "put" =>
       /\ ~r.lost /\ r.result = "none"
       /\ \A i \in 1..2 : /\ Saved(r, i)
                          /\ Now(j, f, i) = IF i <= r.done THEN Product(j, i, r.read) ELSE NoFile
  /\ r.at = "undo" =>
       /\ r.result = "none"
       /\ \A i \in 1..2 :
            /\ ToRemove(r, i) => r.before[i] = NoFile \/ ToRestore(r, i)
            /\ ~r.lost => Now(j, f, i) = r.before[i] \/ ToRestore(r, i) \/ ToRemove(r, i)
  /\ \A k \in Range(r.kept) : k[2] = r.before[k[1]]
  /\ r.result # "ok" /\ r.at \notin {"aside", "put", "undo", "killed"} /\ ~r.lost =>
       \A i \in 1..2 : Now(j, f, i) = r.before[i]
  /\ r.result # "ok" /\ ~(r.at = "ended" /\ r.lost) =>
       \A i \in 1..2 : Now(j, f, i) = r.before[i] \/ Saved(r, i)
  /\ r.result = "ok" => \A i \in 1..2 : Now(j, f, i) = Product(j, i, r.read)

CommandsInv ==
  /\ CommandTypes
  /\ \A p \in Targets : Trusted(file[p])
  /\ \A j \in Jobs : InPlace(j, job[j]) /\ Trust(j, job[j]) /\ Undoable(job[j])
  /\ \A j \in Jobs : KindOf[j] = "compare" /\ job[j].at # "absent" /\ Alone(j) =>
       Pair(j, job[j], file)

LEMMA Paths ==
  ASSUME NEW j \in Jobs
  PROVE  /\ KindOf[j] \in {"deliver", "compare", "migrate", "validate"}
         /\ InputsOf[j] \in Seq(Inputs) /\ TargetsOf[j] \in Seq(Targets)
         /\ Range(TargetsOf[j]) \subseteq Targets
         /\ \A i \in DOMAIN TargetsOf[j] : TargetsOf[j][i] \in Range(TargetsOf[j])
         /\ Len(TargetsOf[j]) =
              CASE KindOf[j] = "compare" -> 2 [] KindOf[j] = "validate" -> 0 [] OTHER -> 1
         /\ Len(InputsOf[j]) = IF KindOf[j] = "compare" THEN 2 ELSE 1
         /\ KindOf[j] = "compare" => TargetsOf[j][1] # TargetsOf[j][2]
<1>1. InputsOf[j] \in Seq(Range(InputsOf[j])) /\ TargetsOf[j] \in Seq(Range(TargetsOf[j]))
  BY CommandsAssumption DEF CommandsAssumption
<1>2. Range(InputsOf[j]) \subseteq Inputs /\ Range(TargetsOf[j]) \subseteq Targets
  BY DEF Inputs, Targets
<1>3. InputsOf[j] \in Seq(Inputs) /\ TargetsOf[j] \in Seq(Targets)
  BY <1>1, <1>2, SeqMonotonic
<1>4. \A i \in DOMAIN TargetsOf[j] : TargetsOf[j][i] \in Range(TargetsOf[j])
  BY DEF Range
<1>5. /\ KindOf[j] \in {"deliver", "compare", "migrate", "validate"}
      /\ Len(TargetsOf[j]) =
           CASE KindOf[j] = "compare" -> 2 [] KindOf[j] = "validate" -> 0 [] OTHER -> 1
      /\ Len(InputsOf[j]) = IF KindOf[j] = "compare" THEN 2 ELSE 1
      /\ KindOf[j] = "compare" => TargetsOf[j][1] # TargetsOf[j][2]
  BY CommandsAssumption DEF CommandsAssumption
<1> QED
  BY <1>2, <1>3, <1>4, <1>5

(* One invocation's step leaves the others' comparisons alone.             *)
LEMMA OneSteps ==
  ASSUME CommandsInv, NEW j \in Jobs, NEW r \in JobRecords,
         job[j].at # "absent", r.at # "absent",
         job' = [job EXCEPT ![j] = r], UNCHANGED text,
         file' \in [Targets -> Files],
         \A p \in Targets : p \notin Range(TargetsOf[j]) => file'[p] = file[p],
         \A p \in Targets : Trusted(file'[p]),
         InPlace(j, r), Trust(j, r), Undoable(r),
         KindOf[j] = "compare" /\ Pair(j, job[j], file) => Pair(j, r, file')
  PROVE  CommandsInv'
<1>1. CommandTypes /\ job \in [Jobs -> JobRecords] /\ job'[j] = r
      /\ \A k \in Jobs \ {j} : job'[k] = job[k]
  BY DEF CommandsInv, CommandTypes
<1>2. CommandTypes'
  BY <1>1 DEF CommandTypes
<1>3. \A k \in Jobs : InPlace(k, job'[k]) /\ Trust(k, job'[k]) /\ Undoable(job'[k])
  BY <1>1 DEF CommandsInv
<1>4. ASSUME NEW k \in Jobs, KindOf[k] = "compare", job'[k].at # "absent", Alone(k)'
      PROVE  Pair(k, job'[k], file')
  <2>1. Alone(k) /\ job[k].at # "absent"
    BY <1>1, <1>4 DEF Alone
  <2>2. Pair(k, job[k], file)
    BY <1>4, <2>1 DEF CommandsInv
  <2>3. CASE k = j
    BY <1>1, <1>4, <2>2, <2>3
  <2>4. CASE k # j
    <3>1. Range(TargetsOf[j]) \cap Range(TargetsOf[k]) = {} /\ job'[k] = job[k]
      BY <1>1, <2>1, <2>4 DEF Alone
    <3>2. \A i \in 1..2 : TargetsOf[k][i] \in Range(TargetsOf[k]) /\ TargetsOf[k][i] \in Targets
      BY <1>4, Paths
    <3>3. \A i \in 1..2 : Now(k, file', i) = Now(k, file, i)
      BY <3>1, <3>2 DEF Now
    <3> QED
      BY <2>2, <3>1, <3>3 DEF Pair
  <2> QED
    BY <2>3, <2>4
<1>5. \A p \in Targets : Trusted(file'[p])
  OBVIOUS
<1> QED
  BY <1>2, <1>3, <1>4, <1>5 DEF CommandsInv

LEMMA NoJobFacts ==
  /\ NoJob \in JobRecords /\ NoFile \in Files /\ Trusted(NoFile) /\ Found \subseteq Files
  /\ \A f \in Found : Trusted(f)
<1>1. Found \subseteq Files /\ NoFile \in Found
  BY DEF Found, NoFile, File, Files
<1>2. NoJob \in JobRecords
  BY DEF NoJob, JobRecords, Places
<1> QED
  BY <1>1, <1>2 DEF Trusted

LEMMA RecordFacts ==
  ASSUME NEW r \in JobRecords, NEW s \in Places
  PROVE  /\ [r EXCEPT !.at = s] \in JobRecords /\ [r EXCEPT !.at = s].at = s
         /\ [r EXCEPT !.at = s].read = r.read /\ [r EXCEPT !.at = s].seen = r.seen
         /\ [r EXCEPT !.at = s].rendered = r.rendered /\ [r EXCEPT !.at = s].kept = r.kept
         /\ [r EXCEPT !.at = s].before = r.before /\ [r EXCEPT !.at = s].done = r.done
         /\ [r EXCEPT !.at = s].undo = r.undo /\ [r EXCEPT !.at = s].lost = r.lost
         /\ [r EXCEPT !.at = s].result = r.result
BY DEF JobRecords

LEMMA CommandsStart == CommandsInit => CommandsInv
<1>1. SUFFICES ASSUME NEW team \in Teams,
                      text \in [Inputs -> Texts], file \in [Targets -> Found],
                      job = [j \in Jobs |->
                        IF j \notin team THEN NoJob
                        ELSE [NoJob EXCEPT
                          !.at = IF KindOf[j] = "validate" THEN "render" ELSE "read",
                          !.before = [i \in DOMAIN TargetsOf[j] |-> file[TargetsOf[j][i]]]]]
               PROVE  CommandsInv
  BY DEF CommandsInit
<1>2. file \in [Targets -> Files] /\ \A p \in Targets : Trusted(file[p])
  BY <1>1, NoJobFacts
<1>3. ASSUME NEW j \in Jobs
      PROVE  /\ job[j] \in JobRecords /\ InPlace(j, job[j]) /\ Trust(j, job[j]) /\ Undoable(job[j])
             /\ KindOf[j] = "compare" /\ job[j].at # "absent" => Pair(j, job[j], file)
  <2>1. CASE j \notin team
    <3>1. job[j] = NoJob
      BY <1>1, <2>1
    <3>2. /\ NoJob.at = "absent" /\ NoJob.result = "none" /\ Range(NoJob.kept) = {}
      BY DEF NoJob, Range
    <3> QED
      BY <3>1, <3>2, NoJobFacts DEF InPlace, Trust, BeforeCommit, Undoable
  <2>2. CASE j \in team
    <3> DEFINE at == IF KindOf[j] = "validate" THEN "render" ELSE "read"
               before == [i \in DOMAIN TargetsOf[j] |-> file[TargetsOf[j][i]]]
    <3>1. job[j] = [NoJob EXCEPT !.at = at, !.before = before]
      BY <1>1, <2>2
    <3>2. TargetsOf[j] \in Seq(Targets) /\ DOMAIN TargetsOf[j] = 1..Len(TargetsOf[j])
          /\ Len(TargetsOf[j]) \in Nat
      BY Paths
    <3>3. before \in Seq(Files) /\ Len(before) = Len(TargetsOf[j])
          /\ \A i \in 1..Len(TargetsOf[j]) : before[i] = file[TargetsOf[j][i]]
      <4>1. before \in [1..Len(TargetsOf[j]) -> Files]
        BY <1>2, <3>2
      <4> QED
        BY <3>2, <4>1, SeqDef
    <3> HIDE DEF before
    <3>4. /\ job[j].at = at /\ job[j].before = before /\ job[j].read = <<>> /\ job[j].kept = <<>>
          /\ job[j].seen = <<>>
          /\ job[j].done = 0 /\ job[j].lost = FALSE /\ job[j].result = "none"
      BY <3>1 DEF NoJob
    <3>5. at \in Places
      BY DEF Places
    <3>6. job[j] \in JobRecords
      BY <3>1, <3>3, <3>5, NoJobFacts DEF JobRecords
    <3>7. InPlace(j, job[j])
      <4>1. Len(InputsOf[j]) \in {1, 2} /\ (KindOf[j] = "compare" => Len(TargetsOf[j]) = 2)
        BY Paths
      <4>2. Len(job[j].read) = 0
        BY <3>4
      <4>3. job[j].at \in {"read", "render"} /\ Len(job[j].before) = Len(TargetsOf[j])
        BY <3>3, <3>4
      <4>4. job[j].done = 0 /\ job[j].seen = <<>> /\ job[j].result = "none"
        BY <3>4
      <4> HIDE DEF at
      <4>5. Len(job[j].read) < Len(InputsOf[j])
        BY <4>1, <4>2
      <4>6. KindOf[j] = "compare" => Len(job[j].before) = 2
        BY <4>1, <4>3
      <4> QED
        BY <4>3, <4>4, <4>5, <4>6 DEF InPlace, BeforeCommit
    <3>8. Range(job[j].kept) = {}
      BY <3>4 DEF Range
    <3>9. Trust(j, job[j]) /\ Undoable(job[j])
      BY <3>4, <3>8 DEF Trust, Undoable
    <3>10. ASSUME KindOf[j] = "compare" PROVE Pair(j, job[j], file)
      <4>1. \A i \in 1..2 : Now(j, file, i) = job[j].before[i]
        BY <3>3, <3>4, <3>10, Paths DEF Now
      <4> QED
        BY <3>4, <3>8, <4>1 DEF Pair, BeforeCommit
    <3> QED
      BY <3>6, <3>7, <3>9, <3>10
  <2> QED
    BY <2>1, <2>2
<1>4. job \in [Jobs -> JobRecords]
  BY <1>1, <1>3
<1> QED
  BY <1>1, <1>2, <1>3, <1>4 DEF CommandsInv, CommandTypes

(* What a step may rely on.                                                *)
LEMMA JobFacts ==
  ASSUME CommandsInv, NEW j \in Jobs
  PROVE  /\ job[j] \in JobRecords /\ InPlace(j, job[j]) /\ Trust(j, job[j]) /\ Undoable(job[j])
         /\ text \in [Inputs -> Texts] /\ file \in [Targets -> Files]
         /\ \A p \in Targets : Trusted(file[p])
BY DEF CommandsInv, CommandTypes

(* A step that leaves the targets alone.                                   *)
LEMMA StillSteps ==
  ASSUME CommandsInv, NEW j \in Jobs, NEW r \in JobRecords,
         job[j].at # "absent", r.at # "absent", Becomes(j, r), UNCHANGED <<text, file>>,
         InPlace(j, r), Trust(j, r), Undoable(r),
         KindOf[j] = "compare" /\ Pair(j, job[j], file) => Pair(j, r, file)
  PROVE  CommandsInv'
<1>1. /\ file' = file /\ file' \in [Targets -> Files] /\ \A p \in Targets : Trusted(file'[p])
      /\ job' = [job EXCEPT ![j] = r]
  BY JobFacts DEF Becomes
<1>2. KindOf[j] = "compare" /\ Pair(j, job[j], file) => Pair(j, r, file')
  BY <1>1
<1> QED
  BY <1>1, <1>2, OneSteps

(* An invocation gives up before its commit.                               *)
LEMMA LeaveKeeps ==
  ASSUME CommandsInv, NEW j \in Jobs, job[j].at \in BeforeCommit \cup {"replace"},
         Becomes(j, Leave(j)), UNCHANGED <<text, file>>
  PROVE  CommandsInv'
<1> DEFINE r == Leave(j)
<1>1. job[j] \in JobRecords /\ InPlace(j, job[j]) /\ Trust(j, job[j])
  BY JobFacts
<1>2. /\ r \in JobRecords /\ r.at = "clean" /\ r.result = "failed" /\ r.kept = job[j].kept
      /\ r.before = job[j].before /\ r.lost = job[j].lost
  BY <1>1 DEF Leave, JobRecords, Places
<1> HIDE DEF r
<1>3. InPlace(j, r) /\ Trust(j, r) /\ Undoable(r) /\ job[j].at # "absent"
  BY <1>1, <1>2 DEF InPlace, Trust, BeforeCommit, Undoable
<1>4. ASSUME KindOf[j] = "compare", Pair(j, job[j], file)
      PROVE  Pair(j, r, file)
  <2>1. CASE job[j].at \in BeforeCommit
    BY <1>2, <1>4, <2>1 DEF Pair, BeforeCommit
  <2>2. CASE job[j].at = "replace"
    BY <1>1, <1>2, <1>4, <2>2 DEF InPlace, Pair, BeforeCommit, Saved
  <2> QED
    BY <2>1, <2>2
<1>5. Becomes(j, r)
  BY DEF r
<1> QED
  BY <1>2, <1>3, <1>4, <1>5, StillSteps

LEMMA RefuseKeeps ==
  ASSUME CommandsInv, NEW j \in Jobs, Refuse(j)
  PROVE  CommandsInv'
BY LeaveKeeps DEF Refuse, BeforeCommit

(* A step from one place before the commit to another.                     *)
LEMMA EarlyKeeps ==
  ASSUME CommandsInv, NEW j \in Jobs, NEW r \in JobRecords,
         job[j].at \in BeforeCommit, r.at \in BeforeCommit,
         r.kept = job[j].kept, r.before = job[j].before, r.done = job[j].done,
         r.lost = job[j].lost, r.result = job[j].result,
         Becomes(j, r), UNCHANGED <<text, file>>, InPlace(j, r), Trust(j, r)
  PROVE  CommandsInv'
<1>1. job[j].at # "absent" /\ r.at # "absent" /\ Undoable(r)
  BY DEF BeforeCommit, Undoable
<1>2. Pair(j, job[j], file) => Pair(j, r, file)
  BY DEF Pair, BeforeCommit
<1> QED
  BY <1>1, <1>2, StillSteps

LEMMA ReadKeeps ==
  ASSUME CommandsInv, NEW j \in Jobs, ReadInput(j), KindOf[j] # "validate"
  PROVE  CommandsInv'
<1> DEFINE p == InputsOf[j][Len(job[j].read) + 1]
           read == Append(job[j].read, text[p])
           then == IF Len(read) < Len(InputsOf[j]) THEN "read"
                   ELSE IF KindOf[j] = "compare" THEN "validate" ELSE "render"
           r == [job[j] EXCEPT !.read = read, !.at = then]
<1>1. /\ job[j] \in JobRecords /\ InPlace(j, job[j]) /\ Trust(j, job[j]) /\ text \in [Inputs -> Texts]
      /\ job[j].at = "read" /\ Becomes(j, r) /\ UNCHANGED <<text, file>>
  BY JobFacts DEF ReadInput
<1>2. p \in Inputs /\ job[j].read \in Seq(Texts)
  <2>1. job[j].read \in Seq(Texts) /\ Len(job[j].read) < Len(InputsOf[j])
    BY <1>1 DEF JobRecords, InPlace
  <2> QED
    BY <2>1, Paths
<1>3. read \in Seq(Texts) /\ then \in Places
  BY <1>1, <1>2 DEF Places
<1>4. then = "read" => Len(read) < Len(InputsOf[j])
  OBVIOUS
<1>5. then \in {"read", "validate", "render"} /\ (then = "validate" => KindOf[j] = "compare")
  OBVIOUS
<1> HIDE DEF p, read, then
<1>6. /\ r \in JobRecords /\ r.at = then /\ r.read = read /\ r.seen = job[j].seen
      /\ r.kept = job[j].kept /\ r.before = job[j].before /\ r.done = job[j].done
      /\ r.lost = job[j].lost /\ r.result = job[j].result
  BY <1>1, <1>3 DEF JobRecords
<1> HIDE DEF r
<1>7. InPlace(j, r) /\ Trust(j, r)
  <2>1. then = "validate" => Len(r.seen) < 2
    BY <1>1, <1>6 DEF InPlace
  <2> QED
    BY <1>1, <1>4, <1>5, <1>6, <2>1 DEF InPlace, Trust, BeforeCommit
<1> QED
  BY <1>1, <1>5, <1>6, <1>7, EarlyKeeps DEF BeforeCommit

LEMMA OriginalKeeps ==
  ASSUME CommandsInv, NEW j \in Jobs, ValidateOriginal(j)
  PROVE  CommandsInv'
<1> DEFINE now == text[InputsOf[j][Len(job[j].seen) + 1]]
           seen == Append(job[j].seen, now)
           then == IF Len(seen) = 2 THEN "render" ELSE "validate"
           r == [job[j] EXCEPT !.seen = seen, !.at = then]
<1>1. /\ job[j] \in JobRecords /\ InPlace(j, job[j]) /\ Trust(j, job[j]) /\ text \in [Inputs -> Texts]
      /\ job[j].at = "validate" /\ UNCHANGED <<text, file>>
      /\ Becomes(j, Leave(j)) \/ Becomes(j, r)
  BY JobFacts DEF ValidateOriginal
<1>2. CASE Becomes(j, Leave(j))
  BY <1>1, <1>2, LeaveKeeps DEF BeforeCommit
<1>3. CASE Becomes(j, r)
  <2>1. job[j].seen \in Seq(Texts) /\ Len(job[j].seen) < 2 /\ KindOf[j] = "compare"
    BY <1>1 DEF JobRecords, InPlace
  <2>2. InputsOf[j] \in Seq(Inputs) /\ Len(InputsOf[j]) = 2
    BY <2>1, Paths
  <2>3. now \in Texts
    BY <1>1, <2>1, <2>2
  <2>4. seen \in Seq(Texts) /\ (then = "validate" => Len(seen) < 2)
    BY <2>1, <2>3
  <2>5. then \in {"render", "validate"} /\ then \in Places
    BY DEF Places
  <2> HIDE DEF now, seen, then
  <2>6. /\ r \in JobRecords /\ r.at = then /\ r.read = job[j].read /\ r.seen = seen
        /\ r.kept = job[j].kept /\ r.before = job[j].before /\ r.done = job[j].done
        /\ r.lost = job[j].lost /\ r.result = job[j].result
    BY <1>1, <2>4, <2>5 DEF JobRecords
  <2> HIDE DEF r
  <2>7. InPlace(j, r) /\ Trust(j, r)
    BY <1>1, <2>1, <2>4, <2>5, <2>6 DEF InPlace, Trust, BeforeCommit
  <2> QED
    BY <1>1, <1>3, <2>5, <2>6, <2>7, EarlyKeeps DEF BeforeCommit
<1> QED
  BY <1>1, <1>2, <1>3

LEMMA RenderKeeps ==
  ASSUME CommandsInv, NEW j \in Jobs, RenderCandidate(j)
  PROVE  CommandsInv'
<1> DEFINE r == [job[j] EXCEPT !.rendered = Snapshot(j), !.at = "check"]
<1>1. /\ job[j] \in JobRecords /\ InPlace(j, job[j]) /\ Trust(j, job[j]) /\ text \in [Inputs -> Texts]
      /\ job[j].at = "render" /\ UNCHANGED <<text, file>>
      /\ Becomes(j, Leave(j)) \/ Becomes(j, r)
  BY JobFacts DEF RenderCandidate
<1>2. CASE Becomes(j, Leave(j))
  BY <1>1, <1>2, LeaveKeeps DEF BeforeCommit
<1>3. CASE Becomes(j, r)
  <2>1. InputsOf[j][1] \in Inputs
    <3>1. InputsOf[j] \in Seq(Inputs) /\ Len(InputsOf[j]) \in {1, 2}
      BY Paths
    <3> QED
      BY <3>1
  <2>2. Snapshot(j) \in Seq(Texts) /\ (KindOf[j] # "validate" => Snapshot(j) = job[j].read)
    <3>1. job[j].read \in Seq(Texts) /\ text[InputsOf[j][1]] \in Texts
      BY <1>1, <2>1 DEF JobRecords
    <3>2. \A t \in Texts : <<t>> \in Seq(Texts)
      OBVIOUS
    <3> QED
      BY <3>1, <3>2 DEF Snapshot
  <2>3. /\ r \in JobRecords /\ r.at = "check" /\ r.read = job[j].read /\ r.rendered = Snapshot(j)
        /\ r.kept = job[j].kept /\ r.before = job[j].before /\ r.done = job[j].done
        /\ r.lost = job[j].lost /\ r.result = job[j].result
    BY <1>1, <2>2 DEF JobRecords, Places
  <2> HIDE DEF r
  <2>4. InPlace(j, r) /\ Trust(j, r)
    BY <1>1, <2>2, <2>3 DEF InPlace, Trust, BeforeCommit
  <2> QED
    BY <1>1, <1>3, <2>3, <2>4, EarlyKeeps DEF BeforeCommit
<1> QED
  BY <1>1, <1>2, <1>3

LEMMA CheckKeeps ==
  ASSUME CommandsInv, NEW j \in Jobs, CheckCandidate(j)
  PROVE  CommandsInv'
<1> DEFINE ok == [job[j] EXCEPT !.at = "clean", !.result = "ok"]
           on == [job[j] EXCEPT !.at = "recheck"]
<1>1. /\ job[j] \in JobRecords /\ InPlace(j, job[j]) /\ Trust(j, job[j])
      /\ job[j].at = "check" /\ UNCHANGED <<text, file>>
      /\ \/ Becomes(j, Leave(j))
         \/ KindOf[j] = "validate" /\ Becomes(j, ok)
         \/ KindOf[j] # "validate" /\ Becomes(j, on) /\ \A t \in Range(job[j].rendered) : Passes(t)
  BY JobFacts DEF CheckCandidate
<1>2. CASE Becomes(j, Leave(j))
  BY <1>1, <1>2, LeaveKeeps DEF BeforeCommit
<1>3. CASE KindOf[j] = "validate" /\ Becomes(j, ok)
  <2>1. /\ ok \in JobRecords /\ ok.at = "clean" /\ ok.kept = job[j].kept /\ ok.result = "ok"
    BY <1>1 DEF JobRecords, Places
  <2> HIDE DEF ok
  <2>2. InPlace(j, ok) /\ Trust(j, ok) /\ Undoable(ok)
    BY <1>1, <1>3, <2>1 DEF InPlace, Trust, BeforeCommit, Undoable
  <2> QED
    BY <1>1, <1>3, <2>1, <2>2, StillSteps
<1>4. CASE /\ KindOf[j] # "validate" /\ Becomes(j, on)
           /\ \A t \in Range(job[j].rendered) : Passes(t)
  <2>1. /\ on \in JobRecords /\ on.at = "recheck" /\ on.read = job[j].read
        /\ on.rendered = job[j].rendered
        /\ on.kept = job[j].kept /\ on.before = job[j].before /\ on.done = job[j].done
        /\ on.lost = job[j].lost /\ on.result = job[j].result
    BY <1>1 DEF JobRecords, Places
  <2> HIDE DEF on
  <2>2. Range(job[j].rendered) \subseteq Sound
    BY <1>4 DEF Passes
  <2>3. InPlace(j, on) /\ Trust(j, on)
    BY <1>1, <1>4, <2>1, <2>2 DEF InPlace, Trust, BeforeCommit
  <2> QED
    BY <1>1, <1>4, <2>1, <2>3, EarlyKeeps DEF BeforeCommit
<1> QED
  BY <1>1, <1>2, <1>3, <1>4

LEMMA RecheckKeeps ==
  ASSUME CommandsInv, NEW j \in Jobs, Recheck(j)
  PROVE  CommandsInv'
<1> DEFINE then == IF KindOf[j] = "compare" THEN "aside" ELSE "replace"
           r == [job[j] EXCEPT !.at = then]
<1>1. /\ job[j] \in JobRecords /\ InPlace(j, job[j]) /\ Trust(j, job[j])
      /\ job[j].at = "recheck" /\ UNCHANGED <<text, file>>
      /\ Becomes(j, Leave(j)) \/ Becomes(j, r)
  BY JobFacts DEF Recheck
<1>2. CASE Becomes(j, Leave(j))
  BY <1>1, <1>2, LeaveKeeps DEF BeforeCommit
<1>3. CASE Becomes(j, r)
  <2>1. then \in {"aside", "replace"} /\ then \in Places /\ (then = "aside" <=> KindOf[j] = "compare")
    BY DEF Places
  <2> HIDE DEF then
  <2>2. /\ r \in JobRecords /\ r.at = then /\ r.read = job[j].read
        /\ r.rendered = job[j].rendered
        /\ r.kept = job[j].kept /\ r.before = job[j].before /\ r.done = job[j].done
        /\ r.lost = job[j].lost /\ r.result = job[j].result
    BY <1>1, <2>1, RecordFacts
  <2> HIDE DEF r
  <2>3. Trust(j, r) /\ Undoable(r)
    BY <1>1, <2>1, <2>2 DEF Trust, Undoable
  <2>4. ASSUME KindOf[j] = "compare", Pair(j, job[j], file)
        PROVE  Pair(j, r, file) /\ r.done = 0
    BY <1>1, <2>1, <2>2, <2>4 DEF Pair, BeforeCommit
  <2>5. InPlace(j, r) /\ r.at # "absent" /\ job[j].at # "absent"
    BY <1>1, <2>1, <2>2 DEF InPlace, BeforeCommit
  <2> QED
    BY <1>1, <1>3, <2>2, <2>3, <2>4, <2>5, StillSteps
<1> QED
  BY <1>1, <1>2, <1>3

LEMMA CleanKeeps ==
  ASSUME CommandsInv, NEW j \in Jobs, CleanUp(j)
  PROVE  CommandsInv'
<1> DEFINE r == [job[j] EXCEPT !.at = "ended", !.kept = <<>>]
<1>1. /\ job[j] \in JobRecords /\ InPlace(j, job[j]) /\ Trust(j, job[j])
      /\ job[j].at = "clean" /\ UNCHANGED <<text, file>> /\ Becomes(j, r)
  BY JobFacts DEF CleanUp
<1>0. <<>> \in Seq((1..2) \X Files)
  OBVIOUS
<1>2. /\ r \in JobRecords /\ r.at = "ended" /\ r.read = job[j].read
      /\ r.rendered = job[j].rendered /\ r.kept = <<>> /\ r.before = job[j].before
      /\ r.lost = job[j].lost /\ r.result = job[j].result
  BY <1>0, <1>1 DEF JobRecords, Places
<1>3. Range(r.kept) = {}
  BY <1>2 DEF Range
<1> HIDE DEF r
<1>4. InPlace(j, r) /\ Trust(j, r) /\ Undoable(r)
  BY <1>1, <1>2, <1>3 DEF InPlace, Trust, Undoable, BeforeCommit
<1>5. ASSUME Pair(j, job[j], file) PROVE Pair(j, r, file)
  BY <1>1, <1>2, <1>3, <1>5 DEF Pair, BeforeCommit
<1> QED
  BY <1>1, <1>2, <1>4, <1>5, StillSteps

LEMMA KilledKeeps ==
  ASSUME CommandsInv, NEW j \in Jobs, Killed(j)
  PROVE  CommandsInv'
<1> DEFINE r == [job[j] EXCEPT !.at = "killed"]
<1>1. /\ job[j] \in JobRecords /\ InPlace(j, job[j]) /\ Trust(j, job[j])
      /\ job[j].at \notin {"absent", "ended", "killed"} /\ UNCHANGED <<text, file>> /\ Becomes(j, r)
  BY JobFacts DEF Killed, Underway
<1>2. /\ r \in JobRecords /\ r.at = "killed" /\ r.read = job[j].read
      /\ r.rendered = job[j].rendered /\ r.kept = job[j].kept /\ r.before = job[j].before
      /\ r.lost = job[j].lost /\ r.result = job[j].result
  BY <1>1, RecordFacts DEF Places
<1> HIDE DEF r
<1>4. InPlace(j, r) /\ Trust(j, r) /\ Undoable(r)
  BY <1>1, <1>2 DEF InPlace, Trust, Undoable, BeforeCommit
<1>5. ASSUME Pair(j, job[j], file) PROVE Pair(j, r, file)
  <2>1. \A i \in 1..2 : Saved(r, i) <=> Saved(job[j], i)
    BY <1>2 DEF Saved
  <2> QED
    BY <1>1, <1>2, <1>5, <2>1 DEF Pair, BeforeCommit
<1> QED
  BY <1>1, <1>2, <1>4, <1>5, StillSteps

LEMMA UndoneKeeps ==
  ASSUME CommandsInv, NEW j \in Jobs, Undone(j)
  PROVE  CommandsInv'
<1> DEFINE result == IF job[j].lost THEN "not restored" ELSE "failed"
           r == [job[j] EXCEPT !.at = "clean", !.result = result]
<1>1. /\ job[j] \in JobRecords /\ InPlace(j, job[j]) /\ Trust(j, job[j])
      /\ job[j].at = "undo" /\ job[j].undo = <<>> /\ UNCHANGED <<text, file>> /\ Becomes(j, r)
  BY JobFacts DEF Undone
<1>2. /\ r \in JobRecords /\ r.at = "clean" /\ r.read = job[j].read
      /\ r.rendered = job[j].rendered /\ r.kept = job[j].kept /\ r.before = job[j].before
      /\ r.lost = job[j].lost /\ r.result \in {"failed", "not restored"}
  BY <1>1 DEF JobRecords, Places
<1> HIDE DEF r
<1>3. InPlace(j, r) /\ Trust(j, r) /\ Undoable(r)
  BY <1>1, <1>2 DEF InPlace, Trust, Undoable, BeforeCommit
<1>4. ASSUME Pair(j, job[j], file) PROVE Pair(j, r, file)
  <2>1. \A i \in 1..2 : Saved(r, i) <=> Saved(job[j], i)
    BY <1>2 DEF Saved
  <2>2. Range(job[j].undo) = {}
    BY <1>1 DEF Range
  <2>3. \A i \in 1..2 : ~job[j].lost => Now(j, file, i) = job[j].before[i]
    BY <1>1, <1>4, <2>2 DEF Pair, ToRestore, ToRemove
  <2>4. job[j].result = "none"
    BY <1>1, <1>4 DEF Pair
  <2> QED
    BY <1>1, <1>2, <1>4, <2>1, <2>3, <2>4 DEF Pair, BeforeCommit
<1> QED
  BY <1>1, <1>2, <1>3, <1>4, StillSteps

(* A rename into place: what it leaves has passed.                         *)
LEMMA ProductFacts ==
  ASSUME CommandsInv, NEW j \in Jobs, NEW i \in 1..2,
         job[j].at \in {"replace", "put"}, KindOf[j] # "validate"
  PROVE  /\ Product(j, i, job[j].rendered) \in Files
         /\ Trusted(Product(j, i, job[j].rendered))
         /\ job[j].rendered = job[j].read
         /\ Product(j, i, job[j].rendered) # NoFile
<1>1. job[j].rendered \in Seq(Texts) /\ Range(job[j].rendered) \subseteq Sound
      /\ job[j].rendered = job[j].read
  BY JobFacts DEF JobRecords, Trust
<1> DEFINE kind == CASE KindOf[j] = "compare" -> <<"delta", "receipt">>[i]
                     [] KindOf[j] = "migrate" -> "migrated"
                     [] OTHER -> "page"
<1>2. kind \in {"delta", "receipt", "migrated", "page"}
  BY Paths
<1>3. Product(j, i, job[j].rendered) = [kind |-> kind, from |-> job[j].rendered]
  BY DEF Product, File
<1> HIDE DEF kind
<1> QED
  BY <1>1, <1>2, <1>3 DEF Files, Trusted, NoFile, File

LEMMA ReplaceKeeps ==
  ASSUME CommandsInv, NEW j \in Jobs, ReplaceTarget(j), KindOf[j] \in {"deliver", "migrate"}
  PROVE  CommandsInv'
<1> DEFINE r == [job[j] EXCEPT !.at = "clean", !.result = "ok"]
           new == Product(j, 1, job[j].rendered)
<1>1. /\ job[j] \in JobRecords /\ InPlace(j, job[j]) /\ Trust(j, job[j])
      /\ file \in [Targets -> Files] /\ \A p \in Targets : Trusted(file[p])
      /\ job[j].at = "replace" /\ UNCHANGED text /\ job' = [job EXCEPT ![j] = r]
      /\ file' = [file EXCEPT ![TargetsOf[j][1]] = new]
  BY JobFacts DEF ReplaceTarget, Becomes
<1>2. /\ r \in JobRecords /\ r.at = "clean" /\ r.read = job[j].read
      /\ r.rendered = job[j].rendered /\ r.kept = job[j].kept
  BY <1>1 DEF JobRecords, Places
<1> HIDE DEF r
<1>3. InPlace(j, r) /\ Trust(j, r) /\ Undoable(r) /\ KindOf[j] # "compare"
  BY <1>1, <1>2 DEF InPlace, Trust, Undoable, BeforeCommit
<1>4. new \in Files /\ Trusted(new)
  BY <1>1, ProductFacts
<1>5. TargetsOf[j][1] \in Range(TargetsOf[j]) /\ TargetsOf[j][1] \in Targets
  <2>1. TargetsOf[j] \in Seq(Targets) /\ Len(TargetsOf[j]) = 1
    BY Paths
  <2> QED
    BY <2>1, Paths
<1> HIDE DEF new
<1>6. /\ file' \in [Targets -> Files]
      /\ \A p \in Targets : p \notin Range(TargetsOf[j]) => file'[p] = file[p]
      /\ \A p \in Targets : Trusted(file'[p])
  BY <1>1, <1>4, <1>5
<1> QED
  BY <1>1, <1>2, <1>3, <1>6, OneSteps

(* The two targets of a comparison.                                        *)
LEMMA PairPaths ==
  ASSUME NEW j \in Jobs, KindOf[j] = "compare", NEW i \in 1..2
  PROVE  /\ TargetsOf[j][i] \in Targets /\ TargetsOf[j][i] \in Range(TargetsOf[j])
         /\ \A k \in 1..2 : k # i => TargetsOf[j][k] # TargetsOf[j][i]
<1>1. TargetsOf[j] \in Seq(Targets) /\ Len(TargetsOf[j]) = 2
      /\ TargetsOf[j][1] # TargetsOf[j][2]
  BY Paths
<1> QED
  BY <1>1, Paths

(* A step of a comparison that writes at one of its targets.               *)
LEMMA WriteSteps ==
  ASSUME CommandsInv, NEW j \in Jobs, NEW r \in JobRecords, NEW i \in 1..2, NEW f \in Files,
         KindOf[j] = "compare", job[j].at # "absent", r.at # "absent",
         job' = [job EXCEPT ![j] = r], UNCHANGED text,
         file' = [file EXCEPT ![TargetsOf[j][i]] = f], Trusted(f),
         InPlace(j, r), Trust(j, r), Undoable(r),
         /\ Pair(j, job[j], file) /\ Now(j, file', i) = f
         /\ \A k \in 1..2 : k # i => Now(j, file', k) = Now(j, file, k)
         => Pair(j, r, file')
  PROVE  CommandsInv'
<1>1. file \in [Targets -> Files] /\ \A p \in Targets : Trusted(file[p])
  BY JobFacts
<1>2. /\ TargetsOf[j][i] \in Targets /\ TargetsOf[j][i] \in Range(TargetsOf[j])
      /\ \A k \in 1..2 : k # i => TargetsOf[j][k] # TargetsOf[j][i]
  BY PairPaths
<1>3. \A k \in 1..2 : TargetsOf[j][k] \in Targets
  BY PairPaths
<1>4. /\ Now(j, file', i) = f
      /\ \A k \in 1..2 : k # i => Now(j, file', k) = Now(j, file, k)
  BY <1>1, <1>2, <1>3 DEF Now
<1>5. /\ file' \in [Targets -> Files]
      /\ \A p \in Targets : p \notin Range(TargetsOf[j]) => file'[p] = file[p]
      /\ \A p \in Targets : Trusted(file'[p])
  BY <1>1, <1>2
<1>6. KindOf[j] = "compare" /\ Pair(j, job[j], file) => Pair(j, r, file')
  BY <1>4
<1> QED
  BY <1>5, <1>6, OneSteps

LEMMA AsideKeeps ==
  ASSUME CommandsInv, NEW j \in Jobs, SetAside(j), KindOf[j] = "compare"
  PROVE  CommandsInv'
<1> DEFINE i == job[j].done + 1
           done == IF i = 2 THEN 0 ELSE i
           at == IF i = 2 THEN "put" ELSE "aside"
           then == [job[j] EXCEPT !.done = done, !.at = at]
           entry == <<i, TargetOf(j, i)>>
           r == [then EXCEPT !.kept = Append(@, entry)]
<1>1. /\ job[j] \in JobRecords /\ InPlace(j, job[j]) /\ Trust(j, job[j])
      /\ job[j].at = "aside" /\ UNCHANGED text
      /\ file \in [Targets -> Files] /\ \A p \in Targets : Trusted(file[p])
  BY JobFacts DEF SetAside
<1>2. i \in 1..2 /\ job[j].done \in {0, 1} /\ i = job[j].done + 1
  BY <1>1 DEF InPlace
<1>3. at \in {"put", "aside"} /\ at \in Places /\ done \in {0, 1}
      /\ (at = "put" <=> i = 2) /\ (i = 2 => done = 0) /\ (i = 1 => done = 1)
  BY <1>2 DEF Places
<1>4. \/ TargetOf(j, i) = NoFile /\ job' = [job EXCEPT ![j] = then] /\ file' = file
      \/ job' = [job EXCEPT ![j] = r] /\ file' = [file EXCEPT ![TargetsOf[j][i]] = NoFile]
  BY DEF SetAside, Becomes
<1>5. TargetOf(j, i) = Now(j, file, i) /\ TargetOf(j, i) \in Files /\ Trusted(TargetOf(j, i))
  BY <1>1, <1>2, PairPaths DEF TargetOf, Now
<1>6. job[j].kept \in Seq((1..2) \X Files) /\ entry \in (1..2) \X Files
      /\ entry[1] = i /\ entry[2] = Now(j, file, i)
  BY <1>1, <1>2, <1>5 DEF JobRecords
<1> HIDE DEF i, done, at, entry
<1>7. /\ then \in JobRecords /\ then.at = at /\ then.done = done /\ then.read = job[j].read
      /\ then.rendered = job[j].rendered /\ then.kept = job[j].kept /\ then.before = job[j].before
      /\ then.lost = job[j].lost /\ then.result = job[j].result
  <2>1. done \in 0..2
    BY <1>3
  <2> QED
    BY <1>1, <1>3, <2>1 DEF JobRecords
<1> HIDE DEF then
<1>8. Append(job[j].kept, entry) \in Seq((1..2) \X Files)
      /\ Range(Append(job[j].kept, entry)) = Range(job[j].kept) \cup {entry}
  <2>1. job[j].kept \in Seq((1..2) \X Files) /\ entry \in (1..2) \X Files
    BY <1>6
  <2> DEFINE kept == job[j].kept
             more == Append(kept, entry)
  <2>2. /\ more \in Seq((1..2) \X Files) /\ DOMAIN more = 1..(Len(kept) + 1)
        /\ \A n \in 1..Len(kept) : more[n] = kept[n]
        /\ more[Len(kept) + 1] = entry /\ DOMAIN kept = 1..Len(kept) /\ Len(kept) \in Nat
    BY <2>1
  <2> HIDE DEF more, kept
  <2>3. Range(more) = Range(kept) \cup {entry}
    <3>1. \A n \in DOMAIN more : more[n] \in Range(kept) \cup {entry}
      BY <2>2 DEF Range
    <3>2. \A n \in DOMAIN kept : kept[n] \in Range(more)
      BY <2>2 DEF Range
    <3>3. Len(kept) + 1 \in DOMAIN more
      BY <2>2
    <3>4. entry \in Range(more)
      BY <2>2, <3>3 DEF Range
    <3> QED
      BY <3>1, <3>2, <3>4 DEF Range
  <2> QED
    BY <2>2, <2>3 DEF more, kept
<1>9. /\ r \in JobRecords /\ r.at = at /\ r.done = done /\ r.read = job[j].read
      /\ r.rendered = job[j].rendered /\ r.before = job[j].before
      /\ r.kept = Append(job[j].kept, entry)
      /\ r.lost = job[j].lost /\ r.result = job[j].result
  BY <1>7, <1>8 DEF JobRecords
<1> HIDE DEF r
<1>10. InPlace(j, then) /\ Trust(j, then) /\ Undoable(then) /\ then.at # "absent"
  BY <1>1, <1>3, <1>7 DEF InPlace, Trust, Undoable, BeforeCommit
<1>11. InPlace(j, r) /\ Trust(j, r) /\ Undoable(r) /\ r.at # "absent"
  BY <1>1, <1>3, <1>5, <1>6, <1>8, <1>9 DEF InPlace, Trust, Undoable, BeforeCommit, Now, TargetOf
<1>12. CASE TargetOf(j, i) = NoFile /\ job' = [job EXCEPT ![j] = then] /\ file' = file
  <2>1. ASSUME Pair(j, job[j], file) PROVE Pair(j, then, file)
    <3>1. \A k \in 1..2 : Saved(then, k) <=> Saved(job[j], k)
      BY <1>7 DEF Saved
    <3>2. Now(j, file, i) = NoFile /\ Now(j, file, i) = job[j].before[i]
      BY <1>1, <1>2, <1>5, <1>12, <2>1 DEF Pair
    <3>3. Saved(job[j], i)
      BY <3>2 DEF Saved
    <3>4. \A k \in 1..2 : IF k <= i THEN Now(j, file, k) = NoFile /\ Saved(job[j], k)
                         ELSE Now(j, file, k) = job[j].before[k]
      BY <1>1, <1>2, <2>1, <3>2, <3>3 DEF Pair
    <3>5. \A k \in 1..2 : Now(j, file, k) = job[j].before[k] \/ Saved(job[j], k)
      BY <3>4
    <3>6. ~job[j].lost /\ job[j].result = "none" /\ \A k \in Range(job[j].kept) : k[2] = job[j].before[k[1]]
      BY <1>1, <2>1 DEF Pair
    <3> QED
      BY <1>2, <1>3, <1>7, <3>1, <3>4, <3>5, <3>6 DEF Pair, BeforeCommit
  <2>2. Becomes(j, then) /\ UNCHANGED <<text, file>> /\ job[j].at # "absent"
    BY <1>1, <1>12 DEF Becomes
  <2> QED
    BY <1>7, <1>10, <2>1, <2>2, StillSteps
<1>13. CASE job' = [job EXCEPT ![j] = r] /\ file' = [file EXCEPT ![TargetsOf[j][i]] = NoFile]
  <2>1. ASSUME Pair(j, job[j], file), Now(j, file', i) = NoFile,
               \A k \in 1..2 : k # i => Now(j, file', k) = Now(j, file, k)
        PROVE  Pair(j, r, file')
    <3>1. Now(j, file, i) = job[j].before[i]
      BY <1>1, <1>2, <2>1 DEF Pair
    <3>2. entry = <<i, job[j].before[i]>>
      BY <1>5, <3>1 DEF entry
    <3>3. /\ \A k \in 1..2 : Saved(job[j], k) => Saved(r, k)
          /\ Saved(r, i)
      BY <1>8, <1>9, <3>2 DEF Saved
    <3>4. \A k \in 1..2 : IF k <= i THEN Now(j, file', k) = NoFile /\ Saved(r, k)
                         ELSE Now(j, file', k) = job[j].before[k]
      BY <1>1, <1>2, <2>1, <3>3 DEF Pair
    <3>5. \A k \in 1..2 : Now(j, file', k) = job[j].before[k] \/ Saved(r, k)
      BY <3>4
    <3>6. ~job[j].lost /\ job[j].result = "none" /\ \A k \in Range(r.kept) : k[2] = job[j].before[k[1]]
      BY <1>1, <1>6, <1>8, <1>9, <2>1, <3>1 DEF Pair
    <3> QED
      BY <1>2, <1>3, <1>9, <3>4, <3>5, <3>6 DEF Pair, BeforeCommit
  <2> QED
    BY <1>1, <1>2, <1>9, <1>11, <1>13, <2>1, NoJobFacts, WriteSteps
<1> QED
  BY <1>4, <1>12, <1>13

LEMMA PutKeeps ==
  ASSUME CommandsInv, NEW j \in Jobs, PutInPlace(j), KindOf[j] = "compare"
  PROVE  CommandsInv'
<1> DEFINE i == job[j].done + 1
           new == Product(j, i, job[j].rendered)
           last == [job[j] EXCEPT !.at = "clean", !.result = "ok"]
           next == [job[j] EXCEPT !.done = i]
<1>1. /\ job[j] \in JobRecords /\ InPlace(j, job[j]) /\ Trust(j, job[j])
      /\ job[j].at = "put" /\ UNCHANGED text
      /\ job' = [job EXCEPT ![j] = IF i = 2 THEN last ELSE next]
      /\ file' = [file EXCEPT ![TargetsOf[j][i]] = new]
  BY JobFacts DEF PutInPlace, Becomes
<1>2. i \in 1..2 /\ job[j].done \in {0, 1} /\ i = job[j].done + 1
  BY <1>1 DEF InPlace
<1>3. new \in Files /\ Trusted(new) /\ new = Product(j, i, job[j].read)
  BY <1>1, <1>2, ProductFacts
<1> HIDE DEF i, new
<1>4. /\ last \in JobRecords /\ last.at = "clean" /\ last.done = job[j].done
      /\ last.read = job[j].read /\ last.rendered = job[j].rendered /\ last.kept = job[j].kept
      /\ last.before = job[j].before /\ last.lost = job[j].lost /\ last.result = "ok"
  BY <1>1 DEF JobRecords, Places
<1>5. /\ next \in JobRecords /\ next.at = "put" /\ next.done = i
      /\ next.read = job[j].read /\ next.rendered = job[j].rendered /\ next.kept = job[j].kept
      /\ next.before = job[j].before /\ next.lost = job[j].lost /\ next.result = job[j].result
  <2>1. i \in 0..2
    BY <1>2
  <2> QED
    BY <1>1, <2>1 DEF JobRecords
<1> HIDE DEF last, next
<1>6. InPlace(j, last) /\ Trust(j, last) /\ Undoable(last) /\ last.at # "absent"
  BY <1>1, <1>4 DEF InPlace, Trust, Undoable, BeforeCommit
<1>7. i # 2 => InPlace(j, next) /\ Trust(j, next) /\ Undoable(next) /\ next.at # "absent"
  BY <1>1, <1>2, <1>5 DEF InPlace, Trust, Undoable, BeforeCommit
<1>8. ASSUME Pair(j, job[j], file), Now(j, file', i) = new,
             \A k \in 1..2 : k # i => Now(j, file', k) = Now(j, file, k)
      PROVE  (i = 2 => Pair(j, last, file')) /\ (i # 2 => Pair(j, next, file'))
  <2>1. /\ \A k \in 1..2 : Saved(last, k) <=> Saved(job[j], k)
        /\ \A k \in 1..2 : Saved(next, k) <=> Saved(job[j], k)
    BY <1>4, <1>5 DEF Saved
  <2>2. \A k \in 1..2 : /\ Saved(job[j], k)
                        /\ Now(j, file', k) = IF k <= i THEN Product(j, k, job[j].read) ELSE NoFile
    BY <1>1, <1>2, <1>3, <1>8 DEF Pair
  <2>3. ~job[j].lost /\ job[j].result = "none" /\ \A k \in Range(job[j].kept) : k[2] = job[j].before[k[1]]
    BY <1>1, <1>8 DEF Pair
  <2>4. i = 2 => Pair(j, last, file')
    BY <1>4, <2>2, <2>3 DEF Pair, BeforeCommit
  <2>5. i # 2 => Pair(j, next, file')
    BY <1>5, <2>1, <2>2, <2>3 DEF Pair, BeforeCommit
  <2> QED
    BY <2>4, <2>5
<1>9. CASE i = 2
  <2>1. job' = [job EXCEPT ![j] = last]
    BY <1>1, <1>9
  <2> QED
    BY <1>1, <1>2, <1>3, <1>4, <1>6, <1>8, <1>9, <2>1, WriteSteps
<1>10. CASE i # 2
  <2>1. job' = [job EXCEPT ![j] = next]
    BY <1>1, <1>10
  <2> QED
    BY <1>1, <1>2, <1>3, <1>5, <1>7, <1>8, <1>10, <2>1, WriteSteps
<1> QED
  BY <1>9, <1>10

LEMMA Prepended ==
  ASSUME NEW S, NEW s \in Seq(S), NEW t \in Seq(S), Len(s) = 1
  PROVE  /\ s \o t \in Seq(S) /\ DOMAIN (s \o t) = 1..(1 + Len(t)) /\ (s \o t)[1] = s[1]
         /\ \A n \in 1..Len(t) : (s \o t)[n + 1] = t[n]
<1>1. /\ s \o t \in Seq(S) /\ Len(s \o t) = Len(s) + Len(t)
      /\ \A i \in 1..Len(s) + Len(t) :
           (s \o t)[i] = IF i <= Len(s) THEN s[i] ELSE t[i - Len(s)]
  BY ConcatProperties
<1>2. Len(t) \in Nat /\ DOMAIN (s \o t) = 1..(1 + Len(t))
  BY <1>1
<1> DEFINE both == s \o t
<1>3. \A i \in 1..(1 + Len(t)) : both[i] = IF i <= 1 THEN s[i] ELSE t[i - 1]
  BY <1>1
<1> HIDE DEF both
<1>4. both[1] = s[1] /\ \A n \in 1..Len(t) : both[n + 1] = t[n]
  BY <1>2, <1>3
<1> QED
  BY <1>1, <1>2, <1>4 DEF both

(* What was kept, in reverse order.                                        *)
LEMMA Reversed ==
  ASSUME NEW S, NEW s \in Seq(S)
  PROVE  \A n \in 1..Len(s) : /\ Len(s) - n + 1 \in 1..Len(s)
                            /\ Reverse(s)[n] = s[Len(s) - n + 1]
                            /\ Reverse(s)[Len(s) - n + 1] = s[n]
<1>1. Len(s) \in Nat
  OBVIOUS
<1>2. \A n \in 1..Len(s) : Len(s) - n + 1 \in 1..Len(s) /\ Reverse(s)[n] = s[Len(s) - n + 1]
  BY <1>1 DEF Reverse
<1>3. ASSUME NEW n \in 1..Len(s) PROVE Reverse(s)[Len(s) - n + 1] = s[n]
  <2>1. Reverse(s)[Len(s) - n + 1] = s[Len(s) - (Len(s) - n + 1) + 1]
    BY <1>2
  <2>2. Len(s) - (Len(s) - n + 1) + 1 = n
    BY <1>1
  <2> QED
    BY <2>1, <2>2
<1> QED
  BY <1>2, <1>3

LEMMA Restores ==
  ASSUME NEW kept \in Seq((1..2) \X Files)
  PROVE  LET restores == [n \in DOMAIN kept |-> <<"restore", Reverse(kept)[n][1]>>] IN
         /\ restores \in Seq(Undos) /\ Len(restores) = Len(kept) /\ Len(kept) \in Nat
         /\ \A n \in 1..Len(kept) : \E k \in Range(kept) : restores[n] = <<"restore", k[1]>>
         /\ \A k \in Range(kept) : \E n \in 1..Len(kept) : restores[n] = <<"restore", k[1]>>
<1> DEFINE restores == [n \in DOMAIN kept |-> <<"restore", Reverse(kept)[n][1]>>]
<1>1. /\ DOMAIN kept = 1..Len(kept) /\ Len(kept) \in Nat
      /\ \A n \in 1..Len(kept) : kept[n] \in (1..2) \X Files /\ kept[n] \in Range(kept)
  BY DEF Range
<1>2. \A n \in 1..Len(kept) : /\ Len(kept) - n + 1 \in 1..Len(kept)
                            /\ Reverse(kept)[n] = kept[Len(kept) - n + 1]
                            /\ Reverse(kept)[Len(kept) - n + 1] = kept[n]
  BY Reversed
<1>3. \A n \in 1..Len(kept) : Reverse(kept)[n] \in Range(kept) /\ Reverse(kept)[n] \in (1..2) \X Files
  BY <1>1, <1>2
<1>4. \A n \in 1..Len(kept) : restores[n] = <<"restore", Reverse(kept)[n][1]>>
  BY <1>1
<1>5. \A k \in (1..2) \X Files : <<"restore", k[1]>> \in Undos
  BY DEF Undos
<1>6. restores \in [1..Len(kept) -> Undos]
  BY <1>1, <1>3, <1>5
<1>7. restores \in Seq(Undos)
  BY <1>1, <1>6, SeqDef
<1>8. Len(restores) = Len(kept)
  BY <1>1, <1>6, <1>7
<1>9. ASSUME NEW k \in Range(kept)
      PROVE  \E n \in 1..Len(kept) : restores[n] = <<"restore", k[1]>>
  <2>1. PICK m \in 1..Len(kept) : k = kept[m]
    BY <1>1 DEF Range
  <2> QED
    BY <1>2, <1>4, <2>1
<1> HIDE DEF restores
<1>10. \A n \in 1..Len(kept) : \E k \in Range(kept) : restores[n] = <<"restore", k[1]>>
  BY <1>3, <1>4
<1> QED
  BY <1>1, <1>7, <1>8, <1>9, <1>10 DEF restores

(* What a failed commit has to undo, in its order.                         *)
LEMMA UndoingFacts ==
  ASSUME NEW j \in Jobs, job[j].kept \in Seq((1..2) \X Files),
         job[j].at \in {"aside", "put"}, job[j].done \in {0, 1}
  PROVE  /\ Undoing(j) \in Seq(Undos)
         /\ \A n \in DOMAIN Undoing(j) :
              \/ /\ Undoing(j)[n][1] = "restore"
                 /\ \E k \in Range(job[j].kept) : k[1] = Undoing(j)[n][2]
              \/ /\ Undoing(j)[n] = <<"remove", 1>> /\ n = 1
                 /\ job[j].at = "put" /\ job[j].done = 1
         /\ \A k \in Range(job[j].kept) : <<"restore", k[1]>> \in Range(Undoing(j))
         /\ job[j].at = "put" /\ job[j].done = 1 => <<"remove", 1>> \in Range(Undoing(j))
<1> DEFINE kept == job[j].kept
           put == IF job[j].at = "put" THEN [i \in 1..job[j].done |-> i] ELSE <<>>
           removes == [n \in DOMAIN put |-> <<"remove", Reverse(put)[n]>>]
           restores == [n \in DOMAIN kept |-> <<"restore", Reverse(kept)[n][1]>>]
           u == Undoing(j)
<1>1. u = removes \o restores
  BY DEF Undoing
<1>2. /\ restores \in Seq(Undos) /\ Len(restores) = Len(kept) /\ Len(kept) \in Nat
      /\ \A n \in 1..Len(kept) : \E k \in Range(kept) : restores[n] = <<"restore", k[1]>>
      /\ \A k \in Range(kept) : \E n \in 1..Len(kept) : restores[n] = <<"restore", k[1]>>
  BY Restores
<1>3. CASE job[j].at = "put" /\ job[j].done = 1
  <2>1. put \in Seq({1}) /\ Len(put) = 1 /\ put[1] = 1
    <3>1. put = [i \in 1..1 |-> i]
      BY <1>3
    <3>2. put \in [1..1 -> {1}]
      BY <3>1
    <3> QED
      BY <3>1, <3>2, SeqDef
  <2>2. Reverse(put)[1] = 1 /\ DOMAIN put = 1..1
    BY <2>1 DEF Reverse
  <2> HIDE DEF put
  <2>3. removes \in [1..1 -> Undos] /\ removes[1] = <<"remove", 1>>
    BY <2>2 DEF Undos
  <2>4. removes \in Seq(Undos) /\ Len(removes) = 1
    BY <2>3, SeqDef
  <2> HIDE DEF removes, restores, u, kept
  <2>5. /\ u \in Seq(Undos) /\ DOMAIN u = 1..(1 + Len(kept)) /\ u[1] = <<"remove", 1>>
        /\ \A n \in 1..Len(kept) : u[n + 1] = restores[n]
    <3>1. u = removes \o restores /\ removes \in Seq(Undos) /\ restores \in Seq(Undos)
          /\ Len(removes) = 1 /\ removes[1] = <<"remove", 1>> /\ Len(restores) = Len(kept)
      BY <1>1, <1>2, <2>3, <2>4
    <3> QED
      BY <3>1, Prepended
  <2>6. ASSUME NEW n \in DOMAIN u
        PROVE \/ u[n][1] = "restore" /\ \E k \in Range(kept) : k[1] = u[n][2]
              \/ u[n] = <<"remove", 1>> /\ n = 1
    <3>1. CASE n = 1
      BY <2>5, <3>1
    <3>2. CASE n # 1
      <4>1. n - 1 \in 1..Len(kept) /\ (n - 1) + 1 = n
        BY <1>2, <2>5, <3>2
      <4>2. u[n] = restores[n - 1]
        BY <2>5, <4>1
      <4> QED
        BY <1>2, <4>1, <4>2
    <3> QED
      BY <3>1, <3>2
  <2>7. ASSUME NEW k \in Range(kept) PROVE <<"restore", k[1]>> \in Range(u)
    <3>1. PICK q \in 1..Len(kept) : restores[q] = <<"restore", k[1]>>
      BY <1>2
    <3>2. Len(kept) \in Nat
      BY <1>2
    <3>3. q + 1 \in DOMAIN u
      BY <2>5, <3>2
    <3>4. u[q + 1] = <<"restore", k[1]>>
      BY <2>5, <3>1
    <3> QED
      BY <3>3, <3>4 DEF Range
  <2>8. <<"remove", 1>> \in Range(u)
    <3>1. Len(kept) \in Nat
      BY <1>2
    <3>2. 1 \in DOMAIN u
      BY <2>5, <3>1
    <3> QED
      BY <2>5, <3>2 DEF Range
  <2> QED
    BY <1>3, <2>5, <2>6, <2>7, <2>8 DEF u, kept
<1>4. CASE ~(job[j].at = "put" /\ job[j].done = 1)
  <2>1. put = <<>>
    BY <1>4
  <2> HIDE DEF put
  <2>2. removes = <<>>
    BY <2>1
  <2> HIDE DEF removes, restores, u, kept
  <2>3. u = restores
    BY <1>1, <1>2, <2>2
  <2>4. u \in Seq(Undos) /\ DOMAIN u = 1..Len(kept)
    BY <1>2, <2>3
  <2>5. \A n \in DOMAIN u : u[n][1] = "restore" /\ \E k \in Range(kept) : k[1] = u[n][2]
    BY <1>2, <2>3, <2>4
  <2>6. \A k \in Range(kept) : <<"restore", k[1]>> \in Range(u)
    BY <1>2, <2>3, <2>4 DEF Range
  <2> QED
    BY <1>4, <2>4, <2>5, <2>6 DEF u, kept
<1> QED
  BY <1>3, <1>4

LEMMA FailKeepsPair ==
  ASSUME CommandsInv, NEW j \in Jobs, CommitFails(j), KindOf[j] = "compare"
  PROVE  CommandsInv'
<1> DEFINE u == Undoing(j)
           r == [job[j] EXCEPT !.at = "undo", !.undo = u]
<1>1. /\ job[j] \in JobRecords /\ InPlace(j, job[j]) /\ Trust(j, job[j])
      /\ job[j].at \in {"aside", "put"} /\ UNCHANGED <<text, file>> /\ Becomes(j, r)
      /\ job[j].done \in {0, 1}
  BY JobFacts DEF CommitFails, InPlace
<1>2. /\ u \in Seq(Undos)
      /\ \A n \in DOMAIN u :
           \/ u[n][1] = "restore" /\ \E k \in Range(job[j].kept) : k[1] = u[n][2]
           \/ /\ u[n] = <<"remove", 1>> /\ n = 1
              /\ job[j].at = "put" /\ job[j].done = 1
      /\ \A k \in Range(job[j].kept) : <<"restore", k[1]>> \in Range(u)
      /\ job[j].at = "put" /\ job[j].done = 1 => <<"remove", 1>> \in Range(u)
  <2>1. job[j].kept \in Seq((1..2) \X Files)
    BY <1>1 DEF JobRecords
  <2> QED
    BY <1>1, <2>1, UndoingFacts
<1> HIDE DEF u
<1>3. /\ r \in JobRecords /\ r.at = "undo" /\ r.read = job[j].read /\ r.undo = u
      /\ r.rendered = job[j].rendered /\ r.kept = job[j].kept /\ r.before = job[j].before
      /\ r.lost = job[j].lost /\ r.result = job[j].result
  BY <1>1, <1>2 DEF JobRecords, Places
<1> HIDE DEF r
<1>4. InPlace(j, r) /\ Trust(j, r)
  BY <1>1, <1>3 DEF InPlace, Trust, BeforeCommit
<1>5. Undoable(r)
  BY <1>2, <1>3 DEF Undoable
<1>6. ASSUME Pair(j, job[j], file) PROVE Pair(j, r, file)
  <2>1. \A i \in 1..2 : Saved(r, i) <=> Saved(job[j], i)
    BY <1>3 DEF Saved
  <2>2. \A i \in 1..2 : Saved(r, i) => r.before[i] = NoFile \/ ToRestore(r, i)
    <3>1. \A i \in 1..2 : <<i, r.before[i]>> \in Range(job[j].kept) => <<"restore", i>> \in Range(u)
      BY <1>2
    <3> QED
      BY <1>3, <3>1 DEF Saved, ToRestore
  <2>3. \A i \in 1..2 : ToRemove(r, i) => i = 1 /\ job[j].at = "put" /\ job[j].done = 1
    BY <1>2, <1>3 DEF ToRemove, Range
  <2>4. ~job[j].lost /\ job[j].result = "none" /\ \A k \in Range(job[j].kept) : k[2] = job[j].before[k[1]]
    BY <1>1, <1>6 DEF Pair
  <2>5. ASSUME NEW i \in 1..2
        PROVE  /\ ToRemove(r, i) => r.before[i] = NoFile \/ ToRestore(r, i)
               /\ Now(j, file, i) = r.before[i] \/ ToRestore(r, i) \/ ToRemove(r, i)
               /\ Now(j, file, i) = r.before[i] \/ Saved(r, i)
    <3>1. CASE job[j].at = "aside"
      BY <1>1, <1>3, <1>6, <2>1, <2>2, <2>3, <3>1 DEF Pair
    <3>2. CASE job[j].at = "put"
      <4>1. /\ Saved(r, i)
            /\ r.before[i] = NoFile \/ ToRestore(r, i)
            /\ i <= job[j].done \/ Now(j, file, i) = NoFile
        BY <1>6, <2>1, <2>2, <3>2 DEF Pair
      <4>2. i <= job[j].done => ToRemove(r, i)
        BY <1>1, <1>2, <1>3, <3>2 DEF ToRemove
      <4> QED
        BY <4>1, <4>2
    <3> QED
      BY <1>1, <3>1, <3>2
  <2> QED
    BY <1>3, <2>4, <2>5 DEF Pair, BeforeCommit
<1> QED
  BY <1>1, <1>3, <1>4, <1>5, <1>6, StillSteps

(* One step of the undoing, which may fail.                                *)
LEMMA UndoKeeps ==
  ASSUME CommandsInv, NEW j \in Jobs, NEW fails \in BOOLEAN, Undo(j, fails), KindOf[j] = "compare"
  PROVE  CommandsInv'
<1> DEFINE u == job[j].undo
           what == Head(u)
           i == what[2]
           r == [job[j] EXCEPT !.undo = Tail(@), !.lost = @ \/ fails]
           new == IF what[1] = "remove" THEN NoFile ELSE PutBack(j, i)
<1>1. /\ job[j] \in JobRecords /\ InPlace(j, job[j]) /\ Trust(j, job[j]) /\ Undoable(job[j])
      /\ job[j].at = "undo" /\ u # <<>> /\ UNCHANGED text /\ Becomes(j, r)
      /\ file \in [Targets -> Files]
  BY JobFacts DEF Undo
<1>2. file' = IF fails THEN file ELSE [file EXCEPT ![TargetsOf[j][i]] = new]
  BY DEF Undo
<1>3. /\ u \in Seq(Undos) /\ what \in Undos /\ Tail(u) \in Seq(Undos) /\ what = u[1] /\ 1 \in DOMAIN u
      /\ \A n \in DOMAIN Tail(u) : n + 1 \in DOMAIN u /\ Tail(u)[n] = u[n + 1]
  <2>1. u \in Seq(Undos) /\ u # <<>>
    BY <1>1 DEF JobRecords
  <2> HIDE DEF u
  <2> QED
    BY <2>1
<1>4. Range(u) = Range(Tail(u)) \cup {what}
  <2>1. \A n \in DOMAIN Tail(u) : Tail(u)[n] \in Range(u)
    BY <1>3 DEF Range
  <2>2. \A n \in DOMAIN u : n = 1 \/ (n - 1 \in DOMAIN Tail(u) /\ Tail(u)[n - 1] = u[n])
    BY <1>3
  <2>3. \A n \in DOMAIN u : u[n] \in Range(Tail(u)) \cup {what}
    BY <1>3, <2>2 DEF Range
  <2>4. what \in Range(u)
    BY <1>3 DEF Range
  <2> QED
    BY <2>1, <2>3, <2>4 DEF Range
<1>5. what[1] \in {"remove", "restore"} /\ i \in 1..2 /\ what = <<what[1], i>>
  BY <1>3 DEF Undos
<1>6. /\ r \in JobRecords /\ r.at = "undo" /\ r.read = job[j].read /\ r.undo = Tail(u)
      /\ r.rendered = job[j].rendered /\ r.kept = job[j].kept /\ r.before = job[j].before
      /\ r.lost = (job[j].lost \/ fails) /\ r.result = job[j].result
  BY <1>1, <1>3 DEF JobRecords
<1> HIDE DEF r
<1>7. InPlace(j, r) /\ Trust(j, r) /\ r.at # "absent"
  BY <1>1, <1>6 DEF InPlace, Trust, BeforeCommit
<1>8. Undoable(r)
  <2>1. ASSUME NEW n \in DOMAIN Tail(u), Tail(u)[n][1] = "restore"
        PROVE  \E k \in Range(r.kept) : k[1] = Tail(u)[n][2]
    BY <1>1, <1>3, <1>6, <2>1 DEF Undoable
  <2>2. ASSUME NEW n \in DOMAIN Tail(u), Tail(u)[n][1] = "remove", NEW m \in 1..n
        PROVE  Tail(u)[m][1] = "remove"
    <3>1. m \in DOMAIN Tail(u) /\ m + 1 \in 1..(n + 1) /\ n + 1 \in DOMAIN u /\ u[n + 1][1] = "remove"
      BY <1>3, <2>2
    <3>2. u[m + 1][1] = "remove"
      BY <1>1, <3>1 DEF Undoable
    <3> QED
      BY <1>3, <3>1, <3>2
  <2> QED
    BY <1>6, <2>1, <2>2 DEF Undoable
\* What is put back is what was kept.
<1>9. what[1] = "restore" => \E k \in Range(job[j].kept) : k[1] = i /\ PutBack(j, i) = k[2]
  <2>1. what[1] = "restore" => \E k \in Range(job[j].kept) : k[1] = i
    BY <1>1, <1>3 DEF Undoable
  <2> QED
    BY <2>1 DEF PutBack
<1>10. \A k \in Range(job[j].kept) : k \in (1..2) \X Files /\ Trusted(k[2])
  <2>1. job[j].kept \in Seq((1..2) \X Files)
    BY <1>1 DEF JobRecords
  <2>2. \A n \in DOMAIN job[j].kept : job[j].kept[n] \in (1..2) \X Files
    BY <2>1
  <2> QED
    BY <1>1, <2>2 DEF Range, Trust
<1>11. new \in Files /\ Trusted(new)
  BY <1>5, <1>9, <1>10, NoJobFacts
\* Removals come first: a restore is followed by restores only.
<1>12. what[1] = "restore" => \A k \in 1..2 : ~ToRemove(r, k)
  <2>1. ASSUME NEW n \in DOMAIN Tail(u), Tail(u)[n][1] = "remove" PROVE what[1] = "remove"
    BY <1>1, <1>3, <2>1 DEF Undoable
  <2> QED
    BY <1>6, <2>1 DEF ToRemove, Range
<1>13. \A k \in 1..2 : /\ ToRestore(job[j], k) <=> (ToRestore(r, k) \/ what = <<"restore", k>>)
                       /\ ToRemove(job[j], k) <=> (ToRemove(r, k) \/ what = <<"remove", k>>)
                       /\ Saved(r, k) <=> Saved(job[j], k)
  <2> SUFFICES ASSUME NEW k \in 1..2
               PROVE  /\ ToRestore(job[j], k) <=> (ToRestore(r, k) \/ what = <<"restore", k>>)
                      /\ ToRemove(job[j], k) <=> (ToRemove(r, k) \/ what = <<"remove", k>>)
                      /\ Saved(r, k) <=> Saved(job[j], k)
    OBVIOUS
  <2>1. Saved(r, k) <=> Saved(job[j], k)
    BY <1>6 DEF Saved
  <2>2. Range(job[j].undo) = Range(r.undo) \cup {what}
    BY <1>4, <1>6
  <2> HIDE DEF what, u
  <2>3. ToRestore(job[j], k) <=> (ToRestore(r, k) \/ what = <<"restore", k>>)
    BY <2>2 DEF ToRestore
  <2>4. ToRemove(job[j], k) <=> (ToRemove(r, k) \/ what = <<"remove", k>>)
    BY <2>2 DEF ToRemove
  <2> QED
    BY <2>1, <2>3, <2>4
<1>14. \A k \in 1..2 : Pair(j, job[j], file) /\ ToRestore(job[j], k) => Saved(job[j], k)
  <2> SUFFICES ASSUME NEW k \in 1..2, Pair(j, job[j], file), ToRestore(job[j], k)
               PROVE  Saved(job[j], k)
    OBVIOUS
  <2>1. PICK e \in Range(job[j].kept) : e[1] = k
    BY <1>1 DEF ToRestore, Undoable, Range
  <2>2. e[2] = job[j].before[k] /\ e \in (1..2) \X Files
    BY <1>10, <2>1 DEF Pair
  <2>3. e = <<k, job[j].before[k]>>
    BY <2>1, <2>2
  <2> QED
    BY <2>3 DEF Saved
<1> HIDE DEF u, i, what, new
<1>15. CASE fails
  <2>1. UNCHANGED <<text, file>>
    BY <1>1, <1>2, <1>15
  <2>2. ASSUME Pair(j, job[j], file) PROVE Pair(j, r, file)
    <3>1. \A k \in 1..2 : ToRemove(r, k) => r.before[k] = NoFile \/ ToRestore(r, k)
      BY <1>1, <1>5, <1>6, <1>12, <1>13, <2>2 DEF Pair
    <3>2. /\ job[j].result = "none" /\ \A k \in Range(job[j].kept) : k[2] = job[j].before[k[1]]
          /\ \A k \in 1..2 : Now(j, file, k) = job[j].before[k] \/ Saved(job[j], k)
      BY <1>1, <2>2 DEF Pair
    <3> QED
      BY <1>6, <1>13, <1>15, <3>1, <3>2 DEF Pair, BeforeCommit
  <2> QED
    BY <1>1, <1>6, <1>7, <1>8, <2>1, <2>2, StillSteps
<1>16. CASE ~fails
  <2>1. file' = [file EXCEPT ![TargetsOf[j][i]] = new] /\ job' = [job EXCEPT ![j] = r]
    BY <1>1, <1>2, <1>16 DEF Becomes
  <2>2. ASSUME Pair(j, job[j], file), Now(j, file', i) = new,
               \A k \in 1..2 : k # i => Now(j, file', k) = Now(j, file, k)
        PROVE  Pair(j, r, file')
    <3>1. \A k \in 1..2 : ToRemove(r, k) => r.before[k] = NoFile \/ ToRestore(r, k)
      BY <1>1, <1>5, <1>6, <1>12, <1>13, <2>2 DEF Pair
    <3>2. /\ job[j].result = "none" /\ \A k \in Range(job[j].kept) : k[2] = job[j].before[k[1]]
          /\ \A k \in 1..2 : Now(j, file, k) = job[j].before[k] \/ Saved(job[j], k)
      BY <1>1, <2>2 DEF Pair
    <3>3. ASSUME NEW k \in 1..2
          PROVE  /\ ~r.lost => Now(j, file', k) = r.before[k] \/ ToRestore(r, k) \/ ToRemove(r, k)
                 /\ Now(j, file', k) = r.before[k] \/ Saved(r, k)
      <4>1. CASE k # i
        <5>1. what # <<"restore", k>> /\ what # <<"remove", k>>
          BY <1>5, <4>1
        <5>2. ~job[j].lost =>
                Now(j, file, k) = job[j].before[k] \/ ToRestore(job[j], k) \/ ToRemove(job[j], k)
          BY <1>1, <2>2 DEF Pair
        <5>3. Now(j, file', k) = Now(j, file, k)
          BY <2>2, <4>1
        <5> QED
          BY <1>6, <1>13, <3>2, <5>1, <5>2, <5>3
      <4>2. CASE k = i /\ what[1] = "remove"
        <5>1. what = <<"remove", k>> /\ Now(j, file', k) = NoFile
          BY <1>5, <2>2, <4>2 DEF new
        <5>2. job[j].before[k] = NoFile \/ ToRestore(job[j], k)
          BY <1>1, <1>13, <2>2, <5>1 DEF Pair
        <5>3. job[j].before[k] = NoFile \/ (ToRestore(r, k) /\ Saved(r, k))
          BY <1>13, <1>14, <2>2, <5>1, <5>2
        <5> QED
          BY <1>6, <5>1, <5>3
      <4>3. CASE k = i /\ what[1] = "restore"
        <5>1. Now(j, file', k) = PutBack(j, k)
          BY <2>2, <4>3 DEF new
        <5>2. PutBack(j, k) = job[j].before[k]
          BY <1>9, <3>2, <4>3
        <5> QED
          BY <1>6, <5>1, <5>2
      <4> QED
        BY <1>5, <4>1, <4>2, <4>3
    <3> QED
      BY <1>6, <3>1, <3>2, <3>3 DEF Pair, BeforeCommit
  <2> QED
    BY <1>1, <1>5, <1>6, <1>7, <1>8, <1>11, <2>1, <2>2, WriteSteps
<1> QED
  BY <1>15, <1>16

LEMMA EditKeeps ==
  ASSUME CommandsInv, NEW p \in Inputs, EditInput(p)
  PROVE  CommandsInv'
<1>1. UNCHANGED <<file, job>> /\ text' \in [Inputs -> Texts]
  BY DEF EditInput, CommandsInv, CommandTypes
<1> QED
  BY <1>1 DEF CommandsInv, CommandTypes, InPlace, Trust, Undoable, Pair, Alone

LEMMA CommandsKeep ==
  ASSUME CommandsInv, [CommandsNext]_commandVars
  PROVE  CommandsInv'
<1>1. CASE UNCHANGED commandVars
  BY <1>1 DEF commandVars, CommandsInv, CommandTypes, InPlace, Trust, Undoable, Pair, Alone
<1>2. ASSUME NEW j \in Jobs, DeliverStep(j) PROVE CommandsInv'
  BY <1>2, ReadKeeps, RenderKeeps, CheckKeeps, RecheckKeeps, ReplaceKeeps, RefuseKeeps, CleanKeeps
     DEF DeliverStep
<1>3. ASSUME NEW j \in Jobs, MigrateStep(j) PROVE CommandsInv'
  BY <1>3, ReadKeeps, RenderKeeps, CheckKeeps, RecheckKeeps, ReplaceKeeps, RefuseKeeps, CleanKeeps
     DEF MigrateStep
<1>4. ASSUME NEW j \in Jobs, ValidateStep(j) PROVE CommandsInv'
  BY <1>4, RenderKeeps, CheckKeeps, RefuseKeeps, CleanKeeps DEF ValidateStep
<1>5. ASSUME NEW j \in Jobs, CompareStep(j) PROVE CommandsInv'
  BY <1>5, ReadKeeps, OriginalKeeps, RenderKeeps, CheckKeeps, RecheckKeeps, AsideKeeps, PutKeeps,
     FailKeepsPair, UndoKeeps, UndoneKeeps, RefuseKeeps, CleanKeeps DEF CompareStep
<1> QED
  BY <1>1, <1>2, <1>3, <1>4, <1>5, KilledKeeps, EditKeeps DEF CommandsNext

LEMMA CommandsImply == CommandsInv => OutputsTrusted /\ PairIsWhole
<1>1. SUFFICES ASSUME CommandsInv PROVE OutputsTrusted /\ PairIsWhole
  OBVIOUS
<1>2. OutputsTrusted
  BY <1>1 DEF CommandsInv, OutputsTrusted, Trusted, Trust
<1>3. ASSUME NEW j \in Jobs, KindOf[j] = "compare", job[j].at # "absent", Alone(j)
      PROVE  LET now == [i \in 1..2 |-> TargetOf(j, i)] IN
        /\ job[j].result = "ok" => now = [i \in 1..2 |-> Product(j, i, job[j].read)]
        /\ job[j].result # "ok" /\ job[j].at \notin {"aside", "put", "undo", "killed"}
              /\ ~ job[j].lost => now = job[j].before
        /\ job[j].result # "ok" /\ ~ (job[j].at = "ended" /\ job[j].lost) =>
             \A i \in 1..2 : \/ now[i] = job[j].before[i]
                             \/ job[j].before[i] = NoFile
                             \/ <<i, job[j].before[i]>> \in Range(job[j].kept)
  <2> DEFINE now == [i \in 1..2 |-> TargetOf(j, i)]
  <2>1. Pair(j, job[j], file)
    BY <1>1, <1>3 DEF CommandsInv
  <2>2. \A i \in 1..2 : now[i] = Now(j, file, i)
    BY DEF TargetOf, Now
  <2>3. job[j].before = [i \in 1..2 |-> job[j].before[i]]
    <3>1. job[j].before \in Seq(Files) /\ Len(job[j].before) = 2
      BY <1>1, <1>3, JobFacts DEF JobRecords, InPlace
    <3> QED
      BY <3>1
  <2>4. job[j].result = "ok" => now = [i \in 1..2 |-> Product(j, i, job[j].read)]
    BY <2>1, <2>2 DEF Pair
  <2>5. /\ job[j].result # "ok" /\ job[j].at \notin {"aside", "put", "undo", "killed"}
           /\ ~ job[j].lost => now = job[j].before
    BY <2>1, <2>2, <2>3 DEF Pair
  <2>6. job[j].result # "ok" /\ ~ (job[j].at = "ended" /\ job[j].lost) =>
          \A i \in 1..2 : \/ now[i] = job[j].before[i]
                          \/ job[j].before[i] = NoFile
                          \/ <<i, job[j].before[i]>> \in Range(job[j].kept)
    BY <2>1, <2>2 DEF Pair, Saved
  <2> QED
    BY <2>4, <2>5, <2>6
<1> QED
  BY <1>2, <1>3 DEF PairIsWhole

LEMMA CommandsInvariance == CommandsSpec => []CommandsInv
<1>1. CommandsInit => CommandsInv
  BY CommandsStart
<1>2. CommandsInv /\ [CommandsNext]_commandVars => CommandsInv'
  BY CommandsKeep
<1> QED
  BY <1>1, <1>2, PTL DEF CommandsSpec

(* Whatever lies at a target was there before or has passed the checks,    *)
(* whoever reports success has committed what it has read, and the pair of *)
(* compare is whole or can be put together again, whichever of its four    *)
(* renames fails and whenever a process is killed (deliver, migrate and    *)
(* commitComparePair of bin/archify.mjs).                                  *)
THEOREM CommandsLeaveTheTrusted == CommandsSpec => [](OutputsTrusted /\ PairIsWhole)
BY CommandsInvariance, CommandsImply, PTL

-----------------------------------------------------------------------------
(* visual-check.  Inside a view neither its measures nor its picture are   *)
(* there yet, but those of all views before it.                            *)
Measure == [as : Measured, of : 0..Versions]
InView == {"attach", "emulate", "navigate", "load", "settle", "measure"}
Stages == {"begin", "capture", "finish", "failed", "close", "kill", "ended", "uncaught"}
           \cup InView
CapturedUpto(n) == {i \in 1..n : Views[i].captured}

Visits == [at : Stages, view : 1..Len(Views), of : 0..Versions,
           shown : 0..Versions, metrics : Seq(Measure)]
Answers == [call : Calls \cup {"loaded"}, ok : BOOLEAN, of : 0..Versions]
Receipts == [status : {"none", "pass", "fail", "skipped"}, of : 0..Versions,
             found : SUBSET (Defects \cup {"runtime"})]
Sidecars == [shots : SUBSET (1..Len(Views)), sheet : BOOLEAN, receipt : Receipts]

VisitTypes ==
  /\ page \in 1..Versions
  /\ visit \in Visits /\ Len(visit.metrics) <= Len(Views)
  /\ line \in [call : {NoCall} \cup Calls, event : {"none", "waiting", "fired"}]
  /\ chrome \in {"none", "runs", "hangs", "ended"}
  /\ pipe \in Seq(Answers)
  /\ evidence \in Sidecars

(* Nobody is awaited at the ends, and an uncaught exception is the end.    *)
LineInv ==
  /\ visit.at = "begin" => pipe = <<>> /\ visit.view = 1 /\ visit.metrics = <<>>
  /\ visit.at \in {"begin", "finish", "failed", "close", "kill", "ended"} =>
       line.call = NoCall
  /\ visit.at = "uncaught" => line.event = "waiting"

(* What was shown is no older than the page that was there at first, and   *)
(* no newer than the one that is there now.                                *)
InBetween(version) == visit.of <= version /\ version <= page

AgeInv ==
  /\ visit.of <= page
  /\ \A i \in DOMAIN pipe : InBetween(pipe[i].of)
  /\ visit.at \in {"load", "settle", "measure"} => InBetween(visit.shown)
  /\ \A i \in DOMAIN visit.metrics : InBetween(visit.metrics[i].of)

ProgressInv ==
  /\ visit.at \in InView => /\ Len(visit.metrics) = visit.view - 1
                            /\ evidence.shots = CapturedUpto(visit.view - 1)
  /\ visit.at = "capture" => /\ Len(visit.metrics) = visit.view
                             /\ evidence.shots = CapturedUpto(visit.view - 1)
                             /\ Captured(View)
  /\ visit.at = "finish" => /\ Len(visit.metrics) = Len(Views)
                            /\ evidence.shots = CapturedUpto(Len(Views))
  /\ visit.at \in InView \cup {"capture", "finish"} => ~evidence.sheet
  /\ visit.at \in InView \cup {"capture", "finish", "failed"} =>
       evidence.receipt = NoReceipt
  /\ visit.at \in {"close", "kill", "ended"} => evidence.receipt.status # "none"

VisualInv == VisitTypes /\ LineInv /\ AgeInv /\ ProgressInv /\ EvidenceIsHonest

LEMMA ViewFacts ==
  /\ Len(Views) \in Nat \ {0} /\ Versions \in Nat \ {0}
  /\ \A i \in 1..Len(Views) : Views[i].captured \in BOOLEAN
<1> DEFINE V == [theme : {"light", "dark"}, captured : BOOLEAN]
<1>1. Views \in Seq(V) /\ Views # <<>> /\ Versions \in Nat \ {0}
  BY VisualAssumption DEF VisualAssumption
<1>2. \A v \in V : v.captured \in BOOLEAN
  OBVIOUS
<1> HIDE DEF V
<1>3. Len(Views) \in Nat \ {0} /\ \A i \in 1..Len(Views) : Views[i] \in V
  BY <1>1
<1> QED
  BY <1>1, <1>2, <1>3

LEMMA VisitFacts ==
  ASSUME NEW v \in Visits, NEW s \in Stages
  PROVE  /\ [v EXCEPT !.at = s] \in Visits
         /\ [v EXCEPT !.at = s].at = s
         /\ [v EXCEPT !.at = s].view = v.view
         /\ [v EXCEPT !.at = s].of = v.of
         /\ [v EXCEPT !.at = s].shown = v.shown
         /\ [v EXCEPT !.at = s].metrics = v.metrics
BY DEF Visits

LEMMA ReceiptFacts ==
  ASSUME NEW sh \in SUBSET (1..Len(Views)), NEW b \in BOOLEAN,
         NEW st \in {"none", "pass", "fail", "skipped"}, NEW o \in 0..Versions,
         NEW f \in SUBSET (Defects \cup {"runtime"})
  PROVE  /\ [shots |-> sh, sheet |-> b,
              receipt |-> [status |-> st, of |-> o, found |-> f]] \in Sidecars
         /\ [status |-> st, of |-> o, found |-> f] \in Receipts
BY DEF Sidecars, Receipts

LEMMA VisitBegins ==
  ASSUME NEW v \in Visits, NEW s \in Stages, NEW o \in 0..Versions
  PROVE  [v EXCEPT !.at = s, !.of = o] \in Visits
BY DEF Visits

LEMMA NoReceiptFacts ==
  /\ NoReceipt \in Receipts /\ NoReceipt.status = "none"
  /\ [shots |-> {}, sheet |-> FALSE, receipt |-> NoReceipt] \in Sidecars
<1>1. NoReceipt \in Receipts /\ NoReceipt.status = "none"
  BY ViewFacts DEF Receipts, NoReceipt
<1> QED
  BY <1>1 DEF Sidecars

LEMMA VisualStarts == VisualInit => VisualInv
<1>1. SUFFICES ASSUME VisualInit PROVE VisualInv
  OBVIOUS
<1> USE ViewFacts
<1>2. NoReceipt \in Receipts
      /\ [status |-> "pass", of |-> 1, found |-> {}] \in Receipts
  BY DEF NoReceipt, Receipts
<1>3. evidence \in Sidecars
  BY <1>1, <1>2 DEF VisualInit, Sidecars
<1>4. visit \in Visits /\ Len(visit.metrics) <= Len(Views) /\ visit.at = "begin"
      /\ visit.view = 1 /\ visit.metrics = <<>>
  BY <1>1 DEF VisualInit, Visits, Stages
<1>5. pipe \in Seq(Answers) /\ pipe = <<>>
  BY <1>1 DEF VisualInit
<1>6. VisitTypes
  BY <1>1, <1>3, <1>4, <1>5 DEF VisualInit, VisitTypes
<1>7. LineInv /\ AgeInv /\ ProgressInv
  BY <1>1, <1>4, <1>5 DEF VisualInit, LineInv, AgeInv, ProgressInv, InView
<1>8. EvidenceIsHonest
  BY <1>4 DEF EvidenceIsHonest
<1> QED
  BY <1>6, <1>7, <1>8 DEF VisualInv

(* A check without a verdict yet claims nothing.                           *)
LEMMA NoVerdict ==
  ASSUME visit'.at # "ended", evidence'.receipt = NoReceipt
  PROVE  EvidenceIsHonest'
BY DEF EvidenceIsHonest, NoReceipt

LEMMA BrokenOff ==
  ASSUME evidence'.shots = {}, ~evidence'.sheet,
         evidence'.receipt.status \in {"fail", "skipped"},
         evidence'.receipt.status = "fail" => "runtime" \in evidence'.receipt.found
  PROVE  EvidenceIsHonest'
BY DEF EvidenceIsHonest

(* Steps that leave the evidence and the measures as they are.             *)
LEMMA SameVerdict ==
  ASSUME EvidenceIsHonest, visit.at # "begin", evidence' = evidence,
         visit'.metrics = visit.metrics,
         visit'.at = "ended" => evidence.receipt.status # "none"
  PROVE  EvidenceIsHonest'
BY DEF EvidenceIsHonest

LEMMA BeginKeeps ==
  ASSUME VisualInv, BeginCheck
  PROVE  VisualInv'
<1> USE ViewFacts
<1>0. /\ VisitTypes /\ LineInv /\ visit.at = "begin" /\ visit \in Visits
      /\ pipe = <<>> /\ visit.view = 1 /\ visit.metrics = <<>>
      /\ page \in 1..Versions /\ UNCHANGED <<page, pipe>>
  BY DEF VisualInv, BeginCheck, LineInv, VisitTypes
<1>1. CASE /\ visit' = [visit EXCEPT !.at = "attach", !.of = page]
           /\ line' = [line EXCEPT !.call = "attach"]
           /\ chrome' = "runs"
           /\ evidence' = [shots |-> {}, sheet |-> FALSE, receipt |-> NoReceipt]
  <2>1. /\ visit' \in Visits /\ visit'.at = "attach" /\ visit'.of = page
        /\ visit'.view = 1 /\ visit'.metrics = <<>>
    <3>1. "attach" \in Stages /\ page \in 0..Versions
      BY <1>0 DEF Stages, InView
    <3> QED
      BY <1>0, <1>1, <3>1, VisitBegins DEF Visits
  <2>2. evidence' \in Sidecars /\ evidence'.shots = {} /\ ~evidence'.sheet
        /\ evidence'.receipt = NoReceipt
    BY <1>1, NoReceiptFacts
  <2>3. VisitTypes'
    BY <1>0, <1>1, <2>1, <2>2 DEF VisitTypes, Calls
  <2>4. LineInv' /\ AgeInv'
    BY <1>0, <2>1 DEF LineInv, AgeInv, InBetween
  <2>5. ProgressInv'
    BY <2>1, <2>2 DEF ProgressInv, InView, CapturedUpto
  <2> QED
    BY <2>1, <2>2, <2>3, <2>4, <2>5, NoVerdict DEF VisualInv
<1>2. CASE /\ visit' = [visit EXCEPT !.at = "ended"]
           /\ evidence' = [shots |-> {}, sheet |-> FALSE,
                        receipt |-> [status |-> "skipped", of |-> page, found |-> {}]]
           /\ UNCHANGED <<line, chrome>>
  <2>1. visit' \in Visits /\ visit'.at = "ended" /\ visit'.metrics = <<>> /\ visit'.of = visit.of
    BY <1>0, <1>2, VisitFacts DEF Stages
  <2>2. /\ evidence' \in Sidecars /\ evidence'.shots = {} /\ ~evidence'.sheet
        /\ evidence'.receipt.status = "skipped"
    BY <1>0, <1>2 DEF Sidecars, Receipts
  <2>3. VisitTypes'
    BY <1>0, <1>2, <2>1, <2>2 DEF VisitTypes
  <2>4. LineInv'
    BY <1>0, <1>2, <2>1 DEF LineInv
  <2>5. AgeInv'
    BY <1>0, <2>1 DEF VisualInv, AgeInv, InBetween
  <2>6. ProgressInv'
    BY <2>1, <2>2 DEF ProgressInv, InView
  <2> QED
    BY <2>1, <2>2, <2>3, <2>4, <2>5, <2>6, BrokenOff DEF VisualInv
<1> QED
  BY <1>1, <1>2 DEF BeginCheck

(* What a step leaves when it only moves the coroutine to another point.   *)
LEMMA Moves ==
  ASSUME VisitTypes, NEW s \in Stages, visit' = [visit EXCEPT !.at = s]
  PROVE  /\ visit' \in Visits /\ Len(visit'.metrics) <= Len(Views)
         /\ visit'.at = s /\ visit'.view = visit.view /\ visit'.of = visit.of
         /\ visit'.shown = visit.shown /\ visit'.metrics = visit.metrics
BY VisitFacts DEF VisitTypes

LEMMA TailFacts ==
  ASSUME VisualInv, pipe # <<>>
  PROVE  /\ Head(pipe) \in Answers /\ InBetween(Head(pipe).of)
         /\ Tail(pipe) \in Seq(Answers)
         /\ \A i \in DOMAIN Tail(pipe) : InBetween(Tail(pipe)[i].of)
         /\ visit.at # "begin"
<1>1. pipe \in Seq(Answers) /\ \A i \in DOMAIN pipe : InBetween(pipe[i].of)
  BY DEF VisualInv, VisitTypes, AgeInv
<1>2. /\ 1 \in DOMAIN pipe /\ Head(pipe) = pipe[1] /\ Head(pipe) \in Answers
      /\ Tail(pipe) \in Seq(Answers)
      /\ \A i \in DOMAIN Tail(pipe) : i + 1 \in DOMAIN pipe /\ Tail(pipe)[i] = pipe[i + 1]
  BY <1>1
<1> QED
  BY <1>1, <1>2 DEF VisualInv, LineInv

LEMMA AnswersKeep ==
  ASSUME VisualInv, ChromeAnswers
  PROVE  VisualInv'
<1>1. /\ VisitTypes /\ LineInv /\ AgeInv /\ ProgressInv /\ EvidenceIsHonest
      /\ UNCHANGED <<page, visit, line, chrome, evidence>> /\ line.call # NoCall
  BY DEF VisualInv, ChromeAnswers
<1> DEFINE answer == [call |-> line.call, ok |-> TRUE, of |-> page]
           refusal == [answer EXCEPT !.ok = FALSE]
           loaded == [answer EXCEPT !.call = "loaded"]
<1>2. line.call \in Calls /\ page \in 0..Versions /\ pipe \in Seq(Answers)
  BY <1>1, ViewFacts DEF VisitTypes
<1>3. /\ answer \in Answers /\ refusal \in Answers /\ loaded \in Answers
      /\ answer.of = page /\ refusal.of = page /\ loaded.of = page
  BY <1>2 DEF Answers
<1>4. pipe' \in {Append(pipe, refusal), Append(pipe, answer),
                pipe \o <<answer, loaded>>, pipe \o <<loaded, answer>>}
  BY DEF ChromeAnswers
<1> HIDE DEF answer, refusal, loaded
<1>5. /\ pipe' \in Seq(Answers)
      /\ \A i \in DOMAIN pipe' : (i \in DOMAIN pipe /\ pipe'[i] = pipe[i]) \/ pipe'[i].of = page
  <2>1. CASE \E a \in Answers : a.of = page /\ pipe' = Append(pipe, a)
    BY <1>2, <2>1
  <2>2. CASE \E a, b \in Answers : a.of = page /\ b.of = page /\ pipe' = pipe \o <<a, b>>
    BY <1>2, <2>2
  <2> QED
    BY <1>3, <1>4, <2>1, <2>2
<1>6. visit.at # "begin" /\ visit.of <= page
  BY <1>1 DEF LineInv, AgeInv
<1>7. VisitTypes' /\ LineInv'
  BY <1>1, <1>5, <1>6 DEF VisitTypes, LineInv
<1>8. AgeInv'
  BY <1>1, <1>2, <1>5, <1>6 DEF AgeInv, InBetween
<1> QED
  BY <1>1, <1>7, <1>8 DEF VisualInv, ProgressInv, EvidenceIsHonest, View

LEMMA HangKeeps ==
  ASSUME VisualInv, ChromeHangs
  PROVE  VisualInv'
BY DEF VisualInv, ChromeHangs, VisitTypes, LineInv, AgeInv, InBetween, ProgressInv,
       EvidenceIsHonest, View

LEMMA RedeliverKeeps ==
  ASSUME VisualInv, Redeliver
  PROVE  VisualInv'
<1>1. /\ page \in Int /\ page < Versions /\ page' = page + 1 /\ page' \in 1..Versions
      /\ UNCHANGED <<visit, line, chrome, pipe, evidence>>
  BY ViewFacts DEF VisualInv, VisitTypes, Redeliver
<1>2. \A o \in 0..Versions : InBetween(o) => InBetween(o)'
  BY <1>1 DEF InBetween
<1>3. /\ \A i \in DOMAIN pipe : pipe[i].of \in 0..Versions
      /\ \A i \in DOMAIN visit.metrics : visit.metrics[i].of \in 0..Versions
      /\ visit.shown \in 0..Versions /\ visit.of \in 0..Versions
  <2>1. pipe \in Seq(Answers) /\ visit \in Visits
    BY DEF VisualInv, VisitTypes
  <2>2. visit.metrics \in Seq(Measure) /\ visit.shown \in 0..Versions /\ visit.of \in 0..Versions
    BY <2>1 DEF Visits
  <2>3. /\ \A i \in DOMAIN pipe : pipe[i] \in Answers
        /\ \A i \in DOMAIN visit.metrics : visit.metrics[i] \in Measure
    BY <2>1, <2>2
  <2>4. (\A a \in Answers : a.of \in 0..Versions) /\ \A m \in Measure : m.of \in 0..Versions
    BY DEF Answers, Measure
  <2> QED
    BY <2>2, <2>3, <2>4
<1>4. AgeInv'
  BY <1>1, <1>2, <1>3 DEF VisualInv, AgeInv, InBetween
<1> QED
  BY <1>1, <1>4 DEF VisualInv, VisitTypes, LineInv, ProgressInv, EvidenceIsHonest, View

LEMMA CloseKeeps ==
  ASSUME VisualInv, CloseBrowser
  PROVE  VisualInv'
<1>1. /\ VisitTypes /\ LineInv /\ AgeInv /\ ProgressInv /\ EvidenceIsHonest
      /\ visit.at = "close" /\ UNCHANGED <<page, line, pipe, evidence>>
      /\ evidence.receipt.status # "none" /\ line.call = NoCall
  BY DEF VisualInv, CloseBrowser, ProgressInv, LineInv
<1>2. chrome' \in {"none", "runs", "hangs", "ended"}
  BY <1>1 DEF CloseBrowser, VisitTypes
<1>3. PICK s \in {"uncaught", "ended", "kill"} :
        visit' = [visit EXCEPT !.at = s] /\ (s = "uncaught" => line.event = "waiting")
  BY DEF CloseBrowser, Uncaught
<1>4. /\ visit' \in Visits /\ Len(visit'.metrics) <= Len(Views)
      /\ visit'.at = s /\ visit'.view = visit.view /\ visit'.of = visit.of
      /\ visit'.shown = visit.shown /\ visit'.metrics = visit.metrics
  BY <1>1, <1>3, Moves DEF Stages
<1>5. VisitTypes' /\ LineInv'
  BY <1>1, <1>2, <1>3, <1>4 DEF VisitTypes, LineInv
<1>6. AgeInv' /\ ProgressInv'
  BY <1>1, <1>3, <1>4 DEF AgeInv, InBetween, ProgressInv, InView
<1>7. EvidenceIsHonest'
  BY <1>1, <1>4, SameVerdict
<1> QED
  BY <1>5, <1>6, <1>7 DEF VisualInv

LEMMA KillKeeps ==
  ASSUME VisualInv, KillBrowser
  PROVE  VisualInv'
<1>1. /\ VisitTypes /\ LineInv /\ AgeInv /\ ProgressInv /\ EvidenceIsHonest
      /\ visit.at = "kill" /\ UNCHANGED <<page, line, pipe, evidence>>
      /\ evidence.receipt.status # "none" /\ line.call = NoCall
      /\ visit' = [visit EXCEPT !.at = "ended"] /\ chrome' = "ended"
  BY DEF VisualInv, KillBrowser, ProgressInv, LineInv
<1>2. /\ visit' \in Visits /\ Len(visit'.metrics) <= Len(Views)
      /\ visit'.at = "ended" /\ visit'.view = visit.view /\ visit'.of = visit.of
      /\ visit'.shown = visit.shown /\ visit'.metrics = visit.metrics
  BY <1>1, Moves DEF Stages
<1>3. VisitTypes' /\ LineInv'
  BY <1>1, <1>2 DEF VisitTypes, LineInv
<1>4. AgeInv' /\ ProgressInv'
  BY <1>1, <1>2 DEF AgeInv, InBetween, ProgressInv, InView
<1>5. EvidenceIsHonest'
  BY <1>1, <1>2, SameVerdict
<1> QED
  BY <1>3, <1>4, <1>5 DEF VisualInv

(* A coroutine that goes to its catch: nothing has been reported yet.      *)
LEMMA Thrown ==
  ASSUME VisualInv, visit' = [visit EXCEPT !.at = "failed"],
         visit.at \in InView \cup {"capture", "finish"},
         line'.call = NoCall, line' \in [call : {NoCall} \cup Calls, event : {"none", "waiting", "fired"}],
         UNCHANGED page, evidence' \in Sidecars, evidence'.receipt = evidence.receipt,
         chrome' \in {"none", "runs", "hangs", "ended"},
         pipe' \in Seq(Answers), \A i \in DOMAIN pipe' : InBetween(pipe'[i].of)
  PROVE  VisualInv'
<1>1. VisitTypes /\ AgeInv /\ evidence.receipt = NoReceipt /\ "failed" \in Stages
  BY DEF VisualInv, ProgressInv, Stages
<1>2. /\ visit' \in Visits /\ Len(visit'.metrics) <= Len(Views)
      /\ visit'.at = "failed" /\ visit'.view = visit.view /\ visit'.of = visit.of
      /\ visit'.shown = visit.shown /\ visit'.metrics = visit.metrics
  BY <1>1, Moves
<1>3. VisitTypes'
  BY <1>1, <1>2 DEF VisitTypes
<1>4. LineInv'
  BY <1>2 DEF LineInv
<1>5. AgeInv' /\ ProgressInv'
  BY <1>1, <1>2 DEF AgeInv, InBetween, ProgressInv, InView
<1> QED
  BY <1>1, <1>2, <1>3, <1>4, <1>5, NoVerdict DEF VisualInv

(* An exception that nobody awaits ends the process where it is.           *)
LEMMA Escaped ==
  ASSUME VisualInv, visit.at # "begin", visit' = [visit EXCEPT !.at = "uncaught"],
         line.event = "waiting", UNCHANGED <<page, line, pipe>>,
         chrome' \in {"none", "runs", "hangs", "ended"},
         evidence' \in {evidence, Failing}
  PROVE  VisualInv'
<1>1. /\ VisitTypes /\ LineInv /\ AgeInv /\ EvidenceIsHonest /\ "uncaught" \in Stages
      /\ visit.of \in 0..Versions
  BY DEF VisualInv, Stages, VisitTypes, Visits
<1>2. /\ visit' \in Visits /\ Len(visit'.metrics) <= Len(Views)
      /\ visit'.at = "uncaught" /\ visit'.view = visit.view /\ visit'.of = visit.of
      /\ visit'.shown = visit.shown /\ visit'.metrics = visit.metrics
  BY <1>1, Moves
<1>3. Failing \in Sidecars
  BY <1>1, ReceiptFacts DEF Failing
<1>4. VisitTypes' /\ LineInv'
  BY <1>1, <1>2, <1>3 DEF VisitTypes, LineInv
<1>5. AgeInv' /\ ProgressInv'
  BY <1>1, <1>2 DEF AgeInv, InBetween, ProgressInv, InView
<1>6. EvidenceIsHonest'
  <2>1. CASE evidence' = evidence
    BY <1>1, <1>2, <2>1, SameVerdict
  <2>2. CASE evidence' = Failing
    BY <2>2, BrokenOff DEF Failing
  <2> QED
    BY <2>1, <2>2
<1> QED
  BY <1>4, <1>5, <1>6 DEF VisualInv

LEMMA AwaitingFacts ==
  ASSUME VisualInv, Awaiting
  PROVE  /\ visit.at # "begin"
         /\ \/ visit.at \in InView \cup {"capture"}
            \/ visit.at = "uncaught" /\ line.event = "waiting"
<1>1. visit.at \in Stages
  BY DEF VisualInv, VisitTypes, Visits
<1>2. visit.at \notin {"begin", "finish", "failed", "close", "kill", "ended"}
  BY DEF VisualInv, Awaiting, LineInv
<1>3. visit.at = "uncaught" => line.event = "waiting"
  BY DEF VisualInv, LineInv
<1>4. visit.at \in InView \cup {"capture", "uncaught"}
  BY <1>1, <1>2 DEF Stages
<1> QED
  BY <1>2, <1>3, <1>4

LEMMA EndsKeep ==
  ASSUME VisualInv, ChromeEnds
  PROVE  VisualInv'
<1>1. /\ VisitTypes /\ AgeInv /\ LineInv /\ Live /\ UNCHANGED <<page, pipe>>
      /\ chrome' \in {"none", "runs", "hangs", "ended"}
  BY DEF VisualInv, ChromeEnds, VisitTypes
<1>2. CASE ~Awaiting
  <2>1. UNCHANGED <<visit, line, evidence>>
    BY <1>2 DEF ChromeEnds
  <2> QED
    BY <1>1, <2>1 DEF VisualInv, VisitTypes, LineInv, AgeInv, InBetween, ProgressInv,
                      EvidenceIsHonest, View
<1>3. CASE Awaiting
  <2>1. FailAll /\ visit.at # "begin" /\ visit.at \in InView \cup {"capture"}
    BY <1>1, <1>3, AwaitingFacts DEF ChromeEnds, Live
  <2>2. CASE line.event = "waiting" /\ visit.at # "load"
    BY <1>1, <2>1, <2>2, Escaped DEF FailAll, Uncaught
  <2>3. CASE ~(line.event = "waiting" /\ visit.at # "load")
    <3>1. Throw("none") /\ UNCHANGED evidence
      BY <2>1, <2>3 DEF FailAll
    <3>2. line' \in [call : {NoCall} \cup Calls, event : {"none", "waiting", "fired"}]
          /\ line'.call = NoCall
      BY <3>1 DEF Throw
    <3>3. evidence' \in Sidecars /\ pipe' \in Seq(Answers)
          /\ \A i \in DOMAIN pipe' : InBetween(pipe'[i].of)
      BY <1>1, <3>1 DEF VisitTypes, AgeInv
    <3> QED
      BY <1>1, <2>1, <3>1, <3>2, <3>3, Thrown DEF Throw
  <2> QED
    BY <2>2, <2>3
<1> QED
  BY <1>2, <1>3

LEMMA TimeoutKeeps ==
  ASSUME VisualInv, TimesOut
  PROVE  VisualInv'
<1>0. Awaiting /\ UNCHANGED <<page, chrome, pipe, evidence>>
  BY DEF TimesOut
<1>1. /\ VisitTypes /\ AgeInv /\ LineInv /\ UNCHANGED <<page, chrome, pipe, evidence>>
      /\ chrome' \in {"none", "runs", "hangs", "ended"} /\ visit.at # "begin"
      /\ \/ visit.at \in InView \cup {"capture"}
         \/ visit.at = "uncaught" /\ line.event = "waiting"
  <2>1. /\ VisitTypes /\ AgeInv /\ LineInv
        /\ chrome' \in {"none", "runs", "hangs", "ended"}
    BY <1>0 DEF VisualInv, VisitTypes
  <2> QED
    BY <1>0, <2>1, AwaitingFacts
<1>2. CASE line.event = "waiting" /\ visit.at # "load"
  BY <1>1, <1>2, Escaped DEF TimesOut, Uncaught
<1>3. CASE ~(line.event = "waiting" /\ visit.at # "load")
  <2>1. Throw("none") /\ visit.at \in InView \cup {"capture"}
    BY <1>1, <1>3 DEF TimesOut
  <2>2. line' \in [call : {NoCall} \cup Calls, event : {"none", "waiting", "fired"}]
        /\ line'.call = NoCall
    BY <2>1 DEF Throw
  <2>3. evidence' \in Sidecars /\ pipe' \in Seq(Answers)
        /\ \A i \in DOMAIN pipe' : InBetween(pipe'[i].of)
    BY <1>1 DEF VisitTypes, AgeInv
  <2> QED
    BY <1>1, <2>1, <2>2, <2>3, Thrown DEF Throw
<1> QED
  BY <1>2, <1>3

LEMMA FailKeeps ==
  ASSUME VisualInv, FailCheck
  PROVE  VisualInv'
<1>1. /\ VisitTypes /\ LineInv /\ AgeInv /\ visit.at = "failed" /\ line.call = NoCall
      /\ UNCHANGED <<page, line, chrome, pipe>> /\ evidence' = Failing
      /\ visit' = [visit EXCEPT !.at = "close"] /\ visit.of \in 0..Versions
  BY DEF VisualInv, FailCheck, LineInv, VisitTypes, Visits
<1>2. /\ visit' \in Visits /\ Len(visit'.metrics) <= Len(Views)
      /\ visit'.at = "close" /\ visit'.view = visit.view /\ visit'.of = visit.of
      /\ visit'.shown = visit.shown /\ visit'.metrics = visit.metrics
  BY <1>1, Moves DEF Stages
<1>3. Failing \in Sidecars
  BY <1>1, ReceiptFacts DEF Failing
<1>4. VisitTypes' /\ LineInv'
  BY <1>1, <1>2, <1>3 DEF VisitTypes, LineInv
<1>5. AgeInv'
  BY <1>1, <1>2 DEF AgeInv, InBetween
<1>6. ProgressInv'
  BY <1>1, <1>2 DEF ProgressInv, InView, Failing
<1> QED
  BY <1>1, <1>4, <1>5, <1>6, BrokenOff DEF VisualInv, Failing

(* The verdict: every view was measured, on the page that is still there.  *)
LEMMA FinishKeeps ==
  ASSUME VisualInv, FinishCheck
  PROVE  VisualInv'
<1> USE ViewFacts
<1>1. /\ VisitTypes /\ LineInv /\ AgeInv /\ visit.at = "finish" /\ line.call = NoCall
      /\ UNCHANGED <<page, line, chrome, pipe>> /\ Len(visit.metrics) = Len(Views)
      /\ evidence.shots = CapturedUpto(Len(Views)) /\ evidence.receipt = NoReceipt
      /\ visit.of \in 0..Versions /\ visit.metrics \in Seq(Measure) /\ evidence \in Sidecars
      /\ pipe \in Seq(Answers) /\ \A i \in DOMAIN pipe : InBetween(pipe[i].of)
      /\ chrome \in {"none", "runs", "hangs", "ended"}
      /\ line \in [call : {NoCall} \cup Calls, event : {"none", "waiting", "fired"}]
  BY DEF VisualInv, FinishCheck, LineInv, VisitTypes, Visits, ProgressInv, AgeInv
<1>2. CASE visit' = [visit EXCEPT !.at = "failed"]
  <2>1. evidence' \in {evidence, [evidence EXCEPT !.sheet = TRUE]}
    <3>1. visit'.at = "failed"
      BY <1>1, <1>2, Moves DEF Stages
    <3>2. CASE UNCHANGED evidence
      BY <3>2
    <3>3. CASE visit' = [visit EXCEPT !.at = "close"]
      <4>1. visit'.at = "close"
        BY <1>1, <3>3, Moves DEF Stages
      <4> QED
        BY <3>1, <4>1
    <3> QED
      BY <3>2, <3>3 DEF FinishCheck
  <2>2. evidence' \in Sidecars /\ evidence'.receipt = evidence.receipt
    BY <1>1, <2>1 DEF Sidecars
  <2> QED
    BY <1>1, <1>2, <2>2, Thrown
<1>3. CASE /\ PageKept /\ visit' = [visit EXCEPT !.at = "close"]
           /\ evidence' = [evidence EXCEPT !.sheet = TRUE,
               !.receipt = [status |-> IF Findings(visit.metrics) = {} THEN "pass" ELSE "fail",
                            of |-> visit.of, found |-> Findings(visit.metrics)]]
  <2> DEFINE found == Findings(visit.metrics)
             status == IF found = {} THEN "pass" ELSE "fail"
  <2>1. found \in SUBSET Defects /\ "runtime" \notin Defects
    BY DEF Findings, Defects
  <2>2. \A i \in 1..Len(Views) : /\ visit.metrics[i] \in Measure
                                 /\ visit.metrics[i].of = visit.of
    <3>1. \A i \in 1..Len(Views) : /\ visit.metrics[i] \in Measure
                                   /\ InBetween(visit.metrics[i].of)
      BY <1>1 DEF AgeInv
    <3>2. page = visit.of
      BY <1>3 DEF PageKept
    <3>3. \A m \in Measure : m.of \in Int
      BY DEF Measure
    <3> QED
      BY <1>1, <3>1, <3>2, <3>3 DEF InBetween
  <2>3. found = {} => \A i \in 1..Len(Views) : visit.metrics[i].as \in
           IF Views[i].theme = "light" THEN {"fine"} ELSE {"fine", "tiny"}
    <3>1. \A m \in Measure : m.as \in {"fine", "overflow", "dock", "tiny"}
      BY DEF Measure, Measured, Defects
    <3>2. 1..Len(Views) = DOMAIN visit.metrics
      BY <1>1
    <3> QED
      BY <2>2, <3>1, <3>2 DEF Findings, Defects
  <2>4. evidence.shots = {i \in 1..Len(Views) : Views[i].captured}
    BY <1>1 DEF CapturedUpto
  <2> HIDE DEF found
  <2>5. [status |-> status, of |-> visit.of, found |-> found] \in Receipts
    BY <1>1, <2>1 DEF Receipts
  <2>6. /\ evidence' \in Sidecars /\ evidence'.shots = evidence.shots
        /\ evidence'.receipt = [status |-> status, of |-> visit.of, found |-> found]
    BY <1>1, <1>3, <2>5 DEF Sidecars, found
  <2>7. /\ visit' \in Visits /\ Len(visit'.metrics) <= Len(Views)
        /\ visit'.at = "close" /\ visit'.view = visit.view /\ visit'.of = visit.of
        /\ visit'.shown = visit.shown /\ visit'.metrics = visit.metrics
    BY <1>1, <1>3, Moves DEF Stages
  <2>8. VisitTypes' /\ LineInv'
    BY <1>1, <2>6, <2>7 DEF VisitTypes, LineInv
  <2>9. AgeInv' /\ ProgressInv'
    BY <1>1, <2>6, <2>7 DEF AgeInv, InBetween, ProgressInv, InView
  <2>10. /\ evidence'.receipt.found = found /\ evidence'.receipt.of = visit.of
         /\ evidence'.receipt.status = "pass" => found = {}
         /\ evidence'.receipt.status \in {"pass", "fail"}
         /\ evidence'.receipt.status = "fail" => found # {}
    BY <2>6
  <2>11. EvidenceIsHonest'
    BY <1>1, <2>1, <2>2, <2>3, <2>4, <2>6, <2>7, <2>10 DEF EvidenceIsHonest
  <2> QED
    BY <2>8, <2>9, <2>11 DEF VisualInv
<1> QED
  BY <1>2, <1>3 DEF FinishCheck

(* The coroutine goes on inside a view, or to its end: what it has         *)
(* measured, captured and written is what its position says.               *)
LEMMA GoesOn ==
  ASSUME VisualInv, UNCHANGED <<page, chrome>>,
         visit' \in Visits, Len(visit'.metrics) <= Len(Views),
         line' \in [call : {NoCall} \cup Calls, event : {"none", "waiting", "fired"}],
         pipe' \in Seq(Answers), \A i \in DOMAIN pipe' : InBetween(pipe'[i].of),
         evidence' \in Sidecars, evidence'.receipt = NoReceipt, ~evidence'.sheet,
         visit'.of = visit.of,
         visit'.at \in {"load", "settle", "measure"} => InBetween(visit'.shown),
         visit'.at \in InView \cup {"capture", "finish"},
         visit'.at = "finish" => line'.call = NoCall,
         \A i \in DOMAIN visit'.metrics : InBetween(visit'.metrics[i].of),
         ProgressInv'
  PROVE  VisualInv'
<1>1. VisitTypes'
  BY DEF VisualInv, VisitTypes
<1>2. LineInv' /\ AgeInv'
  BY DEF VisualInv, LineInv, AgeInv, InBetween, InView
<1>3. EvidenceIsHonest'
  BY NoVerdict DEF InView
<1> QED
  BY <1>1, <1>2, <1>3 DEF VisualInv

(* Where the coroutine is when the answer of its call has arrived.         *)
LEMMA AtCall ==
  ASSUME VisualInv, line.call # NoCall, Live
  PROVE  visit.at \in InView \cup {"capture"}
BY AwaitingFacts DEF Awaiting, Live

LEMMA ShownBetween ==
  ASSUME VisualInv, visit.at \in {"settle", "measure", "load"}
  PROVE  InBetween(visit.shown)
BY DEF VisualInv, AgeInv

(* An answer, its view goes on: nothing is written until a picture is.     *)
LEMMA ResumeKeeps ==
  ASSUME VisualInv, Consume, line.call # NoCall, Resume
  PROVE  VisualInv'
<1> USE ViewFacts
<1>1. /\ VisitTypes /\ ProgressInv /\ AgeInv /\ visit \in Visits /\ evidence \in Sidecars
      /\ visit.at \in InView \cup {"capture"} /\ evidence.receipt = NoReceipt /\ ~evidence.sheet
      /\ visit.metrics \in Seq(Measure) /\ visit.view \in 1..Len(Views)
      /\ Len(visit.metrics) <= Len(Views) /\ visit.shown \in 0..Versions
      /\ \A i \in DOMAIN visit.metrics : InBetween(visit.metrics[i].of)
      /\ line \in [call : {NoCall} \cup Calls, event : {"none", "waiting", "fired"}]
  BY AtCall DEF VisualInv, VisitTypes, Visits, ProgressInv, AgeInv, Consume
<1>2. /\ pipe # <<>> /\ pipe' = Tail(pipe) /\ UNCHANGED <<page, chrome>>
      /\ pipe' \in Seq(Answers) /\ \A i \in DOMAIN pipe' : InBetween(pipe'[i].of)
      /\ Head(pipe).of \in 0..Versions /\ InBetween(Head(pipe).of)
  BY TailFacts DEF Consume, Answers
<1>3. \A o \in 0..Versions : InBetween(o) => visit.of <= o /\ o <= page
  BY DEF InBetween
\* To another point of the same view.
<1>4. ASSUME NEW s \in InView, NEW e \in {"none", "waiting", "fired"},
             visit.at \in InView, CallAt(s, e), s \in Calls, UNCHANGED evidence,
             s \in {"load", "settle", "measure"} => InBetween(visit.shown)
      PROVE  VisualInv'
  <2>1. /\ visit' \in Visits /\ visit'.at = s /\ visit'.view = visit.view
        /\ visit'.of = visit.of /\ visit'.shown = visit.shown /\ visit'.metrics = visit.metrics
    BY <1>1, <1>4, Moves DEF CallAt, Stages
  <2>2. line' \in [call : {NoCall} \cup Calls, event : {"none", "waiting", "fired"}]
    BY <1>4 DEF CallAt
  <2>3. ProgressInv'
    BY <1>1, <1>4, <2>1 DEF ProgressInv, InView
  <2>4. s \notin {"finish"}
    BY <1>4 DEF InView
  <2>5. /\ visit'.at \in {"load", "settle", "measure"} => InBetween(visit'.shown)
        /\ visit'.at \in InView \cup {"capture", "finish"}
        /\ visit'.at = "finish" => line'.call = NoCall
        /\ \A i \in DOMAIN visit'.metrics : InBetween(visit'.metrics[i].of)
    BY <1>1, <1>4, <2>1, <2>4
  <2>6. evidence' \in Sidecars /\ evidence'.receipt = NoReceipt /\ ~evidence'.sheet
        /\ Len(visit'.metrics) <= Len(Views)
    BY <1>1, <1>4, <2>1
  <2> QED
    BY <1>2, <2>1, <2>2, <2>3, <2>5, <2>6, GoesOn
\* To the next view or the verdict.
<1>5. ASSUME NEW metrics \in Seq(Measure), NextView(metrics), Len(metrics) = visit.view,
             \A i \in DOMAIN metrics : InBetween(metrics[i].of),
             evidence' \in Sidecars, evidence'.receipt = NoReceipt, ~evidence'.sheet,
             evidence'.shots = CapturedUpto(visit.view)
      PROVE  VisualInv'
  <2>1. CASE visit.view < Len(Views)
    <3>1. /\ visit' = [visit EXCEPT !.at = "emulate", !.view = @ + 1, !.metrics = metrics]
          /\ line' = [line EXCEPT !.call = "emulate"]
      BY <1>5, <2>1 DEF NextView
    <3>2. "emulate" \in Stages /\ visit.view + 1 \in 1..Len(Views)
      BY <1>1, <2>1 DEF Stages, InView
    <3>3. /\ visit' \in Visits /\ visit'.at = "emulate" /\ visit'.view = visit.view + 1
          /\ visit'.of = visit.of /\ visit'.metrics = metrics
      BY <1>1, <1>5, <3>1, <3>2 DEF Visits
    <3>4. line' \in [call : {NoCall} \cup Calls, event : {"none", "waiting", "fired"}]
      BY <1>1, <3>1 DEF Calls
    <3>5. ProgressInv'
      BY <1>1, <1>5, <3>3 DEF ProgressInv, InView
    <3>6. /\ Len(visit'.metrics) <= Len(Views)
          /\ visit'.at \in InView \cup {"capture", "finish"}
          /\ visit'.at \notin {"load", "settle", "measure", "finish"}
          /\ \A i \in DOMAIN visit'.metrics : InBetween(visit'.metrics[i].of)
      BY <1>1, <1>5, <3>3 DEF InView
    <3> QED
      BY <1>2, <1>5, <3>3, <3>4, <3>5, <3>6, GoesOn
  <2>2. CASE ~(visit.view < Len(Views))
    <3>1. /\ visit' = [visit EXCEPT !.at = "finish", !.metrics = metrics]
          /\ line' = [line EXCEPT !.call = NoCall] /\ visit.view = Len(Views)
      BY <1>1, <1>5, <2>2 DEF NextView
    <3>2. "finish" \in Stages
      BY DEF Stages
    <3>3. /\ visit' \in Visits /\ visit'.at = "finish" /\ visit'.view = visit.view
          /\ visit'.of = visit.of /\ visit'.metrics = metrics
      BY <1>1, <1>5, <3>1, <3>2 DEF Visits
    <3>4. /\ line' \in [call : {NoCall} \cup Calls, event : {"none", "waiting", "fired"}]
          /\ line'.call = NoCall
      BY <1>1, <3>1
    <3>5. ProgressInv'
      BY <1>1, <1>5, <3>1, <3>3 DEF ProgressInv, InView
    <3>6. /\ Len(visit'.metrics) <= Len(Views)
          /\ visit'.at \in InView \cup {"capture", "finish"}
          /\ visit'.at \notin {"load", "settle", "measure"}
          /\ \A i \in DOMAIN visit'.metrics : InBetween(visit'.metrics[i].of)
      BY <1>1, <1>5, <3>1, <3>3
    <3> QED
      BY <1>2, <1>5, <3>3, <3>4, <3>5, <3>6, GoesOn
  <2> QED
    BY <2>1, <2>2
<1>6. CASE visit.at = "attach" /\ CallAt("emulate", "none") /\ UNCHANGED evidence
  BY <1>4, <1>6 DEF InView, Calls
<1>7. CASE visit.at = "emulate" /\ CallAt("navigate", "waiting") /\ UNCHANGED evidence
  BY <1>4, <1>7 DEF InView, Calls
<1>8. CASE visit.at = "settle" /\ CallAt("measure", "none") /\ UNCHANGED evidence
  BY <1>4, <1>8, ShownBetween DEF InView, Calls
<1>9. CASE /\ visit.at = "navigate"
           /\ visit' = [visit EXCEPT !.shown = Head(pipe).of,
                   !.at = IF line.event = "fired" THEN "settle" ELSE "load"]
           /\ line' = IF line.event = "fired" THEN [call |-> "settle", event |-> "none"]
                ELSE [line EXCEPT !.call = NoCall]
           /\ UNCHANGED evidence
  <2>1. PICK s \in {"settle", "load"} : visit' = [visit EXCEPT !.shown = Head(pipe).of, !.at = s]
    BY <1>9
  <2>2. s \in Stages /\ s \in InView
    BY <2>1 DEF Stages, InView
  <2>3. /\ visit' \in Visits /\ visit'.at = s /\ visit'.view = visit.view
        /\ visit'.of = visit.of /\ visit'.shown = Head(pipe).of /\ visit'.metrics = visit.metrics
    BY <1>1, <1>2, <2>1, <2>2 DEF Visits
  <2>4. line' \in [call : {NoCall} \cup Calls, event : {"none", "waiting", "fired"}]
    BY <1>1, <1>9 DEF Calls
  <2>5. ProgressInv'
    BY <1>1, <1>9, <2>1, <2>3 DEF ProgressInv, InView
  <2>6. /\ InBetween(visit'.shown) /\ Len(visit'.metrics) <= Len(Views)
        /\ visit'.at \in InView \cup {"capture", "finish"} /\ visit'.at # "finish"
        /\ \A i \in DOMAIN visit'.metrics : InBetween(visit'.metrics[i].of)
    BY <1>1, <1>2, <2>1, <2>2, <2>3
  <2>7. evidence' \in Sidecars /\ evidence'.receipt = NoReceipt /\ ~evidence'.sheet
    BY <1>1, <1>9
  <2> QED
    BY <1>2, <2>3, <2>4, <2>5, <2>6, <2>7, GoesOn
<1>10. ASSUME visit.at = "measure", UNCHANGED evidence, NEW m \in Measured,
              LET metrics == Append(visit.metrics, [as |-> m, of |-> visit.shown]) IN
              IF Captured(View)
              THEN /\ visit' = [visit EXCEPT !.at = "capture", !.metrics = metrics]
                   /\ line' = [line EXCEPT !.call = "capture"]
              ELSE NextView(metrics)
       PROVE  VisualInv'
  <2> DEFINE one == [as |-> m, of |-> visit.shown]
             metrics == Append(visit.metrics, one)
  <2>1. one \in Measure /\ one.of = visit.shown /\ InBetween(visit.shown)
    BY <1>1, <1>10, ShownBetween DEF Measure
  <2>2. Len(visit.metrics) = visit.view - 1 /\ evidence.shots = CapturedUpto(visit.view - 1)
    BY <1>1, <1>10 DEF ProgressInv, InView
  <2>3. IF Captured(View)
        THEN /\ visit' = [visit EXCEPT !.at = "capture", !.metrics = metrics]
             /\ line' = [line EXCEPT !.call = "capture"]
        ELSE NextView(metrics)
    BY <1>10
  <2> HIDE DEF one
  <2>4. /\ metrics \in Seq(Measure) /\ Len(metrics) = visit.view
        /\ \A i \in DOMAIN metrics : InBetween(metrics[i].of)
    <3>1. /\ metrics \in Seq(Measure) /\ Len(metrics) = visit.view
          /\ \A i \in DOMAIN metrics : \/ i \in DOMAIN visit.metrics /\ metrics[i] = visit.metrics[i]
                                     \/ metrics[i] = one
      BY <1>1, <2>1, <2>2
    <3> QED
      BY <1>1, <2>1, <3>1
  <2> HIDE DEF metrics
  <2>5. CASE Captured(View)
    <3>1. "capture" \in Stages
      BY DEF Stages
    <3>2. /\ visit' \in Visits /\ visit'.at = "capture" /\ visit'.view = visit.view
          /\ visit'.of = visit.of /\ visit'.metrics = metrics
      BY <1>1, <2>3, <2>4, <2>5, <3>1 DEF Visits
    <3>3. line' \in [call : {NoCall} \cup Calls, event : {"none", "waiting", "fired"}]
      BY <1>1, <2>3, <2>5 DEF Calls
    <3>4. ProgressInv'
      BY <1>1, <1>10, <2>2, <2>4, <2>5, <3>2 DEF ProgressInv, InView, View, Captured
    <3>5. /\ Len(visit'.metrics) <= Len(Views)
          /\ visit'.at \in InView \cup {"capture", "finish"}
          /\ visit'.at \notin {"load", "settle", "measure", "finish"}
          /\ \A i \in DOMAIN visit'.metrics : InBetween(visit'.metrics[i].of)
      BY <1>1, <2>4, <3>2
    <3>6. evidence' \in Sidecars /\ evidence'.receipt = NoReceipt /\ ~evidence'.sheet
      BY <1>1, <1>10
    <3> QED
      BY <1>2, <3>2, <3>3, <3>4, <3>5, <3>6, GoesOn
  <2>6. CASE ~Captured(View)
    <3>1. evidence'.shots = CapturedUpto(visit.view)
      BY <1>1, <1>10, <2>2, <2>6 DEF CapturedUpto, View, Captured
    <3> QED
      BY <1>1, <1>5, <1>10, <2>3, <2>4, <2>6, <3>1
  <2> QED
    BY <2>5, <2>6
<1>11. CASE /\ visit.at = "capture" /\ NextView(visit.metrics)
            /\ evidence' = [evidence EXCEPT !.shots = @ \cup {visit.view}]
  <2>1. /\ Len(visit.metrics) = visit.view /\ evidence.shots = CapturedUpto(visit.view - 1)
        /\ Views[visit.view].captured
    BY <1>1, <1>11 DEF ProgressInv, View, Captured
  <2>2. /\ evidence' \in Sidecars /\ evidence'.receipt = NoReceipt /\ ~evidence'.sheet
        /\ evidence'.shots = evidence.shots \cup {visit.view}
    BY <1>1, <1>11 DEF Sidecars
  <2>3. evidence'.shots = CapturedUpto(visit.view)
    BY <1>1, <2>1, <2>2 DEF CapturedUpto
  <2> QED
    BY <1>1, <1>5, <1>11, <2>1, <2>2, <2>3
<1> QED
  BY <1>6, <1>7, <1>8, <1>9, <1>10, <1>11 DEF Resume

LEMMA ConsumeKeeps ==
  ASSUME VisualInv, Consume
  PROVE  VisualInv'
<1> DEFINE m == Head(pipe)
<1>1. /\ VisitTypes /\ LineInv /\ AgeInv /\ ProgressInv /\ EvidenceIsHonest
      /\ pipe # <<>> /\ pipe' = Tail(pipe) /\ UNCHANGED <<page, chrome>>
      /\ visit.at # "begin" /\ Live
      /\ line \in [call : {NoCall} \cup Calls, event : {"none", "waiting", "fired"}]
      /\ evidence \in Sidecars /\ chrome' \in {"none", "runs", "hangs", "ended"}
  BY TailFacts DEF VisualInv, Consume, VisitTypes
<1>2. /\ pipe' \in Seq(Answers) /\ \A i \in DOMAIN pipe' : InBetween(pipe'[i].of)
      /\ m.call \in Calls \cup {"loaded"}
  BY <1>1, TailFacts DEF Answers
<1>3. NoCall \notin Calls \cup {"loaded"}
  BY DEF NoCall, Calls
\* A message that moves nothing, or only fires the event.
<1>4. ASSUME UNCHANGED <<visit, evidence>>,
             line' \in {line, [line EXCEPT !.event = "fired"]},
             line' # line => line.event = "waiting"
      PROVE  VisualInv'
  <2>1. /\ line' \in [call : {NoCall} \cup Calls, event : {"none", "waiting", "fired"}]
        /\ line'.call = line.call
    BY <1>1, <1>4
  <2>2. visit.at # "uncaught"
    BY <1>1 DEF Live
  <2>3. VisitTypes' /\ LineInv'
    BY <1>1, <1>2, <1>4, <2>1, <2>2 DEF VisitTypes, LineInv
  <2>4. AgeInv'
    BY <1>1, <1>2, <1>4 DEF AgeInv, InBetween
  <2>5. ProgressInv' /\ EvidenceIsHonest'
    BY <1>1, <1>4 DEF ProgressInv, EvidenceIsHonest, View
  <2> QED
    BY <2>3, <2>4, <2>5 DEF VisualInv
<1>5. CASE /\ m.call = "loaded"
           /\ IF line.event # "waiting" THEN UNCHANGED <<visit, line>>
              ELSE IF visit.at = "load" THEN CallAt("settle", "none")
              ELSE line' = [line EXCEPT !.event = "fired"] /\ UNCHANGED visit
           /\ UNCHANGED evidence
  <2>1. CASE line.event # "waiting" \/ visit.at # "load"
    BY <1>4, <1>5, <2>1
  <2>2. CASE line.event = "waiting" /\ visit.at = "load"
    <3>1. CallAt("settle", "none") /\ UNCHANGED evidence /\ "settle" \in Stages
      BY <1>5, <2>2 DEF Stages, InView
    <3>2. /\ visit' \in Visits /\ visit'.at = "settle" /\ visit'.view = visit.view
          /\ visit'.of = visit.of /\ visit'.shown = visit.shown /\ visit'.metrics = visit.metrics
          /\ Len(visit'.metrics) <= Len(Views)
      BY <1>1, <3>1, Moves DEF CallAt
    <3>3. line' \in [call : {NoCall} \cup Calls, event : {"none", "waiting", "fired"}]
      BY <3>1 DEF CallAt, Calls
    <3>4. ProgressInv' /\ evidence'.receipt = NoReceipt /\ ~evidence'.sheet
      BY <1>1, <2>2, <3>1, <3>2 DEF ProgressInv, InView
    <3>5. InBetween(visit'.shown)
      BY <2>2, <3>2, ShownBetween
    <3>6. /\ visit'.at \in InView \cup {"capture", "finish"} /\ visit'.at # "finish"
          /\ \A i \in DOMAIN visit'.metrics : InBetween(visit'.metrics[i].of)
      BY <1>1, <3>2 DEF InView, AgeInv
    <3> QED
      BY <1>1, <1>2, <3>1, <3>2, <3>3, <3>4, <3>5, <3>6, GoesOn
  <2> QED
    BY <2>1, <2>2
<1>6. CASE m.call \notin {line.call, "loaded"} /\ UNCHANGED <<visit, line, evidence>>
  BY <1>4, <1>6
<1>7. CASE m.call = line.call /\ m.call # "loaded" /\ ~ m.ok /\ Throw(line.event) /\ UNCHANGED evidence
  <2>1. line.call # NoCall
    BY <1>2, <1>3, <1>7
  <2>2. visit.at \in InView \cup {"capture"}
    BY <1>1, <2>1, AtCall
  <2>3. /\ line' \in [call : {NoCall} \cup Calls, event : {"none", "waiting", "fired"}]
        /\ line'.call = NoCall /\ visit' = [visit EXCEPT !.at = "failed"]
    BY <1>1, <1>7 DEF Throw
  <2> QED
    BY <1>1, <1>2, <1>7, <2>2, <2>3, Thrown
<1>8. CASE m.call = line.call /\ m.call # "loaded" /\ m.ok /\ Resume
  BY <1>2, <1>3, <1>8, ResumeKeeps
<1> QED
  BY <1>5, <1>6, <1>7, <1>8 DEF Consume

LEMMA VisualKeeps ==
  ASSUME VisualInv, [VisualNext]_visualVars
  PROVE  VisualInv'
<1>1. CASE UNCHANGED visualVars
  BY <1>1 DEF visualVars, VisualInv, VisitTypes, LineInv, AgeInv, InBetween, ProgressInv,
              EvidenceIsHonest, View
<1>2. CASE VisualNext
  BY <1>2, BeginKeeps, AnswersKeep, ConsumeKeeps, HangKeeps, EndsKeep, TimeoutKeeps,
     FinishKeeps, FailKeeps, CloseKeeps, KillKeeps, RedeliverKeeps DEF VisualNext
<1> QED
  BY <1>1, <1>2

(* The types that a run checks: as many measures as views at the most.     *)
LEMMA VisualImplies == VisualInv => VisualTypes /\ EvidenceIsHonest
<1>1. SUFFICES ASSUME VisualInv PROVE VisualTypes
  BY DEF VisualInv
<1>2. /\ page \in 1..Versions /\ visit \in Visits /\ Len(visit.metrics) <= Len(Views)
      /\ line \in [call : {NoCall} \cup Calls, event : {"none", "waiting", "fired"}]
      /\ chrome \in {"none", "runs", "hangs", "ended"} /\ evidence \in Sidecars
  BY <1>1 DEF VisualInv, VisitTypes
<1> DEFINE n == Len(visit.metrics)
           Metrics == UNION {[1..k -> [as : Measured, of : 0..Versions]] : k \in 0..Len(Views)}
<1>3. n \in 0..Len(Views) /\ visit.metrics \in [1..n -> [as : Measured, of : 0..Versions]]
  <2>1. visit.metrics \in Seq(Measure)
    BY <1>2 DEF Visits
  <2>2. n \in Nat /\ visit.metrics \in [1..n -> Measure]
    BY <2>1
  <2> QED
    BY <1>2, <2>2, ViewFacts DEF Measure
<1>4. visit.metrics \in Metrics
  BY <1>3
<1> HIDE DEF Metrics, n
<1>5. visit \in [at : {"begin", "attach", "emulate", "navigate", "load", "settle",
                      "measure", "capture", "finish", "failed", "close", "kill",
                      "ended", "uncaught"},
                view : 1..Len(Views), of : 0..Versions, shown : 0..Versions,
                metrics : Metrics]
  BY <1>2, <1>4 DEF Visits, Stages, InView
<1>6. evidence.shots \subseteq 1..Len(Views) /\ evidence.sheet \in BOOLEAN
  BY <1>2 DEF Sidecars
<1> QED
  BY <1>2, <1>5, <1>6 DEF VisualTypes, Metrics

LEMMA VisualInvariance == VisualSpec => []VisualInv
<1>1. VisualInit => VisualInv
  BY VisualStarts
<1>2. VisualInv /\ [VisualNext]_visualVars => VisualInv'
  BY VisualKeeps
<1> QED
  BY <1>1, <1>2, PTL DEF VisualSpec

(* The evidence beside a page is of every view of the one page whose hash  *)
(* it names and no better than what was seen, however Chrome answers,      *)
(* hangs or ends and whoever delivers another page meanwhile               *)
(* (runVisualCheck of bin/visual-check.mjs).                               *)
THEOREM VisualCheckIsHonest == VisualSpec => [](VisualTypes /\ EvidenceIsHonest)
BY VisualInvariance, VisualImplies, PTL

-----------------------------------------------------------------------------
(* The tool as a whole.                                                    *)
(* The commands' invariant is about the commands' inputs too, which are    *)
(* only there when commands are at work.                                   *)
ArchifyInv ==
  /\ PreviewInv /\ VisualInv
  /\ tool = "commands" => CommandsInv
  /\ OutputsSafe

LEMMA IdleCommands ==
  ASSUME file = [p \in Targets |-> NoFile], job = [j \in Jobs |-> NoJob]
  PROVE  OutputsSafe
<1>1. \A j \in Jobs : job[j].at = "absent" /\ job[j].result = "none"
  BY DEF NoJob
<1>2. \A p \in Targets : file[p] \in Found
  BY DEF Found
<1> QED
  BY <1>1, <1>2 DEF OutputsSafe, OutputsTrusted, PairIsWhole

LEMMA ArchifyStarts == ArchifyInit => ArchifyInv
<1>1. SUFFICES ASSUME ArchifyInit PROVE ArchifyInv
  OBVIOUS
<1>2. PreviewInv /\ VisualInv
  BY <1>1, PreviewStarts, VisualStarts DEF ArchifyInit
<1>3. CASE tool = "commands"
  <2>1. CommandsInv
    BY <1>1, <1>3, CommandsStart DEF ArchifyInit
  <2> QED
    BY <1>2, <2>1, CommandsImply DEF ArchifyInv, OutputsSafe
<1>4. CASE tool # "commands"
  BY <1>1, <1>2, <1>4, IdleCommands DEF ArchifyInit, ArchifyInv
<1> QED
  BY <1>3, <1>4

LEMMA IdleKeep ==
  ASSUME OutputsSafe, UNCHANGED commandVars
  PROVE  OutputsSafe' /\ (CommandsInv => CommandsInv')
<1>1. CommandsInv => CommandsInv'
  BY CommandsKeep
<1> QED
  BY <1>1 DEF commandVars, OutputsSafe, OutputsTrusted, PairIsWhole, Alone, TargetOf

LEMMA ArchifyKeeps ==
  ASSUME ArchifyInv, [ArchifyNext]_archifyVars
  PROVE  ArchifyInv'
<1>1. [PreviewNext]_previewVars /\ [VisualNext]_visualVars
  BY DEF ArchifyNext, archifyVars, OnlyUpdate, OnlyPreview, OnlyCommands, OnlyVisual, Compute
<1>2. PreviewInv' /\ VisualInv'
  BY <1>1, PreviewKeeps, VisualKeeps DEF ArchifyInv
<1>3. CASE UNCHANGED commandVars
  <2>1. tool' = "commands" => tool = "commands"
    BY DEF ArchifyNext, archifyVars, OnlyUpdate, OnlyPreview, OnlyCommands, OnlyVisual, Compute
  <2> QED
    BY <1>2, <1>3, <2>1, IdleKeep DEF ArchifyInv
<1>4. CASE OnlyCommands /\ CommandsNext
  <2>1. CommandsInv'
    BY <1>4, CommandsKeep DEF ArchifyInv, OnlyCommands
  <2>2. CommandsInv' => (OutputsTrusted /\ PairIsWhole)'
    BY CommandsImply, PTL
  <2> QED
    BY <1>2, <2>1, <2>2 DEF ArchifyInv, OutputsSafe
<1> QED
  BY <1>3, <1>4 DEF ArchifyNext, archifyVars, OnlyUpdate, OnlyPreview, OnlyVisual, Compute

LEMMA ArchifyInvariance == ArchifySpec => []ArchifyInv
<1>1. ArchifyInit => ArchifyInv
  BY ArchifyStarts
<1>2. ArchifyInv /\ [ArchifyNext]_archifyVars => ArchifyInv'
  BY ArchifyKeeps
<1> QED
  BY <1>1, <1>2, PTL DEF ArchifySpec

(* What the tool shows is true: at rest a preview shows what its source    *)
(* is worth (bin/preview.mjs), and the evidence of a visual check is of    *)
(* every view of the page whose hash it names, and no better than what was *)
(* seen (bin/visual-check.mjs).                                            *)
THEOREM ToolShowsTheTruth == ArchifySpec => []ShownIsTrue
<1>1. ArchifyInv => ShownIsTrue
  BY VisualImplies DEF ArchifyInv, ShownIsTrue, PreviewInv, RestsOnTheTruth, AtRest, Verdict
<1> QED
  BY <1>1, ArchifyInvariance, PTL

(* What lies at a target was found there or has passed the checks, success *)
(* is reported for the bytes that were read, and a comparison's pair is    *)
(* whole or can be put together again, whatever the others do, fails or is *)
(* killed (bin/archify.mjs).                                               *)
THEOREM OutputsStaySafe == ArchifySpec => []OutputsSafe
<1>1. ArchifyInv => OutputsSafe
  BY DEF ArchifyInv
<1> QED
  BY <1>1, ArchifyInvariance, PTL
=============================================================================
