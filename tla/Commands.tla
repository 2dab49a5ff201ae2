------------------------------ MODULE Commands ------------------------------
(***************************************************************************)
(* The commands of the diagram tool that read authored files and commit    *)
(* verified ones (bin/archify.mjs): deliver, compare, migrate, validate.   *)
(* Each invocation is a process of its own; between its steps the author   *)
(* edits the inputs and other invocations commit to the same targets.  An  *)
(* invocation works in a staging directory beside its targets; only the    *)
(* renames out of it, and for compare the renames into it, are seen by     *)
(* others.  A text stands for the bytes of an input, a file for what lies  *)
(* at a target path.                                                       *)
(***************************************************************************)
EXTENDS Sequences, SequencesExt, FiniteSets

CONSTANTS
  Jobs, KindOf,          \* invocations and their commands
  InputsOf, TargetsOf,   \* the paths they are given
  Teams,                 \* which invocations run beside each other
  Texts,
  Rendered,              \* texts that the renderer accepts
  Sound                  \* texts whose artifact passes check-render-output

Inputs == UNION {Range(InputsOf[j]) : j \in Jobs}
Targets == UNION {Range(TargetsOf[j]) : j \in Jobs}

ASSUME CommandsAssumption ==
  /\ KindOf \in [Jobs -> {"deliver", "compare", "migrate", "validate"}]
  /\ \A j \in Jobs : /\ InputsOf[j] \in Seq(Range(InputsOf[j]))
                     /\ TargetsOf[j] \in Seq(Range(TargetsOf[j]))
  /\ \A j \in Jobs : Len(TargetsOf[j]) =
       CASE KindOf[j] = "compare" -> 2 [] KindOf[j] = "validate" -> 0 [] OTHER -> 1
  \* resolveOutputPath refuses the page of a comparison as its receipt
  /\ \A j \in Jobs : KindOf[j] = "compare" => TargetsOf[j][1] # TargetsOf[j][2]
  /\ \A j \in Jobs : Len(InputsOf[j]) = IF KindOf[j] = "compare" THEN 2 ELSE 1
  /\ Sound \subseteq Rendered /\ Rendered \subseteq Texts

VARIABLES text, file, job

commandVars == <<text, file, job>>

File(kind, from) == [kind |-> kind, from |-> from]
NoFile == File("absent", <<>>)
Found == {NoFile, File("previous", <<>>), File("directory", <<>>)}

(* before is an observation: what lay at the targets at the beginning.     *)
(* What an invocation has staged for its i-th target.                      *)
Product(j, i, from) ==
  File(CASE KindOf[j] = "compare" -> <<"delta", "receipt">>[i]
         [] KindOf[j] = "migrate" -> "migrated"
         [] OTHER -> "page", from)

NoJob == [at |-> "absent", read |-> <<>>, seen |-> <<>>, rendered |-> <<>>,
          kept |-> <<>>, before |-> <<>>, done |-> 0, undo |-> <<>>,
          lost |-> FALSE, result |-> "none"]

(* Paths that no invocation of the team names are all alike.               *)
CommandsInit ==
  \E team \in Teams :
    /\ text \in [Inputs -> Texts]
    /\ \A p \in Inputs : \/ \E j \in team : p \in Range(InputsOf[j])
                         \/ text[p] = CHOOSE t \in Texts : TRUE
    /\ file \in [Targets -> Found]
    /\ \A p \in Targets : (\E j \in team : p \in Range(TargetsOf[j])) \/ file[p] = NoFile
    /\ job = [j \in Jobs |->
         IF j \notin team THEN NoJob
         ELSE [NoJob EXCEPT
           !.at = IF KindOf[j] = "validate" THEN "render" ELSE "read",
           !.before = [i \in DOMAIN TargetsOf[j] |-> file[TargetsOf[j][i]]]]]

Underway(j) == job[j].at \notin {"absent", "ended", "killed"}
Becomes(j, next) == job' = [job EXCEPT ![j] = next]
Leave(j) == [job[j] EXCEPT !.at = "clean", !.result = "failed"]

(* The next input; one that does not parse ends the command there.         *)
ReadInput(j) ==
  /\ job[j].at = "read"
  /\ LET p == InputsOf[j][Len(job[j].read) + 1]
         read == Append(job[j].read, text[p])
         then == IF Len(read) < Len(InputsOf[j]) THEN "read"
                 ELSE IF KindOf[j] = "compare" THEN "validate" ELSE "render"
     IN Becomes(j, [job[j] EXCEPT !.read = read, !.at = then])
  /\ UNCHANGED <<text, file>>

(* compare has both originals rendered and checked from where they lie     *)
(* before it renders the canonical form of what it has read.               *)
ValidateOriginal(j) ==
  /\ job[j].at = "validate"
  /\ LET now == text[InputsOf[j][Len(job[j].seen) + 1]]
         seen == Append(job[j].seen, now)
     IN Becomes(j, IF now \notin Sound THEN Leave(j)
                 ELSE [job[j] EXCEPT !.seen = seen,
                         !.at = IF Len(seen) = 2 THEN "render" ELSE "validate"])
  /\ UNCHANGED <<text, file>>

(* Mutant: it always reads the inputs, which may have changed since their  *)
(* hashes were taken.                                                      *)
SnapshotOfNow(j) == [i \in DOMAIN InputsOf[j] |-> text[InputsOf[j][i]]]

(* What the renderer is pointed at: the frozen specification, the          *)
(* canonical snapshots, the migrated candidate; validate points it at the  *)
(* input itself.                                                           *)
Snapshot(j) ==
  IF KindOf[j] = "validate" THEN <<text[InputsOf[j][1]]>> ELSE job[j].read

RenderCandidate(j) ==
  /\ job[j].at = "render"
  /\ Becomes(j, IF Range(Snapshot(j)) \subseteq Rendered
              THEN [job[j] EXCEPT !.rendered = Snapshot(j), !.at = "check"]
              ELSE Leave(j))
  /\ UNCHANGED <<text, file>>

(* Mutant: a candidate that was rendered is good enough.                   *)
PassesRendered(t) == t \in Rendered

Passes(t) == t \in Sound

CheckCandidate(j) ==
  /\ job[j].at = "check"
  /\ Becomes(j, IF ~ \A t \in Range(job[j].rendered) : Passes(t) THEN Leave(j)
              ELSE IF KindOf[j] = "validate"
                THEN [job[j] EXCEPT !.at = "clean", !.result = "ok"]
              ELSE [job[j] EXCEPT !.at = "recheck"])
  /\ UNCHANGED <<text, file>>

TargetOf(j, i) == file[TargetsOf[j][i]]

(* The last look before the commit: migrate reads its source again,        *)
(* compare refuses a target that is not a regular file.                    *)
Recheck(j) ==
  /\ job[j].at = "recheck"
  /\ LET refused == CASE KindOf[j] = "migrate" -> text[InputsOf[j][1]] # job[j].read[1]
                      [] KindOf[j] = "compare" ->
                           \E i \in 1..2 : TargetOf(j, i).kind = "directory"
                      [] OTHER -> FALSE
     IN Becomes(j, IF refused THEN Leave(j)
                 ELSE [job[j] EXCEPT !.at = IF KindOf[j] = "compare" THEN "aside" ELSE "replace"])
  /\ UNCHANGED <<text, file>>

(* deliver and migrate commit with one rename, which replaces a file and   *)
(* fails on a directory.                                                   *)
ReplaceTarget(j) ==
  /\ job[j].at = "replace"
  /\ TargetOf(j, 1).kind # "directory"
  /\ file' = [file EXCEPT ![TargetsOf[j][1]] = Product(j, 1, job[j].rendered)]
  /\ Becomes(j, [job[j] EXCEPT !.at = "clean", !.result = "ok"])
  /\ UNCHANGED text

(* commitComparePair: previous files are renamed into the staging          *)
(* directory, then the candidates out of it.                               *)
SetAside(j) ==
  /\ job[j].at = "aside"
  /\ LET i == job[j].done + 1
         then == [job[j] EXCEPT !.done = IF i = 2 THEN 0 ELSE i,
                              !.at = IF i = 2 THEN "put" ELSE "aside"]
     IN IF TargetOf(j, i) = NoFile THEN Becomes(j, then) /\ UNCHANGED file
        ELSE /\ Becomes(j, [then EXCEPT !.kept = Append(@, <<i, TargetOf(j, i)>>)])
             /\ file' = [file EXCEPT ![TargetsOf[j][i]] = NoFile]
  /\ UNCHANGED text

PutInPlace(j) ==
  /\ job[j].at = "put"
  /\ LET i == job[j].done + 1
     IN /\ file' = [file EXCEPT ![TargetsOf[j][i]] = Product(j, i, job[j].rendered)]
        /\ Becomes(j, IF i = 2 THEN [job[j] EXCEPT !.at = "clean", !.result = "ok"]
                    ELSE [job[j] EXCEPT !.done = i])
  /\ UNCHANGED text

(* Mutant: the candidates that were put in place stay.                     *)
UndoingKept(j) ==
  [n \in DOMAIN job[j].kept |-> <<"restore", Reverse(job[j].kept)[n][1]>>]

(* The undoing of a commit that failed: what was put in place is removed,  *)
(* then what was set aside is put back, each in reverse order.             *)
Undoing(j) ==
  LET put == IF job[j].at = "put" THEN [i \in 1..job[j].done |-> i] ELSE <<>>
  IN [n \in DOMAIN put |-> <<"remove", Reverse(put)[n]>>]
       \o [n \in DOMAIN job[j].kept |-> <<"restore", Reverse(job[j].kept)[n][1]>>]

CommitFails(j) ==
  /\ job[j].at \in {"aside", "put"}
  /\ Becomes(j, [job[j] EXCEPT !.at = "undo", !.undo = Undoing(j)])
  /\ UNCHANGED <<text, file>>

PutBack(j, i) == (CHOOSE k \in Range(job[j].kept) : k[1] = i)[2]

Undo(j, fails) ==
  /\ job[j].at = "undo" /\ job[j].undo # <<>>
  /\ LET what == Head(job[j].undo)
         target == TargetsOf[j][what[2]]
     IN /\ Becomes(j, [job[j] EXCEPT !.undo = Tail(@), !.lost = @ \/ fails])
        /\ file' = IF fails THEN file
                   ELSE [file EXCEPT ![target] = IF what[1] = "remove" THEN NoFile
                                                 ELSE PutBack(j, what[2])]
  /\ UNCHANGED text

Undone(j) ==
  /\ job[j].at = "undo" /\ job[j].undo = <<>>
  /\ Becomes(j, [job[j] EXCEPT !.at = "clean",
                 !.result = IF job[j].lost THEN "not restored" ELSE "failed"])
  /\ UNCHANGED <<text, file>>

(* A path, a directory, a child process or a file that fails; nothing has  *)
(* been committed then.                                                    *)
Refuse(j) ==
  /\ job[j].at \in {"read", "validate", "render", "check", "recheck", "replace"}
  /\ Becomes(j, Leave(j))
  /\ UNCHANGED <<text, file>>

(* finally: the staging directory goes, with whatever is left in it.       *)
CleanUp(j) ==
  /\ job[j].at = "clean"
  /\ Becomes(j, [job[j] EXCEPT !.at = "ended", !.kept = <<>>])
  /\ UNCHANGED <<text, file>>

(* The process is killed.                                                  *)
Killed(j) ==
  /\ Underway(j)
  /\ Becomes(j, [job[j] EXCEPT !.at = "killed"])
  /\ UNCHANGED <<text, file>>

(* The author edits an input; once every invocation has begun its commit   *)
(* that no longer matters.                                                 *)
EditInput(p) ==
  /\ \E j \in Jobs : /\ p \in Range(InputsOf[j])
                    /\ job[j].at \in {"read", "validate", "render", "check", "recheck"}
  /\ \E t \in Texts \ {text[p]} : text' = [text EXCEPT ![p] = t]
  /\ UNCHANGED <<file, job>>

(* The steps of each command.                                              *)
DeliverStep(j) ==
  /\ KindOf[j] = "deliver"
  /\ \/ ReadInput(j) \/ RenderCandidate(j) \/ CheckCandidate(j) \/ Recheck(j)
     \/ ReplaceTarget(j) \/ Refuse(j) \/ CleanUp(j)

MigrateStep(j) ==
  /\ KindOf[j] = "migrate"
  /\ \/ ReadInput(j) \/ RenderCandidate(j) \/ CheckCandidate(j) \/ Recheck(j)
     \/ ReplaceTarget(j) \/ Refuse(j) \/ CleanUp(j)

ValidateStep(j) ==
  /\ KindOf[j] = "validate"
  /\ RenderCandidate(j) \/ CheckCandidate(j) \/ Refuse(j) \/ CleanUp(j)

CompareStep(j) ==
  /\ KindOf[j] = "compare"
  /\ \/ ReadInput(j) \/ ValidateOriginal(j) \/ RenderCandidate(j) \/ CheckCandidate(j)
     \/ Recheck(j) \/ SetAside(j) \/ PutInPlace(j) \/ CommitFails(j)
     \/ \E fails \in BOOLEAN : Undo(j, fails)
     \/ Undone(j) \/ Refuse(j) \/ CleanUp(j)

CommandsNext ==
  \/ \E j \in Jobs : \/ DeliverStep(j) \/ MigrateStep(j) \/ ValidateStep(j)
                     \/ CompareStep(j) \/ Killed(j)
  \/ \E p \in Inputs : EditInput(p)

CommandsSpec == CommandsInit /\ [][CommandsNext]_commandVars

(* Whatever interleaving of edits, failures and kills, a target holds what *)
(* it held or a whole file whose every source passed the final check, and  *)
(* an invocation that reports success has committed the artifact of the    *)
(* very bytes it has hashed into its receipt.                              *)
OutputsTrusted ==
  /\ \A p \in Targets : file[p] \in Found \/ Range(file[p].from) \subseteq Sound
  /\ \A j \in Jobs :
       job[j].result = "ok" /\ KindOf[j] # "validate" => job[j].rendered = job[j].read

Alone(j) ==
  \A k \in Jobs \ {j} : job[k].at = "absent"
                       \/ Range(TargetsOf[k]) \cap Range(TargetsOf[j]) = {}

(* The pair that compare commits by four renames: after success both are   *)
(* of this comparison, after a failure that was undone both are as before, *)
(* outside the commit neither has moved, and until success each previous   *)
(* file is at its place or in the staging directory, killed or not, unless *)
(* the command has reported that it could not restore it.                  *)
PairIsWhole ==
  \A j \in Jobs : KindOf[j] = "compare" /\ job[j].at # "absent" /\ Alone(j) =>
    LET now == [i \in 1..2 |-> TargetOf(j, i)] IN
    /\ job[j].result = "ok" => now = [i \in 1..2 |-> Product(j, i, job[j].read)]
    /\ job[j].result # "ok" /\ job[j].at \notin {"aside", "put", "undo", "killed"}
          /\ ~ job[j].lost => now = job[j].before
    /\ job[j].result # "ok" /\ ~ (job[j].at = "ended" /\ job[j].lost) =>
         \A i \in 1..2 : \/ now[i] = job[j].before[i]
                         \/ job[j].before[i] = NoFile
                         \/ <<i, job[j].before[i]>> \in Range(job[j].kept)
=============================================================================
