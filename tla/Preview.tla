------------------------------ MODULE Preview ------------------------------
(***************************************************************************)
(* archify preview (bin/preview.mjs): one process that watches a source    *)
(* file, has a child process deliver it whenever it has changed, puts the  *)
(* verified artifact in the place of the output file and serves it.  All   *)
(* callbacks run in one thread, each is one step; between them the source  *)
(* is edited, the child ends, timers fire and signals arrive.              *)
(*                                                                         *)
(* A source is its content and a digest is the content itself; Missing is  *)
(* a file that cannot be read.  Epochs are only compared: moved says that  *)
(* sourceEpoch has passed activeEpoch.  Generations only name files.       *)
(***************************************************************************)
EXTENDS Integers

CONSTANTS
  Contents,     \* of the source file
  Missing,
  ArtifactOf,   \* what a deliverable source is rendered to
  Foreign,      \* an output file that is none of ours
  Nothing

Good == DOMAIN ArtifactOf
Artifacts == {ArtifactOf[c] : c \in Good}

ASSUME PreviewAssumption ==
  /\ Good \subseteq Contents \ {Missing} /\ Missing \in Contents
  /\ Nothing \notin Contents \cup Artifacts \cup {Foreign}
  /\ Foreign \notin Artifacts

VARIABLES
  source,   \* the source file
  output,   \* the output file
  queue,    \* queuedHash, whether the debounce timer runs, pendingBuild
  build,    \* the child, the content it was given, whether that has moved
  shown,    \* status, artifactBuffer, lastGoodSourceHash
  ending,   \* the shutdown
  faulted   \* observation: what was begun last has failed for its own reasons

previewVars == <<source, output, queue, build, shown, ending, faulted>>

Status == {"checking", "verified", "needs-fix"}

PreviewTypes ==
  /\ source \in Contents
  /\ output \in Artifacts \cup {Foreign}
  /\ queue \in [hash : Contents, timer : BOOLEAN, pending : BOOLEAN]
  /\ build \in [child : {"none", "runs", "hangs"}, of : Contents \cup {Nothing},
                moved : BOOLEAN]
  /\ shown \in [status : Status, buffer : Artifacts \cup {Nothing},
                good : Contents \cup {Nothing}]
  /\ ending \in [stopping : BOOLEAN, server : BOOLEAN, stopped : BOOLEAN,
                 drain : {"off", "grace", "kill"}, signal : {"none", "term", "kill"}]
  /\ faulted \in BOOLEAN

(* startPreview ends with observeSource({immediate: true}).                *)
PreviewInit ==
  /\ source \in Contents
  /\ output = Foreign
  /\ queue = [hash |-> source, timer |-> TRUE, pending |-> FALSE]
  /\ build = [child |-> "none", of |-> Nothing, moved |-> FALSE]
  /\ shown = [status |-> "checking", buffer |-> Nothing, good |-> Nothing]
  /\ ending = [stopping |-> FALSE, server |-> TRUE, stopped |-> FALSE,
               drain |-> "off", signal |-> "none"]
  /\ faulted = FALSE

-----------------------------------------------------------------------------
Edit ==
  /\ \E c \in Contents : source' = c
  /\ UNCHANGED <<output, queue, build, shown, ending, faulted>>

(* The watcher or the poll timer: observeSource.                           *)
Observe ==
  /\ ~ending.stopping
  /\ source # queue.hash
  /\ queue' = [queue EXCEPT !.hash = source, !.timer = TRUE]
  /\ build' = [build EXCEPT !.moved = TRUE]
  /\ UNCHANGED <<source, output, shown, ending, faulted>>

(* launch, the callback of the debounce timer.                             *)
LaunchAgain ==      \* the source has changed since it was queued
  /\ source # queue.hash
  /\ queue' = [queue EXCEPT !.hash = source]
  /\ UNCHANGED <<build, shown, faulted>>

NotBuiltAgain == shown    \* mutant of ShownAgain: no build, and that is all

ShownAgain == [shown EXCEPT !.status = "verified"]

LaunchLastGood ==   \* the source is back at what is shown
  /\ source = queue.hash /\ source = shown.good
  /\ queue' = [queue EXCEPT !.timer = FALSE]
  /\ shown' = ShownAgain
  /\ faulted' = FALSE
  /\ UNCHANGED build

LaunchLater ==      \* the child is still at work
  /\ source = queue.hash /\ source # shown.good /\ build.child # "none"
  /\ queue' = [queue EXCEPT !.timer = FALSE, !.pending = TRUE]
  /\ UNCHANGED <<build, shown, faulted>>

BeginBuild ==
  /\ source = queue.hash /\ source # shown.good /\ build.child = "none"
  /\ queue' = [queue EXCEPT !.timer = FALSE]
  /\ \/ /\ build' = [child |-> "runs", of |-> source, moved |-> FALSE]
        /\ shown' = [shown EXCEPT !.status = "checking"]
        /\ faulted' = FALSE
     \/ /\ source # Missing     \* the snapshot cannot be written
        /\ build' = [child |-> "none", of |-> source, moved |-> FALSE]
        /\ shown' = [shown EXCEPT !.status = "needs-fix"]
        /\ faulted' = TRUE

Launch ==
  /\ queue.timer /\ ~ending.stopping
  /\ LaunchAgain \/ LaunchLastGood \/ LaunchLater \/ BeginBuild
  /\ UNCHANGED <<source, output, ending>>

ChildHangs ==
  /\ build.child = "runs"
  /\ build' = [build EXCEPT !.child = "hangs"]
  /\ UNCHANGED <<source, output, queue, shown, ending, faulted>>

(* What follows the end of a child that has not been told to stop.         *)
Requeued == [hash |-> source, timer |-> TRUE, pending |-> FALSE]

LeftToThePoll == FALSE    \* mutant of AnythingMoved: the poll will see it

AnythingMoved == queue.pending \/ build.moved

AfterBuild(superseded) ==
  /\ queue' = IF AnythingMoved \/ superseded THEN Requeued ELSE queue
  /\ build' = [build EXCEPT !.child = "none", !.moved = FALSE]

(* commitCandidate: the rename comes after the last look at the source.    *)
Commit ==
  /\ build.child = "runs" /\ build.of \in Good /\ ~build.moved
  /\ source = build.of
  /\ LET artifact == ArtifactOf[build.of]
     IN /\ output' = artifact
        /\ shown' = [status |-> "verified", buffer |-> artifact, good |-> build.of]
  /\ AfterBuild(FALSE)
  /\ UNCHANGED faulted

Supersede ==
  /\ build.child = "runs" /\ build.of \in Good /\ ~build.moved
  /\ source # build.of
  /\ AfterBuild(TRUE)
  /\ UNCHANGED <<output, shown, faulted>>

(* The source does not pass, the child fails for reasons of its own, or    *)
(* its artifact cannot be put in place.                                    *)
PublishFailure ==
  /\ ~build.moved
  /\ shown' = [shown EXCEPT !.status = "needs-fix"]
  /\ faulted' = (build.of \in Good)
  /\ AfterBuild(FALSE)
  /\ UNCHANGED output

DiscardStale ==
  /\ build.moved
  /\ AfterBuild(FALSE)
  /\ UNCHANGED <<output, shown, faulted>>

ChildCloses ==
  /\ build.child = "runs" /\ ~ending.stopping
  /\ Commit \/ Supersede \/ PublishFailure \/ DiscardStale
  /\ UNCHANGED <<source, ending>>

-----------------------------------------------------------------------------
(* Shutdown: stop, closeServer, startBoundedChildDrain, finishStop.        *)

FinishStop(e, childGone) ==
  [e EXCEPT !.stopped = childGone /\ ~e.server,
            !.drain = IF childGone THEN "off" ELSE @]

Stop ==
  /\ ~ending.stopping
  /\ queue' = [queue EXCEPT !.timer = FALSE]
  /\ ending' = [ending EXCEPT !.stopping = TRUE,
                  !.drain = IF build.child = "none" THEN "off" ELSE "grace"]
  /\ UNCHANGED <<source, output, build, shown, faulted>>

StopByForce ==      \* the second signal
  /\ ending.stopping /\ build.child # "none"
  /\ ending' = [ending EXCEPT !.drain = "off", !.signal = "kill"]
  /\ UNCHANGED <<source, output, queue, build, shown, faulted>>

ServerCloses ==
  /\ ending.stopping /\ ending.server
  /\ ending' = FinishStop([ending EXCEPT !.server = FALSE], build.child = "none")
  /\ UNCHANGED <<source, output, queue, build, shown, faulted>>

NoKill == [ending EXCEPT !.drain = "off", !.signal = "term"]    \* mutant of AfterGrace

AfterGrace == [ending EXCEPT !.drain = "kill", !.signal = "term"]

GraceExpires ==
  /\ ending.drain = "grace"
  /\ ending' = AfterGrace
  /\ UNCHANGED <<source, output, queue, build, shown, faulted>>

KillExpires ==
  /\ ending.drain = "kill"
  /\ ending' = [ending EXCEPT !.drain = "off", !.signal = "kill"]
  /\ UNCHANGED <<source, output, queue, build, shown, faulted>>

(* A child that hangs may ignore SIGTERM, but not SIGKILL.                 *)
StoppedChildCloses ==
  /\ ending.stopping
  /\ \/ build.child = "runs"
     \/ build.child = "hangs" /\ ending.signal = "kill"
  /\ build' = [build EXCEPT !.child = "none"]
  /\ ending' = FinishStop(ending, TRUE)
  /\ UNCHANGED <<source, output, queue, shown, faulted>>

PreviewNext ==
  \/ Edit \/ Observe \/ Launch \/ ChildHangs \/ ChildCloses
  \/ Stop \/ StopByForce \/ ServerCloses \/ GraceExpires \/ KillExpires
  \/ StoppedChildCloses

(* Polls and timers fire, a child that works ends, and so does a server    *)
(* whose connections have been closed; nobody has to edit or to stop.      *)
PreviewFairness ==
  /\ WF_previewVars(Observe) /\ WF_previewVars(Launch)
  /\ WF_previewVars(ChildCloses) /\ WF_previewVars(StoppedChildCloses)
  /\ WF_previewVars(ServerCloses)
  /\ WF_previewVars(GraceExpires) /\ WF_previewVars(KillExpires)

PreviewSpec == PreviewInit /\ [][PreviewNext]_previewVars /\ PreviewFairness

-----------------------------------------------------------------------------
(* With nothing under way, what preview shows is true of the source that   *)
(* it has seen (launch, child.on('close') and commitCandidate, lines       *)
(* 457-571): verified means delivered from this very content, and anything *)
(* else means that it does not pass or that a call has failed.             *)
AtRest == /\ ~ending.stopping /\ ~queue.timer /\ build.child = "none"
          /\ source = queue.hash

RestsOnTheTruth ==
  AtRest => \/ /\ shown.status = "verified" /\ shown.good = source
               /\ shown.buffer = ArtifactOf[source] /\ output = shown.buffer
            \/ shown.status = "needs-fix" /\ (source \notin Good \/ faulted)

(* A source that is left alone is shown: every change reaches a build,     *)
(* whatever was being built when it came (queueStableBuild, pendingBuild,  *)
(* the epochs), unless the child hangs or something fails.                 *)
SourceShown ==
  \A c \in Contents :
    <>[](source = c /\ ~ending.stopping /\ build.child # "hangs" /\ ~faulted)
    => <>[](shown.status = IF c \in Good THEN "verified" ELSE "needs-fix")

(* A stop comes to its end, with a child that ignores SIGTERM as well      *)
(* (startBoundedChildDrain), and only once no child is left to write into  *)
(* the staging directory that it removes.                                  *)
StopEnds ==
  /\ ending.stopping ~> ending.stopped
  /\ [](ending.stopped => build.child = "none" /\ ~ending.server)
=============================================================================
