------------------------------ MODULE Archify ------------------------------
(***************************************************************************)
(* The diagram tool of the repository, archify, as a whole.  Its processes *)
(* are modelled one by one: the update notifier (UpdateCheck), the preview *)
(* (Preview), the commands that commit files (Commands) and the visual     *)
(* check (VisualCheck).  They share nothing that one of them relies on, so *)
(* a behaviour is one of them at work.  What they compute, from the routes *)
(* of a picture to the order of two versions, are operators of the other   *)
(* modules: such a behaviour is one step, on a sampled input.              *)
(***************************************************************************)
EXTENDS UpdateCheck, Preview, Commands, VisualCheck

CONSTANTS
  SamplesOf,                               \* inputs per computation
  FoldOf, ExtensionOf, MaxLinks,           \* of OutputPath
  LowerCase, IdentityOf, FullRevisions     \* of ArchitectureDelta

Path == INSTANCE OutputPath
Picture == INSTANCE Geometry
Timeline == INSTANCE SequenceTimeline
Delta == INSTANCE ArchitectureDelta
Releases == INSTANCE ReleaseOrder
Workflow == INSTANCE WorkflowMigration
Router == INSTANCE WorkflowRouter

VARIABLES tool, sample

archifyVars == <<tool, sample, vars, previewVars, commandVars, visualVars>>

Processes == {"check-update", "preview", "commands", "visual-check"}
NoSample == {<<>>}

(* A process that is not the one at work has one initial state.            *)
ArchifyInit ==
  /\ tool \in Processes \cup DOMAIN SamplesOf
  /\ sample \in IF tool \in Processes THEN NoSample ELSE SamplesOf[tool]
  /\ Init
  /\ PreviewInit /\ (tool = "preview" \/ source = Missing)
  /\ VisualInit
  /\ tool # "visual-check" =>
       evidence = [shots |-> {}, sheet |-> FALSE, receipt |-> NoReceipt]
  /\ IF tool = "commands" THEN CommandsInit
     ELSE /\ text = [p \in Inputs |-> CHOOSE t \in Texts : TRUE]
          /\ file = [p \in Targets |-> NoFile]
          /\ job = [j \in Jobs |-> NoJob]

OnlyUpdate == /\ tool = "check-update"
              /\ UNCHANGED <<tool, sample, previewVars, commandVars, visualVars>>
OnlyPreview == /\ tool = "preview"
               /\ UNCHANGED <<tool, sample, vars, commandVars, visualVars>>
OnlyCommands == /\ tool = "commands"
                /\ UNCHANGED <<tool, sample, vars, previewVars, visualVars>>
OnlyVisual == /\ tool = "visual-check"
              /\ UNCHANGED <<tool, sample, vars, previewVars, commandVars>>

(* A computation has no pause in which anybody could interfere.            *)
Compute == /\ tool \in DOMAIN SamplesOf
           /\ tool' = "computed"
           /\ UNCHANGED <<sample, vars, previewVars, commandVars, visualVars>>

ArchifyNext ==
  \/ OnlyUpdate /\ Next
  \/ OnlyPreview /\ PreviewNext
  \/ OnlyCommands /\ CommandsNext
  \/ OnlyVisual /\ VisualNext
  \/ Compute

(* The fairness of FairSpec, PreviewFairness and VisualFairness, of the    *)
(* process at work.                                                        *)
ArchifyFairness ==
  /\ \A p \in Invocations : WF_archifyVars(OnlyUpdate /\ Step(p))
  /\ WF_archifyVars(OnlyPreview /\ Observe) /\ WF_archifyVars(OnlyPreview /\ Launch)
  /\ WF_archifyVars(OnlyPreview /\ ChildCloses)
  /\ WF_archifyVars(OnlyPreview /\ StoppedChildCloses)
  /\ WF_archifyVars(OnlyPreview /\ ServerCloses)
  /\ WF_archifyVars(OnlyPreview /\ GraceExpires)
  /\ WF_archifyVars(OnlyPreview /\ KillExpires)
  /\ WF_archifyVars(OnlyVisual /\ BeginCheck) /\ WF_archifyVars(OnlyVisual /\ Consume)
  /\ WF_archifyVars(OnlyVisual /\ TimesOut) /\ WF_archifyVars(OnlyVisual /\ FinishCheck)
  /\ WF_archifyVars(OnlyVisual /\ FailCheck) /\ WF_archifyVars(OnlyVisual /\ CloseBrowser)
  /\ WF_archifyVars(OnlyVisual /\ KillBrowser)

ArchifySpec == ArchifyInit /\ [][ArchifyNext]_archifyVars /\ ArchifyFairness

-----------------------------------------------------------------------------
(* Whoever asked gets an answer.  An invocation of the update notifier     *)
(* ends whatever holds the claim, and a visual check ends whatever Chrome  *)
(* does, with Chrome gone.                                                 *)
ProcessesEnd == InvocationsEnd /\ (tool = "visual-check" => CheckEnds)

(* A preview keeps up: a source that is left alone is shown for what it    *)
(* is, and a stop ends with no child left to write into the directory that *)
(* it removes (bin/preview.mjs).                                           *)
PreviewSettles == tool = "preview" => SourceShown /\ StopEnds

(* What the tool shows is true: a preview at rest of the source that it    *)
(* has seen (bin/preview.mjs), and the evidence of a visual check of every *)
(* view of one page, never better than what was seen (bin/visual-check).   *)
ShownIsTrue ==
  /\ PreviewTypes /\ RestsOnTheTruth
  /\ VisualTypes /\ EvidenceIsHonest

(* What the commands leave at their targets has passed the checks and is   *)
(* made of what they read, and the pair of compare is one                  *)
(* (bin/archify.mjs).                                                      *)
OutputsSafe == OutputsTrusted /\ PairIsWhole

(* The gates of the pictures: crossings, shared corridors and frame runs   *)
(* are counted on what is drawn, ports fan out without twists, a bridge    *)
(* serves its sides, and an accepted timeline can be read                  *)
(* (renderers/shared/geometry.mjs, renderers/sequence).                    *)
PicturesJudged ==
  [][/\ tool = "routes" => Picture!GatesSeeTheRoutes(sample.l, sample.r, sample.f)
     /\ tool = "ports" => Picture!PortsFanOut(sample.rs, sample.bx, 16, 14)
     /\ tool = "bridges" => Picture!BridgeServes(<<0, 0>>, sample.e, sample.side, 24, 16, 8)
     /\ tool = "timelines" => Timeline!TimelineReadable(sample)]_tool

(* Two things are told apart exactly when they differ: a comparison of two *)
(* architectures reports every change once, drawn as its own check expects *)
(* it; versions are ordered by precedence; and an accepted output is not   *)
(* an input or another output that links or case spell differently         *)
(* (delta/architecture-delta, scripts/check-update.mjs compareSemver,      *)
(* renderers/shared/output-path.mjs).                                      *)
DifferencesTold ==
  [][/\ tool = "output path" => Path!OutputHarmless(sample[1], sample[2])
     /\ tool = "deltas" => Delta!DeltaTellsAll(sample[1], sample[2])
     /\ tool = "versions" => Releases!VersionsOrdered(sample[1], sample[2], sample[3])]_tool

(* A workflow that compiles is laid out as its gates demand, its contract  *)
(* is judged on the graph and not on the spelling, a migrated document is  *)
(* the document it came from, and the router finds what there is to find   *)
(* (renderers/workflow).                                                   *)
WorkflowsSound ==
  [][/\ tool = "layouts" => Workflow!LayoutSound(sample.d, sample.requests)
     /\ tool = "contracts" => Workflow!ContractSound(sample)
     /\ tool = "migrations" => Workflow!MigrationSound(sample)
     /\ tool = "searches" => Router!SearchExact(sample) /\ Router!CorridorTight(sample)
     /\ tool = "rounds" => Router!RoundsProgress(sample[1], sample[2])]_tool
=============================================================================
