---------------------------- MODULE VisualCheck ----------------------------
(***************************************************************************)
(* archify visual-check (bin/visual-check.mjs): a delivered page is shown  *)
(* by a headless Chrome in one view after the other, measured and, in some *)
(* views, captured; the evidence is written beside the page.  The command  *)
(* is one coroutine in one thread.  It awaits one call or one event of the *)
(* DevTools pipe at a time; in between Chrome answers, hangs, breaks off   *)
(* or ends, timers fire, and somebody delivers another page.               *)
(*                                                                         *)
(* A promise that is rejected while nobody awaits it ends the process, as  *)
(* the runtime does with every unhandled rejection.                        *)
(***************************************************************************)
EXTENDS Integers, Sequences

CONSTANTS
  Views,      \* of the page: [theme, captured]
  Versions    \* of the delivered page, each delivery a new one

ASSUME VisualAssumption ==
  /\ Views \in Seq([theme : {"light", "dark"}, captured : BOOLEAN]) \ {<<>>}
  /\ Versions \in Nat \ {0}

Defects == {"overflow", "dock", "tiny"}
Measured == {"fine"} \cup Defects

VARIABLES
  page,      \* the version at the artifact's path
  visit,     \* the coroutine
  line,      \* PipeCdp: the call and the event it has promised
  chrome,    \* the child
  pipe,      \* answers and events under way
  evidence   \* the sidecars

visualVars == <<page, visit, line, chrome, pipe, evidence>>

NoCall == "none"
Calls == {"attach", "emulate", "navigate", "settle", "measure", "capture"}
NoReceipt == [status |-> "none", of |-> 0, found |-> {}]

VisualTypes ==
  /\ page \in 1..Versions
  /\ visit \in [at : {"begin", "attach", "emulate", "navigate", "load", "settle",
                      "measure", "capture", "finish", "failed", "close", "kill",
                      "ended", "uncaught"},
                view : 1..Len(Views), of : 0..Versions, shown : 0..Versions,
                metrics : UNION {[1..n -> [as : Measured, of : 0..Versions]] :
                                   n \in 0..Len(Views)}]
  /\ line \in [call : {NoCall} \cup Calls, event : {"none", "waiting", "fired"}]
  /\ chrome \in {"none", "runs", "hangs", "ended"}
  /\ evidence.shots \subseteq 1..Len(Views) /\ evidence.sheet \in BOOLEAN

VisualInit ==
  /\ page = 1
  /\ visit = [at |-> "begin", view |-> 1, of |-> 0, shown |-> 0,
             metrics |-> <<>>]
  /\ line = [call |-> NoCall, event |-> "none"]
  /\ chrome = "none" /\ pipe = <<>>
  /\ evidence \in [shots : {{}, 1..Len(Views)}, sheet : BOOLEAN,
                   receipt : {NoReceipt, [status |-> "pass", of |-> 1, found |-> {}]}]

Live == visit.at \notin {"ended", "uncaught"}
View == Views[visit.view]

(* A call of the protocol goes out and its answer is awaited.              *)
CallAt(at, event) ==
  /\ visit' = [visit EXCEPT !.at = at]
  /\ line' = [call |-> at, event |-> event]

(* runVisualCheck: the evidence of an earlier run goes first.  Without a   *)
(* Chrome the check is skipped.                                            *)
BeginCheck ==
  /\ visit.at = "begin"
  /\ \/ /\ visit' = [visit EXCEPT !.at = "attach", !.of = page]
        /\ line' = [line EXCEPT !.call = "attach"]
        /\ chrome' = "runs"
        /\ evidence' = [shots |-> {}, sheet |-> FALSE, receipt |-> NoReceipt]
     \/ /\ visit' = [visit EXCEPT !.at = "ended"]
        /\ evidence' = [shots |-> {}, sheet |-> FALSE,
                        receipt |-> [status |-> "skipped", of |-> page, found |-> {}]]
        /\ UNCHANGED <<line, chrome>>
  /\ UNCHANGED <<page, pipe>>

(* Chrome answers the call that it has been sent; a navigation also brings *)
(* the event that the page is loaded, before or after its answer.          *)
ChromeAnswers ==
  /\ chrome = "runs" /\ Live /\ line.call # NoCall
  /\ ~ \E i \in DOMAIN pipe : pipe[i].call = line.call
  /\ LET answer == [call |-> line.call, ok |-> TRUE, of |-> page]
         refusal == [answer EXCEPT !.ok = FALSE]
         loaded == [answer EXCEPT !.call = "loaded"]
     IN pipe' \in {Append(pipe, refusal)} \cup
          (IF line.call = "navigate"
           THEN {pipe \o <<answer, loaded>>, pipe \o <<loaded, answer>>,
                 Append(pipe, answer)}
           ELSE {Append(pipe, answer)})
  /\ UNCHANGED <<page, visit, line, chrome, evidence>>

(* Mutant: a picture is only asked for in the light theme.                 *)
CapturedLight(v) == v.captured /\ v.theme = "light"

Captured(v) == v.captured

(* After a view the next one, after the last the verdict.                  *)
NextView(metrics) ==
  IF visit.view < Len(Views)
  THEN /\ visit' = [visit EXCEPT !.at = "emulate", !.view = @ + 1, !.metrics = metrics]
       /\ line' = [line EXCEPT !.call = "emulate"]
  ELSE /\ visit' = [visit EXCEPT !.at = "finish", !.metrics = metrics]
       /\ line' = [line EXCEPT !.call = NoCall]

(* inspect: what follows the answer that has arrived.                      *)
Resume ==
  \/ /\ visit.at = "attach" /\ CallAt("emulate", "none")
     /\ UNCHANGED evidence
  \/ /\ visit.at = "emulate" /\ CallAt("navigate", "waiting")
     /\ UNCHANGED evidence
  \/ /\ visit.at = "navigate"
     /\ visit' = [visit EXCEPT !.shown = Head(pipe).of,
                   !.at = IF line.event = "fired" THEN "settle" ELSE "load"]
     /\ line' = IF line.event = "fired" THEN [call |-> "settle", event |-> "none"]
                ELSE [line EXCEPT !.call = NoCall]
     /\ UNCHANGED evidence
  \/ /\ visit.at = "settle" /\ CallAt("measure", "none")
     /\ UNCHANGED evidence
  \/ /\ visit.at = "measure"
     /\ \E m \in Measured :
          LET metrics == Append(visit.metrics, [as |-> m, of |-> visit.shown]) IN
          IF Captured(View)
          THEN /\ visit' = [visit EXCEPT !.at = "capture", !.metrics = metrics]
               /\ line' = [line EXCEPT !.call = "capture"]
          ELSE NextView(metrics)
     /\ UNCHANGED evidence
  \/ /\ visit.at = "capture" /\ NextView(visit.metrics)
     /\ evidence' = [evidence EXCEPT !.shots = @ \cup {visit.view}]

(* An error that reaches the coroutine's try is reported; a call that was  *)
(* promised an event besides leaves that promise to itself.                *)
Throw(event) ==
  /\ visit' = [visit EXCEPT !.at = "failed"]
  /\ line' = [call |-> NoCall, event |-> event]

(* consume: an answer nobody waits for any more is dropped.                *)
Consume ==
  /\ Live /\ pipe # <<>>
  /\ pipe' = Tail(pipe)
  /\ LET m == Head(pipe) IN
     \/ /\ m.call = "loaded"
        /\ IF line.event # "waiting" THEN UNCHANGED <<visit, line>>
           ELSE IF visit.at = "load" THEN CallAt("settle", "none")
           ELSE line' = [line EXCEPT !.event = "fired"] /\ UNCHANGED visit
        /\ UNCHANGED evidence
     \/ /\ m.call \notin {line.call, "loaded"}
        /\ UNCHANGED <<visit, line, evidence>>
     \/ /\ m.call = line.call /\ m.call # "loaded" /\ ~ m.ok
        /\ Throw(line.event) /\ UNCHANGED evidence
     \/ m.call = line.call /\ m.call # "loaded" /\ m.ok /\ Resume
  /\ UNCHANGED <<page, chrome>>

Uncaught == visit' = [visit EXCEPT !.at = "uncaught"]

(* What the coroutine's catch leaves: no picture of an inspection that     *)
(* broke off.                                                              *)
Failing == [shots |-> {}, sheet |-> FALSE,
            receipt |-> [status |-> "fail", of |-> visit.of, found |-> {"runtime"}]]

(* failAll: every promise that is open is rejected.  The coroutine still   *)
(* reports the call's before the runtime notices the event's.              *)
FailAll ==
  IF line.event = "waiting" /\ visit.at # "load"
  THEN Uncaught /\ evidence' = Failing /\ UNCHANGED line
  ELSE Throw("none") /\ UNCHANGED evidence

ChromeHangs ==
  /\ chrome = "runs" /\ chrome' = "hangs"
  /\ UNCHANGED <<page, visit, line, pipe, evidence>>

(* Chrome ends, or its pipe breaks, while something is awaited.            *)
Awaiting == line.call # NoCall \/ visit.at = "load"

ChromeEnds ==
  /\ chrome \in {"runs", "hangs"} /\ Live /\ visit.at \notin {"close", "kill"}
  /\ chrome' \in {"ended", chrome}
  /\ IF Awaiting THEN FailAll
     ELSE chrome' = "ended" /\ UNCHANGED <<visit, line, evidence>>
  /\ UNCHANGED <<page, pipe>>

(* Mutant: only calls have a timer.                                        *)
CallTimesOut ==
  /\ line.call # NoCall /\ line.event # "waiting"
  /\ Throw("none")
  /\ UNCHANGED <<page, chrome, pipe, evidence>>

(* Timers: that of an event is older than that of the call it was promised *)
(* with.                                                                   *)
TimesOut ==
  /\ Awaiting
  /\ IF line.event = "waiting" /\ visit.at # "load"
     THEN Uncaught /\ UNCHANGED line
     ELSE Throw("none")
  /\ UNCHANGED <<page, chrome, pipe, evidence>>

(* A page with a defect in some view; legibility is judged in the light    *)
(* theme.                                                                  *)
Findings(metrics) ==
  {m \in Defects : \E i \in DOMAIN metrics :
     metrics[i].as = m /\ (m = "tiny" => Views[i].theme = "light")}

(* Mutant: the page is not read again.                                     *)
PageTrusted == TRUE

PageKept == page = visit.of

(* The verdict, unless the page has changed or the evidence cannot be      *)
(* written.                                                                *)
FinishCheck ==
  /\ visit.at = "finish"
  /\ \/ ~ PageKept /\ visit' = [visit EXCEPT !.at = "failed"] /\ UNCHANGED evidence
     \/ PageKept /\ LET found == Findings(visit.metrics) IN
          /\ evidence' = [evidence EXCEPT !.sheet = TRUE,
               !.receipt = [status |-> IF found = {} THEN "pass" ELSE "fail",
                            of |-> visit.of, found |-> found]]
          /\ visit' = [visit EXCEPT !.at = "close"]
     \/ PageKept /\ visit' = [visit EXCEPT !.at = "failed"]
          /\ evidence' = [evidence EXCEPT !.sheet = TRUE]
  /\ UNCHANGED <<page, line, chrome, pipe>>

FailCheck ==
  /\ visit.at = "failed"
  /\ evidence' = Failing
  /\ visit' = [visit EXCEPT !.at = "close"]
  /\ UNCHANGED <<page, line, chrome, pipe>>

(* close: whatever is still promised is rejected, Chrome is asked to end   *)
(* and after a while killed.                                               *)
CloseBrowser ==
  /\ visit.at = "close"
  /\ IF line.event = "waiting" THEN Uncaught
     ELSE visit' = [visit EXCEPT !.at = IF chrome = "ended" THEN "ended" ELSE "kill"]
  /\ chrome' \in IF chrome = "runs" THEN {"runs", "ended"} ELSE {chrome}
  /\ UNCHANGED <<page, line, pipe, evidence>>

KillBrowser ==
  /\ visit.at = "kill"
  /\ visit' = [visit EXCEPT !.at = "ended"] /\ chrome' = "ended"
  /\ UNCHANGED <<page, line, pipe, evidence>>

(* Another page is delivered to the same path.                             *)
Redeliver ==
  /\ page < Versions /\ page' = page + 1
  /\ UNCHANGED <<visit, line, chrome, pipe, evidence>>

VisualNext ==
  \/ BeginCheck \/ ChromeAnswers \/ Consume \/ ChromeHangs \/ ChromeEnds
  \/ TimesOut \/ FinishCheck \/ FailCheck \/ CloseBrowser \/ KillBrowser
  \/ Redeliver

(* The event loop runs what is due, and timers fire.                       *)
VisualFairness ==
  /\ WF_visualVars(BeginCheck) /\ WF_visualVars(Consume)
  /\ WF_visualVars(TimesOut) /\ WF_visualVars(FinishCheck)
  /\ WF_visualVars(FailCheck) /\ WF_visualVars(CloseBrowser)
  /\ WF_visualVars(KillBrowser)

VisualSpec == VisualInit /\ [][VisualNext]_visualVars /\ VisualFairness

-----------------------------------------------------------------------------
(* Evidence beside a page is never better than the inspection was: a       *)
(* verdict is about every view, all of them of the one page whose hash it  *)
(* names, with a picture where one is asked for; it passes exactly when no *)
(* defect was seen, legibility being judged in the light views; a run that *)
(* broke off leaves no picture; nothing of an earlier run counts.          *)
EvidenceIsHonest ==
  visit.at # "begin" =>
    /\ evidence.receipt.status \in {"pass", "fail"}
          /\ "runtime" \notin evidence.receipt.found =>
         /\ Len(visit.metrics) = Len(Views)
         /\ \A i \in 1..Len(Views) : visit.metrics[i].of = evidence.receipt.of
         /\ evidence.shots = {i \in 1..Len(Views) : Views[i].captured}
    /\ evidence.receipt.status = "pass" =>
         \A i \in 1..Len(Views) :
           visit.metrics[i].as \in
             IF Views[i].theme = "light" THEN {"fine"} ELSE {"fine", "tiny"}
    /\ evidence.receipt.status \in {"fail", "skipped"}
          /\ (evidence.receipt.found \cap Defects = {}) =>
         evidence.shots = {} /\ ~ evidence.sheet
    /\ visit.at = "ended" => evidence.receipt.status # "none"

(* Every check ends, with Chrome gone unless an exception ended it.        *)
CheckEnds == <>(visit.at = "uncaught" \/ (visit.at = "ended" /\ chrome \in {"none", "ended"}))

(* Whatever Chrome does, the command answers with a receipt and never ends *)
(* by an uncaught exception.                                               *)
NoUncaughtException == visit.at # "uncaught"
=============================================================================
