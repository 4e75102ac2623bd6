---------------------------- MODULE ProgressBar ----------------------------
(***************************************************************************)
(* The polling loop of webui.suntheme.widget.progressBar (progressBar.js). *)
(*                                                                         *)
(* The widget polls the server: progress.processEvent publishes a "begin"  *)
(* event on the topic bus and arms a setTimeout whose callback calls       *)
(* processEvent again.  An AJAX layer outside this repository answers each *)
(* begin event by calling setProgress with the task's progress and state.  *)
(* The buttons (cancel, pause, resume, stop) write a control value into    *)
(* the hidden field that the next request carries to the server, clear the *)
(* timer and poll at once.  setProgress clears the timer when the task is  *)
(* failed, canceled, paused, stopped or complete.  refresh.processEvent   *)
(* publishes a refresh event, which the AJAX layer answers by calling      *)
(* setProps with the widget's properties as the server renders them.       *)
(*                                                                         *)
(* The server task and the AJAX transport are an environment: they are not *)
(* code of this repository and are modelled only as far as the widget      *)
(* relies on them (each request is answered with a snapshot of the task).  *)
(***************************************************************************)
EXTENDS Naturals, Sequences, SequencesExt

CONSTANTS
    Types,         \* widget types that may be configured (props.progressBar.*)
    Controls,      \* what the page offers: subset of {"cancel","pause","resume","stop","refresh"}
    RefreshRate,   \* this.refreshRate (0 when the page does not set it)
    Reorder,       \* TRUE: the AJAX layer may apply responses out of order
    MaxInFlight    \* bound: requests plus responses on the wire

ASSUME Types \subseteq {"determinate", "indeterminate", "busy"}
ASSUME Controls \subseteq {"cancel", "pause", "resume", "stop", "refresh"}
ASSUME RefreshRate \in Nat /\ Reorder \in BOOLEAN /\ MaxInFlight \in Nat \ {0}

VARIABLES
    type,          \* this.type
    hiddenValue,   \* this.hiddenFieldNode.value, the control sent to the server
    timerPending,  \* the timeout named by this.timeoutId has not fired or been cleared
    orphanTimers,  \* pending timeouts whose id was overwritten (nobody can clear them)
    progress,      \* this.progress, saved by common.extend in setProgress
    taskState,     \* this.taskState, saved by common.extend in setProgress
    width,         \* innerBarContainer.style.width, in percent
    barVisible,    \* barContainer is displayed
    calls,         \* times funcComplete / funcFailed / funcCanceled were invoked
    requests,      \* environment: begin events not yet served, with the control carried
    responses,     \* environment: answers not yet handed to setProgress or setProps
    task           \* environment: the server-side task

vars == <<type, hiddenValue, timerPending, orphanTimers, progress, taskState,
          width, barVisible, calls, requests, responses, task>>

\* Step of the server's progress, and where the call counters saturate.
Step == 50
CallCap == 2

NoControl == "none"
HiddenValues == {NoControl, "canceled", "paused", "resumed", "stopped"}
TaskStates == {"running", "paused", "stopped", "canceled", "completed", "failed"}
FinalStates == {"canceled", "completed", "failed"}
Percent == {p * Step : p \in 0..(100 \div Step)}
Callbacks == {"complete", "failed", "canceled"}
\* A begin event of the progress or the refresh topic; the request carries
\* the hidden field, and the answer is a snapshot of the task.
Kinds == {"progress", "refresh"}
Request == [kind : Kinds, control : HiddenValues]
Response == [kind : Kinds, progress : Percent, taskState : TaskStates]

-----------------------------------------------------------------------------
(***************************************************************************)
(* progress.processEvent: publish a begin event when refreshRate > 0, then *)
(* setTimeout(createCallback(id), refreshRate), whose id overwrites        *)
(* this.timeoutId.  `pendingNow` and `orphansNow` are the timers as the    *)
(* caller leaves them (after its clearTimeout, if any).                    *)
(***************************************************************************)
UpdateProgress(hv, pendingNow, orphansNow) ==
    /\ requests' = IF RefreshRate > 0
                   THEN Append(requests, [kind |-> "progress", control |-> hv])
                   ELSE requests
    /\ timerPending' = TRUE
    /\ orphanTimers' = orphansNow + (IF pendingNow THEN 1 ELSE 0)

\* Room on the wire for one more begin event (a model bound, see README).
CanPublish == Len(requests) + Len(responses) < MaxInFlight

Call(c) == [calls EXCEPT ![c] = IF @ < CallCap THEN @ + 1 ELSE @]

Init ==
    \* constructor defaults, then fillInTemplate: initProps, updateProgress
    /\ type \in Types
    /\ hiddenValue = NoControl
    /\ progress = 0
    /\ taskState = "running"
    /\ width = 0
    /\ barVisible = TRUE
    /\ calls = [c \in Callbacks |-> 0]
    /\ timerPending = TRUE
    /\ orphanTimers = 0
    /\ requests = IF RefreshRate > 0
                  THEN <<[kind |-> "progress", control |-> NoControl]>> ELSE <<>>
    /\ responses = <<>>
    /\ task = [state |-> "running", progress |-> 0]

\* Variant (mutant): the callback does not find the widget and returns
\* without calling updateProgress.
TimerFiresWidgetGone ==
    /\ \/ /\ timerPending
          /\ timerPending' = FALSE
          /\ UNCHANGED orphanTimers
       \/ /\ orphanTimers > 0
          /\ orphanTimers' = orphanTimers - 1
          /\ UNCHANGED timerPending
    /\ UNCHANGED <<type, hiddenValue, progress, taskState, width, barVisible,
                   calls, requests, responses, task>>

\* A pending timeout fires: createCallback finds the widget by id and calls
\* updateProgress.  Either the timer named by timeoutId or an orphan fires.
TimerFires ==
    /\ CanPublish
    /\ \/ /\ timerPending
          /\ UpdateProgress(hiddenValue, FALSE, orphanTimers)
       \/ /\ orphanTimers > 0
          /\ UpdateProgress(hiddenValue, timerPending, orphanTimers - 1)
    /\ UNCHANGED <<type, hiddenValue, progress, taskState, width, barVisible,
                   calls, responses, task>>

\* Variant (mutant): cancel clears the timer but does not poll.
CancelWithoutPoll ==
    /\ "cancel" \in Controls
    /\ CanPublish
    /\ hiddenValue' = "canceled"
    /\ width' = IF type = "determinate" THEN 0 ELSE width
    /\ timerPending' = FALSE
    /\ UNCHANGED <<type, progress, taskState, barVisible, calls, orphanTimers,
                   requests, responses, task>>

\* progressBar.cancel: clearTimeout, hidden field "canceled", empty bar
\* when determinate, updateProgress.
Cancel ==
    /\ "cancel" \in Controls
    /\ CanPublish
    /\ hiddenValue' = "canceled"
    /\ width' = IF type = "determinate" THEN 0 ELSE width
    /\ UpdateProgress("canceled", FALSE, orphanTimers)
    /\ UNCHANGED <<type, progress, taskState, barVisible, calls, responses, task>>

\* progressBar.pause: clearTimeout, hidden field "paused", (class name of
\* an indeterminate bar), updateProgress.
Pause ==
    /\ "pause" \in Controls
    /\ CanPublish
    /\ hiddenValue' = "paused"
    /\ UpdateProgress("paused", FALSE, orphanTimers)
    /\ UNCHANGED <<type, progress, taskState, width, barVisible, calls,
                   responses, task>>

\* Variant (mutant): resume without its clearTimeout.
ResumeKeepsTimer ==
    /\ "resume" \in Controls
    /\ CanPublish
    /\ hiddenValue' = "resumed"
    /\ UpdateProgress("resumed", timerPending, orphanTimers)
    /\ UNCHANGED <<type, progress, taskState, width, barVisible, calls,
                   responses, task>>

\* progressBar.resume: clearTimeout, hidden field "resumed", (class name),
\* updateProgress.
Resume ==
    /\ "resume" \in Controls
    /\ CanPublish
    /\ hiddenValue' = "resumed"
    /\ UpdateProgress("resumed", FALSE, orphanTimers)
    /\ UNCHANGED <<type, progress, taskState, width, barVisible, calls,
                   responses, task>>

\* Variant (mutant): stop writes a misspelt props constant, i.e. undefined.
StopUndefinedValue ==
    /\ "stop" \in Controls
    /\ CanPublish
    /\ hiddenValue' = "undefined"
    /\ UpdateProgress("undefined", FALSE, orphanTimers)
    /\ UNCHANGED <<type, progress, taskState, width, barVisible, calls,
                   responses, task>>

\* progressBar.stop: clearTimeout, hidden field "stopped".  For an
\* indeterminate bar the next statement writes through
\* this.innerBarIdContainer, which no template attach point defines: the
\* TypeError ends the handler before updateProgress.
Stop ==
    /\ "stop" \in Controls
    /\ CanPublish
    /\ hiddenValue' = "stopped"
    /\ \/ /\ type = "indeterminate"
          /\ timerPending' = FALSE
          /\ UNCHANGED <<requests, orphanTimers>>
       \/ /\ type # "indeterminate"
          /\ UpdateProgress("stopped", FALSE, orphanTimers)
    /\ UNCHANGED <<type, progress, taskState, width, barVisible, calls,
                   responses, task>>

\* refresh.processEvent(execute): publish a refresh begin event; the timer
\* and the hidden field are left alone.  The unbounded wire of the browser
\* is bounded here; a refresh leaves the last place on it to the poll.
Refresh ==
    /\ "refresh" \in Controls
    /\ Len(requests) + Len(responses) < MaxInFlight - 1
    /\ requests' = Append(requests, [kind |-> "refresh", control |-> hiddenValue])
    /\ UNCHANGED <<type, hiddenValue, timerPending, orphanTimers, progress,
                   taskState, width, barVisible, calls, responses, task>>

\* Variant (mutant): setProps also ends the polling loop on a final state,
\* as setProgress does, but runs no page callback.
SetPropsStopsLoop(r) ==
    /\ progress' = r.progress
    /\ taskState' = r.taskState
    /\ width' = IF type = "determinate" THEN progress' ELSE width
    /\ timerPending' = (timerPending /\ r.taskState \notin FinalStates)
    /\ UNCHANGED <<barVisible, calls>>

\* progressBar.setProps(props) with the refresh answer: common.extend saves
\* progress and taskState, and a determinate bar is drawn at this.progress.
\* The code tests props.type; the answer renders the same widget, so its
\* type is this.type.
\* setProps neither clamps the progress, nor clears the timer, nor runs a
\* page callback; the rest of it is text, classes and sizes.
SetProps(r) ==
    /\ progress' = r.progress
    /\ taskState' = r.taskState
    /\ width' = IF type = "determinate" THEN progress' ELSE width
    /\ UNCHANGED <<timerPending, barVisible, calls>>

(***************************************************************************)
(* progressBar.setProgress(props), called by the AJAX layer with a         *)
(* response.  The progress is clamped to 100, saved with common.extend,    *)
(* drawn on a determinate bar; then the first matching branch runs.        *)
(***************************************************************************)
SetProgress(r) ==
    LET done == r.progress > 99 \/ r.taskState = "completed"
        p    == IF done THEN 100 ELSE r.progress
        w    == IF type = "determinate" THEN p ELSE width
    IN  /\ progress' = p
        /\ taskState' = r.taskState
        /\ \/ /\ r.taskState = "failed"
              /\ timerPending' = FALSE
              /\ barVisible' = FALSE
              /\ width' = w
              /\ calls' = Call("failed")
           \/ /\ r.taskState = "canceled"
              /\ timerPending' = FALSE
              /\ barVisible' = FALSE
              /\ width' = IF type = "determinate" THEN 0 ELSE w
              /\ calls' = Call("canceled")
           \/ /\ r.taskState \in {"paused", "stopped"}
              /\ timerPending' = FALSE
              /\ width' = w
              /\ UNCHANGED <<barVisible, calls>>
           \/ /\ r.taskState \notin {"failed", "canceled", "paused", "stopped"}
              /\ done
              /\ timerPending' = FALSE
              /\ barVisible' = (barVisible /\ type # "busy")
              /\ width' = w
              /\ calls' = Call("complete")
           \/ /\ r.taskState \notin {"failed", "canceled", "paused", "stopped"}
              /\ ~done
              /\ width' = w
              /\ UNCHANGED <<timerPending, barVisible, calls>>

-----------------------------------------------------------------------------
(* Environment: the server task and the AJAX layer.                        *)

\* How the server task reacts to the control value a request carries.
ApplyControl(t, c) ==
    CASE c = "canceled" /\ t.state \in {"running", "paused"}
            -> [t EXCEPT !.state = "canceled"]
      [] c = "paused" /\ t.state = "running"
            -> [t EXCEPT !.state = "paused"]
      [] c = "resumed" /\ t.state = "paused"
            -> [t EXCEPT !.state = "running"]
      [] c = "stopped" /\ t.state \in {"running", "paused"}
            -> [t EXCEPT !.state = "stopped"]
      [] OTHER -> t

\* The task runs on the server whether or not anybody polls.
TaskAdvances ==
    /\ task.state = "running"
    /\ \/ /\ task.progress + Step < 100
          /\ task' = [task EXCEPT !.progress = @ + Step]
       \/ task' = [state |-> "completed", progress |-> 100]
       \/ task' = [task EXCEPT !.state = "failed"]
    /\ UNCHANGED <<type, hiddenValue, timerPending, orphanTimers, progress,
                   taskState, width, barVisible, calls, requests, responses>>

\* The server serves the oldest begin event and answers with a snapshot.
Serve ==
    /\ requests # <<>>
    /\ LET t == ApplyControl(task, Head(requests).control)
       IN  /\ task' = t
           /\ responses' = Append(responses,
                                  [kind |-> Head(requests).kind,
                                   progress |-> t.progress, taskState |-> t.state])
    /\ requests' = Tail(requests)
    /\ UNCHANGED <<type, hiddenValue, timerPending, orphanTimers, progress,
                   taskState, width, barVisible, calls>>

\* The AJAX layer hands a response to setProgress (progress events) or to
\* setProps (refresh events): the oldest one, or any one when responses
\* may overtake each other.
Deliver ==
    /\ \E i \in 1..Len(responses) :
          /\ Reorder \/ i = 1
          /\ \/ responses[i].kind = "progress" /\ SetProgress(responses[i])
             \/ responses[i].kind = "refresh" /\ SetProps(responses[i])
          /\ responses' = RemoveAt(responses, i)
    /\ UNCHANGED <<type, hiddenValue, orphanTimers, requests, task>>

-----------------------------------------------------------------------------
Next ==
    \/ TimerFires
    \/ Cancel \/ Pause \/ Resume \/ Stop \/ Refresh
    \/ TaskAdvances \/ Serve \/ Deliver

\* The browser runs due timeouts and the transport eventually answers; the
\* user and the server task owe nothing.
Fairness == WF_vars(TimerFires) /\ WF_vars(Serve) /\ WF_vars(Deliver)

Spec == Init /\ [][Next]_vars /\ Fairness

-----------------------------------------------------------------------------
TypeOK ==
    /\ type \in Types
    /\ hiddenValue \in HiddenValues
    /\ timerPending \in BOOLEAN
    /\ orphanTimers \in Nat
    /\ progress \in Percent
    /\ taskState \in TaskStates
    /\ width \in Percent
    /\ barVisible \in BOOLEAN
    /\ calls \in [Callbacks -> 0..CallCap]
    /\ requests \in Seq(Request)
    /\ responses \in Seq(Response)
    /\ task \in [state : TaskStates, progress : Percent]

\* At most one polling loop: every path that arms a timeout (the buttons,
\* the timer callback, construction) first clears or consumes the one that
\* this.timeoutId names, so no timeout is ever left that clearTimeout
\* cannot reach.
SinglePollingLoop == orphanTimers = 0

\* The widget has stopped polling: no timeout pending, nothing on the wire.
Idle ==
    /\ ~timerPending
    /\ orphanTimers = 0
    /\ requests = <<>>
    /\ responses = <<>>

\* When the widget stops polling, the state and progress it shows are the
\* server task's own: setProgress only ends the loop on a state the task
\* cannot leave without a new control from the page.
IdleMeansInSync ==
    Idle => /\ taskState = task.state
            /\ progress = task.progress

\* Once the server task has finished (completed, failed or canceled), the
\* widget eventually shows that state: the polling loop keeps running until
\* setProgress sees a final state.
EventuallyShown ==
    \A s \in FinalStates : (task.state = s) ~> (taskState = s)
\* The page callback of a final state: funcComplete, funcFailed, funcCanceled.
CallbackOf(s) == CASE s = "completed" -> "complete"
                   [] s = "failed"    -> "failed"
                   [] s = "canceled"  -> "canceled"

\* Once the server task has finished, the page's callback for that state
\* eventually runs.  Only setProgress runs it: a refresh answer handed to
\* setProps may show the final state first, and then only a poll that is
\* still running can carry the state to setProgress.
EventuallyNotified ==
    \A s \in FinalStates : (task.state = s) ~> (calls[CallbackOf(s)] > 0)
=============================================================================
