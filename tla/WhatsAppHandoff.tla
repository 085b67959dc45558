--------------------------- MODULE WhatsAppHandoff ---------------------------
(***************************************************************************)
(* Who answers one WhatsApp contact: the AI or a human                     *)
(* (modules/channels/handoff.py, the echo and turn handlers of             *)
(* api/whatsapp_webhook.py, the endpoints of api/customer_inbox.py).       *)
(*                                                                         *)
(* A colleague's reply from the WhatsApp Business App reaches the webhook  *)
(* as an echo.  At ingress it sets a Redis marker that expires; later the  *)
(* worker processes the echo and puts the session under human control for  *)
(* ten minutes.  Return to AI - a command typed in the app, or the Inbox's *)
(* return-ai - resumes the AI and remembers the echo whose marker was      *)
(* pending, so that the old echo does not take control again.  A           *)
(* customer's turn looks at session and marker when it starts and again    *)
(* when the answer is ready; then it commits, then it posts the answer.    *)
(* Nobody looks again: not at the post, nor when the delivery of an answer *)
(* that did not get through is replayed later.                             *)
(*                                                                         *)
(* Every transaction locks the conversation row until it ends.  The Inbox  *)
(* loads the session after that lock, the worker before it; a write sends  *)
(* the columns that differ from what was loaded.                           *)
(***************************************************************************)
EXTENDS Integers

CONSTANTS Replies,     \* replies a colleague may type in the Business App
          Commands,    \* return-to-AI commands typed there
          None,
          Window,      \* ten minutes: takeover and marker TTL
          MaxTime,     \* bound: the clock
          Late,        \* may Meta deliver an echo's webhook late?
          MaxControls  \* bound: control decisions that are no echoes

Echoes == Replies \cup Commands

ASSUME HandoffAssumption ==
    /\ Replies \cap Commands = {} /\ None \notin Echoes \cup Int
    /\ Echoes \cap {"turn", "takeover"} = {}
    /\ Window \in Nat \ {0} /\ {MaxTime, MaxControls} \subseteq Nat
    /\ Late \in BOOLEAN

VARIABLES races,   \* may Inbox and worker transactions overlap?
          clock,
          stage,   \* of each echo: "unsent", "sent", "queued", "done"
          sentAt,  \* Meta's timestamp of each echo
          marker, markerEnd, \* the Redis key: an echo id and its expiry
          session, \* the committed WhatsAppSession
          record,  \* the active HumanHandoff row: "none", or its reason
          worker,  \* what the one worker is doing
          portal,  \* the Inbox's return-ai request
          unsent,  \* of a committed answer that has not left yet: the
                   \* replies that were recent when it was checked
          controls,
          taken,   \* history: since the last explicit return to AI, someone
                   \* took control
          returned,\* history: the time of that return, None without one
          opened,  \* history: control was taken without a time limit
          lapsed   \* history: a pause ended while the marker of another
                   \* reply was still there

redis   == <<marker, markerEnd>>
history == <<taken, returned, opened, lapsed>>
vars    == <<races, clock, stage, sentAt, redis, session, record, worker,
             portal, unsent, controls, history>>

Free == [doing |-> "nothing", locked |-> FALSE]

Init ==
    /\ races \in BOOLEAN
    /\ clock = 0
    /\ stage = [e \in Echoes |-> "unsent"]
    /\ sentAt = [e \in Echoes |-> None]
    /\ marker = None /\ markerEnd = 0
    /\ session = [human |-> FALSE, app |-> FALSE, until |-> None,
                  resumedAt |-> None, resumeEcho |-> None]
    /\ record = "none"
    /\ worker = Free /\ portal = Free /\ unsent = {}
    /\ controls = 0
    /\ taken = FALSE /\ returned = None /\ opened = FALSE /\ lapsed = FALSE

-----------------------------------------------------------------------------
(* handoff.py: functions of a session.                                     *)

\* human_marker: what GET returns now.
Marker == IF marker # None /\ clock < markerEnd THEN marker ELSE None

\* Mutant: a deadline is kept whatever the reason of the earlier takeover.
ActivateAppKeeping(s, now, humanMessage) ==
    [s EXCEPT !.human = TRUE, !.app = TRUE,
              !.until = IF s.human THEN s.until ELSE now + Window]

\* activate_human_handoff with reason business_app_reply.
ActivateApp(s, now, humanMessage) ==
    LET preserve == ~humanMessage /\ s.human /\ s.app /\ s.until # None
    IN [s EXCEPT !.human = TRUE, !.app = TRUE,
                 !.until = IF preserve THEN s.until ELSE now + Window]

\* activate_human_handoff with any other reason: no deadline.
ActivateOpen(s) == [s EXCEPT !.human = TRUE, !.app = FALSE, !.until = None]

resume_ai(s, now) ==
    [human |-> FALSE, app |-> FALSE, until |-> None,
     resumedAt |-> now, resumeEcho |-> Marker]

\* human_handoff_active, and the session it leaves: expired control resumes.
Expired(s) == s.human /\ IF s.until = None THEN FALSE ELSE clock >= s.until
Active(s)  == s.human /\ ~Expired(s)
Settled(s) == IF Expired(s) THEN resume_ai(s, clock) ELSE s

\* _echo_precedes_explicit_ai_resume
Stale(s, e) ==
    IF s.resumedAt = None THEN FALSE
    ELSE s.resumeEcho = e \/ sentAt[e] < s.resumedAt

\* The ORM sends the columns of new that differ from the loaded ones.
Write(loaded, new) ==
    [c \in DOMAIN session |->
        IF new[c] = loaded[c] THEN session[c] ELSE new[c]]

\* Mutant: an unknown reason is stored.
ReasonText(s) == IF s.app THEN "business_app_reply" ELSE "human_active"

\* _ensure_handoff_record: an active row gets the session's reason.
Reason(s) == IF s.app THEN "app" ELSE "other"

-----------------------------------------------------------------------------
(* Time, the colleague's phone and the webhook's ingress.                  *)

\* A tick is minutes: generating an answer spans ticks, no other transaction
\* does.
Tick ==
    /\ clock < MaxTime
    /\ worker.doing \in {"nothing", "chat"} /\ portal = Free
    /\ ~Late => \A e \in Echoes : stage[e] # "sent"
    /\ clock' = clock + 1
    /\ UNCHANGED <<races, stage, sentAt, redis, session, record, worker,
                   portal, unsent, controls, history>>

Send(e) ==
    /\ stage[e] = "unsent"
    /\ stage' = [stage EXCEPT ![e] = "sent"]
    /\ sentAt' = [sentAt EXCEPT ![e] = clock]
    /\ taken' = TRUE
    /\ UNCHANGED <<races, clock, redis, session, record, worker, portal,
                   unsent, controls, returned, opened, lapsed>>

\* _mark_incoming_echoes, then the job is queued.
Ingress(e) ==
    /\ stage[e] = "sent"
    /\ stage' = [stage EXCEPT ![e] = "queued"]
    /\ marker' = e /\ markerEnd' = clock + Window
    /\ UNCHANGED <<races, clock, sentAt, session, record, worker, portal,
                   unsent, controls, history>>

-----------------------------------------------------------------------------
(* The worker takes a job: an echo or a customer's message.  A failed job  *)
(* is retried later, so the order of the jobs is open.  It loads the       *)
(* session, then waits for the conversation.                               *)

Load(job) ==
    /\ worker = Free
    /\ ~races => portal = Free
    /\ job # "turn" => stage[job] = "queued"
    /\ worker' = [doing |-> "job", job |-> job, loaded |-> session,
                  locked |-> FALSE]
    /\ UNCHANGED <<races, clock, stage, sentAt, redis, session, record, portal,
                   unsent, controls, history>>

Has(job) == worker.doing = "job" /\ worker.job = job /\ ~portal.locked

\* A reply takes control, unless an explicit return to AI is newer.
ProcessReply(e) ==
    /\ e \in Replies /\ Has(e)
    /\ LET s == worker.loaded
           new == IF ~Stale(s, e) THEN ActivateApp(s, sentAt[e], TRUE)
                  ELSE IF s.resumeEcho = e THEN [s EXCEPT !.resumeEcho = None]
                  ELSE s
       IN /\ session' = Write(s, new)
          /\ record' = IF Stale(s, e) THEN record ELSE "app"
    /\ stage' = [stage EXCEPT ![e] = "done"]
    /\ worker' = Free
    /\ UNCHANGED <<races, clock, sentAt, redis, portal, unsent, controls,
                   history>>

\* A command: read the marker, resume and commit, then clear what was read.
CommandReads(e) ==
    /\ e \in Commands /\ Has(e)
    /\ worker' = [doing |-> "command", job |-> e, loaded |-> worker.loaded,
                  marker |-> Marker, locked |-> TRUE]
    /\ UNCHANGED <<races, clock, stage, sentAt, redis, session, record, portal,
                   unsent, controls, history>>

\* An explicit decision of time t, typed as echo by or made in the Inbox,
\* makes earlier takeovers void.
Returned(t, by) ==
    /\ returned' = t
    /\ opened' = FALSE
    /\ taken' = \E e \in Echoes \ {by} :
                    IF sentAt[e] = None THEN FALSE ELSE sentAt[e] >= t
    /\ UNCHANGED lapsed

CommandCommits ==
    /\ worker.doing = "command"
    /\ LET t == sentAt[worker.job]
       IN /\ session' = Write(worker.loaded, resume_ai(worker.loaded, t))
          /\ Returned(t, worker.job)
    /\ record' = "none"
    /\ stage' = [stage EXCEPT ![worker.job] = "done"]
    /\ worker' = [doing |-> "clear", marker |-> worker.marker,
                  locked |-> FALSE]
    /\ UNCHANGED <<races, clock, sentAt, redis, portal, unsent, controls>>

\* Mutant: the marker is left to expire.
KeepMarker(m) == UNCHANGED redis

\* clear_human_marker deletes the key only if it still holds m.
clear_human_marker(m) ==
    /\ marker' = IF m # None /\ Marker = m THEN None ELSE marker
    /\ UNCHANGED markerEnd

CommandClears ==
    /\ worker.doing = "clear"
    /\ clear_human_marker(worker.marker)
    /\ worker' = Free
    /\ UNCHANGED <<races, clock, stage, sentAt, session, record, portal,
                   unsent, controls, history>>

-----------------------------------------------------------------------------
(* The worker: a customer's turn.                                          *)

\* The session as the turn sees it once the marker has been looked at.
AtStart ==
    LET s == worker.loaded
    IN IF Marker # None THEN ActivateApp(s, clock, FALSE) ELSE s

\* A human holds the conversation: the message goes to the Inbox.
TurnToHuman ==
    /\ Has("turn") /\ Active(AtStart)
    /\ session' = Write(worker.loaded, AtStart)
    /\ record' = Reason(AtStart)
    /\ worker' = Free
    /\ UNCHANGED <<races, clock, stage, sentAt, redis, portal, unsent,
                   controls, history>>

\* The customer asks for a human.
TurnAsksHuman ==
    /\ Has("turn") /\ ~Active(AtStart)
    /\ controls < MaxControls
    /\ controls' = controls + 1
    /\ session' = Write(worker.loaded, ActivateOpen(Settled(AtStart)))
    /\ record' = "other"
    /\ worker' = Free
    /\ taken' = TRUE /\ opened' = TRUE
    /\ UNCHANGED <<races, clock, stage, sentAt, redis, portal, returned,
                   lapsed, unsent>>

\* The AI generates: view is the session in the turn's open transaction.
TurnBegins ==
    /\ Has("turn") /\ ~Active(AtStart)
    /\ worker' = [doing |-> "chat", locked |-> TRUE,
                  view |-> Write(worker.loaded, Settled(AtStart))]
    /\ lapsed' = (lapsed \/ (Expired(AtStart) /\ Marker # None))
    /\ UNCHANGED <<races, clock, stage, sentAt, redis, session, record, portal,
                   unsent, controls, taken, returned, opened>>

\* A business action commits what the turn has written and frees the row.
ActionCommits ==
    /\ worker.doing = "chat" /\ worker.locked
    /\ session' = worker.view
    /\ record' = IF worker.view.human THEN "other"
                 ELSE IF session.human THEN "none" ELSE record
    /\ worker' = [worker EXCEPT !.locked = FALSE]
    /\ UNCHANGED <<races, clock, stage, sentAt, redis, portal, unsent,
                   controls, history>>

\* db.refresh(session) once the answer is stored, which locks again.
View == IF worker.locked THEN worker.view ELSE session
Generated == worker.doing = "chat" /\ ~portal.locked

\* Mutant: the marker is only looked at when the turn starts.
TakenOverInSession == Active(View)

TakenOver == Active(View) \/ Marker # None

\* The AI calls its human_handoff tool.
AgentHandsOff ==
    /\ Generated
    /\ controls < MaxControls
    /\ controls' = controls + 1
    /\ worker' = [worker EXCEPT !.view = ActivateOpen(View), !.locked = TRUE]
    /\ taken' = TRUE /\ opened' = TRUE
    /\ UNCHANGED <<races, clock, stage, sentAt, redis, session, record, portal,
                   returned, lapsed, unsent>>

\* The colleague's replies of the last ten minutes that the webhook has
\* received.
Recent == {e \in Replies : /\ stage[e] \in {"queued", "done"}
                           /\ clock < sentAt[e] + Window}

\* Nobody took over: human_handoff_active leaves a settled session.
TurnChecks ==
    /\ Generated
    /\ ~TakenOver
    /\ worker' = [doing |-> "checked", locked |-> TRUE, view |-> Settled(View),
                  heard |-> Recent]
    /\ UNCHANGED <<races, clock, stage, sentAt, redis, session, record, portal,
                   unsent, controls, history>>

\* The answer and its delivery row are committed; the worker goes on to post
\* it.  (One answer at a time is followed, and only if replies were recent: a
\* post touches nothing that others need.)
TurnReplies ==
    /\ worker.doing = "checked"
    /\ session' = worker.view
    /\ record' = IF session.human THEN "none" ELSE record
    /\ unsent' \in {unsent, worker.heard}
    /\ worker' = Free
    /\ UNCHANGED <<races, clock, stage, sentAt, redis, portal, controls,
                   history>>

\* The answer gets through: at the worker's post, when the retried job finds
\* a delivery that failed or never began, or at an administrator's retry.
\* None of them looks at session or marker.
AnswerLeaves ==
    /\ unsent # {}
    /\ unsent' = {}
    /\ UNCHANGED <<races, clock, stage, sentAt, redis, session, record, worker,
                   portal, controls, history>>

\* Somebody did: roll back and load the session again ...
TurnIsTakenOver ==
    /\ Generated
    /\ TakenOver
    /\ worker' = [doing |-> "job", job |-> "takeover", loaded |-> session,
                  locked |-> FALSE]
    /\ UNCHANGED <<races, clock, stage, sentAt, redis, session, record, portal,
                   unsent, controls, history>>

\* ... then hand the message over, without a deadline.
TurnHandsOver ==
    /\ Has("takeover")
    /\ session' = Write(worker.loaded, ActivateOpen(worker.loaded))
    /\ record' = "other"
    /\ worker' = Free
    /\ UNCHANGED <<races, clock, stage, sentAt, redis, portal, unsent,
                   controls, history>>

-----------------------------------------------------------------------------
(* The Inbox: it locks the conversation first.                             *)

PortalMayStart ==
    /\ portal = Free /\ ~worker.locked
    /\ ~races => worker = Free
    /\ controls < MaxControls
    /\ controls' = controls + 1

\* take-over: an active handoff row lends its reason.
PortalTakesOver ==
    /\ PortalMayStart
    /\ session' = IF record = "app" THEN ActivateApp(session, clock, FALSE)
                                    ELSE ActivateOpen(session)
    /\ record' = IF record = "none" THEN "other" ELSE record
    /\ taken' = TRUE /\ opened' = TRUE
    /\ UNCHANGED <<races, clock, stage, sentAt, redis, worker, portal,
                   returned, lapsed, unsent>>

\* return-ai: read the marker, resume and commit, clear what was read.
PortalReads ==
    /\ PortalMayStart
    /\ portal' = [doing |-> "return", marker |-> Marker, locked |-> TRUE]
    /\ UNCHANGED <<races, clock, stage, sentAt, redis, session, record, worker,
                   history, unsent>>

PortalCommits ==
    /\ portal.doing = "return"
    /\ session' = resume_ai(session, clock)
    /\ Returned(clock, None)
    /\ record' = "none"
    /\ portal' = [portal EXCEPT !.doing = "clear", !.locked = FALSE]
    /\ UNCHANGED <<races, clock, stage, sentAt, redis, worker, unsent,
                   controls>>

PortalClears ==
    /\ portal.doing = "clear"
    /\ clear_human_marker(portal.marker)
    /\ portal' = Free
    /\ UNCHANGED <<races, clock, stage, sentAt, session, record, worker,
                   unsent, controls, history>>

Next ==
    \/ Tick
    \/ \E e \in Echoes : \/ Send(e) \/ Ingress(e) \/ Load(e)
                         \/ ProcessReply(e) \/ CommandReads(e)
    \/ CommandCommits \/ CommandClears
    \/ Load("turn") \/ TurnToHuman \/ TurnAsksHuman \/ TurnBegins
    \/ ActionCommits \/ AgentHandsOff
    \/ TurnChecks \/ TurnReplies \/ AnswerLeaves
    \/ TurnIsTakenOver \/ TurnHandsOver
    \/ PortalTakesOver \/ PortalReads \/ PortalCommits \/ PortalClears

Spec == Init /\ [][Next]_vars

-----------------------------------------------------------------------------
(* Properties.                                                             *)

Times == 0 .. MaxTime

TypeOK ==
    /\ clock \in Times
    /\ stage \in [Echoes -> {"unsent", "sent", "queued", "done"}]
    /\ sentAt \in [Echoes -> Times \cup {None}]
    /\ marker \in Echoes \cup {None}
    /\ session \in [human : BOOLEAN, app : BOOLEAN,
                    until : Nat \cup {None}, resumedAt : Times \cup {None},
                    resumeEcho : Echoes \cup {None}]
    /\ record \in {"none", "app", "other"}
    /\ worker.doing \in {"nothing", "job", "chat", "checked", "command",
                        "clear"}
    /\ unsent \subseteq Replies
    /\ portal.doing \in {"nothing", "return", "clear"}
    /\ {races, worker.locked, portal.locked, taken, opened, lapsed}
          \subseteq BOOLEAN

\* A colleague's reply that the webhook has received, of the last ten
\* minutes and newer than any explicit return to AI.
InControl(e) ==
    /\ stage[e] \in {"queued", "done"}
    /\ clock < sentAt[e] + Window
    /\ IF returned = None THEN TRUE ELSE sentAt[e] > returned

\* No return-to-AI command was typed in the app: a command deletes the marker
\* of a reply that is newer than itself.
NoCommand == \A c \in Commands : stage[c] = "unsent"

\* The AI never answers over such a reply that was received before the answer
\* was checked, whether its echo was only marked, being processed, or arrived
\* while the answer was being generated - however much later the answer gets
\* through.  (A reply received after the check is answered over.)
AiNeverTalksOver ==
    [][AnswerLeaves /\ NoCommand => \A e \in unsent : ~InControl(e)]_vars

\* An explicit return to AI resumes automation: it stands until somebody
\* takes control again, unless the two transactions overlap.
ReturnStands == ~races /\ session.human => taken

\* "A real reply from the WhatsApp Business App pauses AI for ten minutes by
\* default.  Every newer Business App reply resets that window."  Replies from
\* the app alone pause the AI for a bounded time, until a pause runs out while
\* the marker of another reply is still there - a newer reply that waits to be
\* processed, or was processed before an older one: the turn that notices
\* resumes the AI and takes that reply for an old one.
FirstPauseIsBounded ==
    /\ ~races /\ ~lapsed
    /\ session.human /\ session.until = None
    /\ worker = Free
    /\ \A e \in Echoes : stage[e] # "queued"
    => opened
=============================================================================
