---- MODULE Viewer ----
(***************************************************************************)
(* The live canvas of the page (runtime/web/app.js, startViewer) and the    *)
(* snapshots it shows (runtime/daemon/server.mjs, notify and the routes     *)
(* /api/state, /api/events and /api/control).                               *)
(*                                                                          *)
(* Three paths bring a snapshot: a connect, the stream it opens and the     *)
(* refresh after a control. Only two snapshots that follow one another on   *)
(* one unbroken stream may be compared for arrivals; the baseline for that  *)
(* is reset by whatever comes in between.                                   *)
(***************************************************************************)
EXTENDS Naturals, Sequences, FiniteSets, SequencesExt

CONSTANTS
    Nodes, ViewerSessions, NoSession,
    MaxEffects,         \* MAX_EFFECTS
    MaxVersions,        \* bound: snapshots the daemon publishes
    MaxConnects,        \* bound: connects
    MaxActs             \* bound: failures, garbled snapshots and acts of the user

ASSUME ViewerAssumption == IsFiniteSet(Nodes) /\ {MaxEffects, MaxVersions, MaxConnects, MaxActs} \subseteq Nat

VARIABLES
    log,        \* the daemon: every snapshot published, the newest last
    wire,       \* snapshots sent on the stream and not delivered
    stream,     \* state.stream: "none", "opening", "open", "broken" or "refused"
    attempt,    \* state.connectEpoch
    connects,   \* connects that wait for /api/state
    connection, \* state.connection
    banner,     \* whether the error banner is shown
    control,    \* state.busy, how far the control is, and whether state.epoch is as it was
    shown,      \* state.snapshot, as a version of the log; 0 before the first
    replay,     \* state.replayFrame; 0 when live
    motion,     \* state.motionReady
    appear,     \* state.effects: nodes that appear
    burst,      \* state.effects: nodes that vanish
    quiet,      \* why nothing may move: "no", "still" (hidden, reduced motion), "unfollowed"
    canvas,     \* "snapshots", or "views" once a view is drawn (state.platformActive)
    page,       \* "here", "away" (pagehide) or "closed"
    delivered,      \* for the properties: the last snapshot this stream delivered, unbroken
    acts        \* what is left of MaxActs

daemonVars == <<log, wire>>
linkVars == <<stream, attempt, connects, connection>>
pictureVars == <<shown, replay, motion, appear, burst>>
viewerVars == <<daemonVars, linkVars, pictureVars, banner, control, quiet, canvas, page, delivered, acts>>

Snapshots == [session : ViewerSessions, nodes : SUBSET Nodes]
NoControl == [at |-> "idle", target |-> NoSession, fresh |-> FALSE, version |-> 0]

ViewerTypeOK ==
    /\ log \in Seq(Snapshots) /\ wire \in Seq(DOMAIN log)
    /\ stream \in {"none", "opening", "open", "broken", "refused"}
    /\ attempt \in Nat \ {0} /\ connects \subseteq [attempt : 1..attempt, version : 0..Len(log)]
    /\ connection \in {"connecting", "connected", "reconnecting", "error", "auth"}
    /\ control \in [at : {"idle", "posting", "posted", "refreshing"},
                    target : ViewerSessions \union {NoSession}, fresh : BOOLEAN, version : 0..Len(log)]
    /\ shown \in 0..Len(log) /\ replay \in 0..Len(log) /\ delivered \in 0..Len(log)
    /\ {motion, banner} \subseteq BOOLEAN /\ appear \subseteq Nodes /\ burst \subseteq Nodes
    /\ quiet \in {"no", "still", "unfollowed"} /\ canvas \in {"snapshots", "views"}
    /\ page \in {"here", "away", "closed"} /\ acts \in 0..MaxActs

\* startViewer connects at once.
ViewerInit ==
    /\ log \in {<<s>> : s \in Snapshots} /\ wire = <<>> /\ stream = "none"
    /\ attempt = 1 /\ connects = {[attempt |-> 1, version |-> 0]} /\ connection = "connecting"
    /\ banner = FALSE /\ control = NoControl /\ shown = 0 /\ replay = 0
    /\ motion = FALSE /\ appear = {} /\ burst = {} /\ quiet = "no" /\ canvas = "snapshots"
    /\ page = "here" /\ delivered = 0 /\ acts = MaxActs

Runs == page = "here"
Spent == acts > 0 /\ acts' = acts - 1
Newest == Len(log)
----
(***************************************************************************)
(* The daemon.                                                              *)
(***************************************************************************)
\* notify: the newest snapshot goes to every open stream.
Publish(s) ==
    /\ Newest < MaxVersions
    /\ log' = Append(log, s)
    /\ wire' = IF stream = "open" THEN Append(wire, Newest + 1) ELSE wire

ViewerDaemonChanges ==
    /\ \E s \in Snapshots : s.session = Last(log).session /\ Publish(s)
    /\ UNCHANGED <<linkVars, pictureVars, banner, control, quiet, canvas, page, delivered, acts>>
----
(***************************************************************************)
(* What is drawn.                                                           *)
(***************************************************************************)
\* resetMotionBaseline.
Reset == motion' = FALSE /\ appear' = {} /\ burst' = {}

\* The effects of `changed` that still fit beside `others`.
Fitting(changed, others, chosen) ==
    /\ chosen \subseteq changed /\ Cardinality(chosen \union others) <= MaxEffects
    /\ chosen # changed => Cardinality(chosen \union others) = MaxEffects

\* animateChanges: a node that is back ends its burst, also while nothing may move.
Animate(added, removed, before, drawn) ==
    LET kept == before.burst \ drawn IN
    \/ /\ quiet = "still" /\ appear' = before.appear /\ burst' = kept
    \/ /\ quiet # "still"
       /\ \E gone \in SUBSET removed, new \in SUBSET added :
            /\ Fitting(removed, (kept \union before.appear) \ removed, gone)
            /\ burst' = (kept \ (removed \union added)) \union gone
            /\ Fitting(added, (burst' \union (before.appear \ removed)) \ added, new)
            /\ appear' = (before.appear \ (removed \union added)) \union new

\* acceptSnapshot: a refresh or a connect sets no baseline and is compared with none; a
\* snapshot of another session starts a new picture.
Compared(v, streamed, switched) ==
    /\ canvas = "snapshots" /\ quiet = "no" /\ streamed /\ motion /\ ~switched /\ replay = 0

Accept(v, streamed, busy) ==
    LET switched == shown # 0 /\ log'[v].session # log'[shown].session
        frame == IF switched THEN 0 ELSE replay
        new == log'[v].nodes
        old == IF shown = 0 THEN {} ELSE log'[shown].nodes
        compared == Compared(v, streamed, switched)
        before == IF streamed /\ ~switched /\ shown # 0
                  THEN [appear |-> appear, burst |-> burst] ELSE [appear |-> {}, burst |-> {}]
    IN  /\ shown' = v /\ replay' = frame /\ control' = [busy EXCEPT !.fresh = FALSE]
        /\ Animate(IF compared THEN new \ old ELSE {}, IF compared THEN old \ new ELSE {},
                   before, IF frame = 0 THEN new ELSE log'[frame].nodes)
        /\ motion' = (streamed /\ frame = 0 /\ quiet # "still" /\ page # "closed")

EffectEnds ==
    /\ \E n \in appear \union burst : appear' = appear \ {n} /\ burst' = burst \ {n}
    /\ UNCHANGED <<daemonVars, linkVars, shown, replay, motion, banner, control, quiet,
                   canvas, page, delivered, acts>>
----
(***************************************************************************)
(* Connecting.                                                              *)
(***************************************************************************)
\* connect(): by the button, when the network is back, or when the page is shown again.
Connect ==
    /\ attempt < MaxConnects
    /\ attempt' = attempt + 1
    /\ connects' = connects \union {[attempt |-> attempt + 1, version |-> 0]}
    /\ stream' = "none" /\ wire' = <<>> /\ delivered' = 0
    /\ connection' = "connecting" /\ banner' = FALSE
    /\ Reset

Retry ==
    /\ Runs /\ connection # "connected" /\ Connect
    /\ UNCHANGED <<log, shown, replay, control, quiet, canvas, page, acts>>

PageShows ==
    /\ page = "away" /\ page' = "here" /\ Connect
    /\ UNCHANGED <<log, shown, replay, control, quiet, canvas, acts>>

StateServed(c) ==
    /\ c.version = 0
    /\ connects' = (connects \ {c}) \union {[c EXCEPT !.version = Newest]}
    /\ UNCHANGED <<daemonVars, stream, attempt, connection, pictureVars, banner, control, quiet,
                   canvas, page, delivered, acts>>

\* An answer to a connect that another connect, or close, has replaced is dropped.
Outdated(c) == c.attempt # attempt

Connected(c) ==
    /\ Runs /\ c.version # 0 /\ ~ Outdated(c)
    /\ connects' = connects \ {c}
    /\ stream' = "opening"
    /\ UNCHANGED <<log, wire, attempt, connection, banner, quiet, canvas, page, delivered, acts>>
    /\ Accept(c.version, FALSE, control)

ConnectFails(c) ==
    /\ Runs /\ ~ Outdated(c) /\ Spent
    /\ connects' = connects \ {c}
    /\ connection' \in {"auth", "error"} /\ banner' = TRUE
    /\ UNCHANGED <<daemonVars, stream, attempt, pictureVars, control, quiet, canvas, page, delivered>>

ConnectOutdated(c) ==
    /\ page # "away" /\ Outdated(c)
    /\ connects' = connects \ {c}
    /\ UNCHANGED <<daemonVars, stream, attempt, connection, pictureVars, banner, control, quiet,
                   canvas, page, delivered, acts>>
----
(***************************************************************************)
(* The stream.                                                              *)
(***************************************************************************)
\* /api/events: a stream begins with the newest snapshot. The browser opens a broken one again.
StreamOpens ==
    /\ Runs /\ stream \in {"opening", "broken"}
    /\ stream' = "open" /\ wire' = <<Newest>> /\ connection' = "connected"
    /\ UNCHANGED <<log, attempt, connects, pictureVars, banner, control, quiet, canvas, page,
                   delivered, acts>>

Lost == /\ Reset /\ delivered' = 0
StreamBreaks ==
    /\ Runs /\ stream \in {"opening", "open", "broken"} /\ Spent
    /\ stream' \in {"broken", "refused"} /\ wire' = <<>>
    /\ connection' = "reconnecting" /\ banner' = TRUE
    /\ UNCHANGED <<log, attempt, connects, shown, replay, control, quiet, canvas, page>>
    /\ Lost

StreamDelivers ==
    /\ Runs /\ stream = "open" /\ wire # <<>>
    /\ wire' = Tail(wire) /\ delivered' = Head(wire)
    /\ connection' = "connected" /\ banner' = FALSE
    /\ UNCHANGED <<log, stream, attempt, connects, quiet, canvas, page, acts>>
    /\ Accept(Head(wire), TRUE, control)

\* A snapshot that is too large or cannot be read is ignored.
StreamGarbles ==
    /\ Runs /\ stream = "open" /\ wire # <<>> /\ Spent
    /\ wire' = Tail(wire) /\ banner' = TRUE /\ delivered' = 0 /\ Reset
    /\ UNCHANGED <<log, linkVars, shown, replay, control, quiet, canvas, page>>
----
(***************************************************************************)
(* Controls.                                                                *)
(***************************************************************************)
\* control(): pause and resume (no session), or another session.
ControlPosted(target) ==
    /\ Runs /\ connection = "connected" /\ shown # 0 /\ control = NoControl /\ Spent
    /\ control' = [NoControl EXCEPT !.at = "posting", !.target = target] /\ banner' = FALSE
    /\ \/ target # NoSession /\ Reset
       \/ target = NoSession /\ UNCHANGED <<motion, appear, burst>>
    /\ UNCHANGED <<daemonVars, linkVars, shown, replay, quiet, canvas, page, delivered>>

\* /api/control: the daemon publishes what it did before it answers.
ControlServed ==
    /\ control.at = "posting"
    /\ \/ control.target # NoSession /\ Publish([session |-> control.target, nodes |-> {}])
       \/ control.target = NoSession /\ Publish(Last(log))
       \/ control.target = NoSession /\ UNCHANGED daemonVars
    /\ control' = [control EXCEPT !.at = "posted"]
    /\ UNCHANGED <<linkVars, pictureVars, banner, quiet, canvas, page, delivered, acts>>

\* refresh() begins when the answer arrives ...
ControlAnswered ==
    /\ page # "away" /\ control.at = "posted"
    /\ control' = [control EXCEPT !.at = "refreshing", !.fresh = TRUE]
    /\ UNCHANGED <<daemonVars, linkVars, pictureVars, banner, quiet, canvas, page, delivered, acts>>

RefreshServed ==
    /\ control.at = "refreshing" /\ control.version = 0
    /\ control' = [control EXCEPT !.version = Newest]
    /\ UNCHANGED <<daemonVars, linkVars, pictureVars, banner, quiet, canvas, page, delivered, acts>>

\* ... and is dropped when another snapshot was accepted meanwhile.
\* The answer of a refresh is always the newest.
MutantOvertaken == FALSE

Overtaken == ~ control.fresh

Refreshed ==
    /\ page # "away" /\ control.version # 0
    /\ UNCHANGED <<daemonVars, linkVars, banner, quiet, canvas, page, delivered, acts>>
    /\ \/ Overtaken /\ control' = NoControl /\ UNCHANGED pictureVars
       \/ ~ Overtaken /\ Accept(control.version, FALSE, NoControl)

ControlFails ==
    /\ page # "away" /\ control # NoControl /\ Spent
    /\ control' = NoControl /\ banner' = TRUE
    /\ \/ UNCHANGED connection
       \/ connection' = "auth"
    /\ UNCHANGED <<daemonVars, stream, attempt, connects, pictureVars, quiet, canvas, page, delivered>>
----
(***************************************************************************)
(* The user and the page.                                                   *)
(***************************************************************************)
Frames == {v \in 1..shown : log[v].session = log[shown].session}

\* replayAt, and the way back: the button Live, or the inspection of a live claim.
ReplayAt(v) ==
    /\ Runs /\ shown # 0 /\ canvas = "snapshots" /\ v \in Frames /\ Spent
    /\ replay' = v /\ Reset
    /\ UNCHANGED <<daemonVars, linkVars, shown, banner, control, quiet, canvas, page, delivered>>

LiveAgain ==
    /\ Runs /\ replay # 0 /\ canvas = "snapshots" /\ replay' = 0 /\ Reset
    /\ UNCHANGED <<daemonVars, linkVars, shown, banner, control, quiet, canvas, page, delivered, acts>>

\* onVisibility and onMotionPreference; onFollow, which keeps the baseline.
Still ==
    /\ Runs /\ quiet = "no" /\ Spent /\ quiet' = "still" /\ Reset
    /\ UNCHANGED <<daemonVars, linkVars, shown, replay, banner, control, canvas, page, delivered>>

Unfollow ==
    /\ Runs /\ quiet = "no" /\ Spent /\ quiet' = "unfollowed" /\ appear' = {} /\ burst' = {}
    /\ UNCHANGED <<daemonVars, linkVars, shown, replay, motion, banner, control, canvas, page, delivered>>

Moves ==
    /\ Runs /\ quiet # "no" /\ quiet' = "no"
    /\ UNCHANGED <<daemonVars, linkVars, pictureVars, banner, control, canvas, page, delivered, acts>>

\* onView: from the first view on, snapshots are not drawn. What a view animates is its own.
ViewDrawn ==
    /\ Runs /\ shown # 0 /\ canvas = "snapshots" /\ Spent /\ canvas' = "views" /\ Reset
    /\ UNCHANGED <<daemonVars, linkVars, shown, replay, banner, control, quiet, page, delivered>>

\* onPageHide; close(), which also makes every connect outdated.
PageHides ==
    /\ Runs /\ Spent /\ page' = "away" /\ stream' = "none" /\ wire' = <<>> /\ delivered' = 0 /\ Reset
    /\ UNCHANGED <<log, attempt, connects, connection, shown, replay, banner, control, quiet, canvas>>

ViewerCloses ==
    /\ Runs /\ Spent /\ page' = "closed" /\ attempt' = attempt + 1
    /\ stream' = "none" /\ wire' = <<>> /\ delivered' = 0 /\ Reset
    /\ UNCHANGED <<log, connects, connection, shown, replay, banner, control, quiet, canvas>>
----
ViewerNext ==
    \/ ViewerDaemonChanges \/ EffectEnds \/ Retry \/ PageShows
    \/ \E c \in connects :
        StateServed(c) \/ Connected(c) \/ ConnectFails(c) \/ ConnectOutdated(c)
    \/ StreamOpens \/ StreamBreaks \/ StreamDelivers \/ StreamGarbles
    \/ \E t \in ViewerSessions \union {NoSession} : ControlPosted(t)
    \/ ControlServed \/ ControlAnswered \/ RefreshServed \/ Refreshed \/ ControlFails
    \/ \E v \in DOMAIN log : ReplayAt(v)
    \/ LiveAgain \/ Still \/ Unfollow \/ Moves \/ ViewDrawn \/ PageHides \/ ViewerCloses

ViewerSpec == ViewerInit /\ [][ViewerNext]_viewerVars
----
(***************************************************************************)
(* Properties                                                               *)
(***************************************************************************)
\* What moves is what is drawn: no effect of a snapshot runs over a replayed frame, on a hidden
\* page or on the canvas of a view, and it is of a node that is there, or of one that has gone.
EffectsAreDrawn ==
    appear \union burst # {} =>
        /\ replay = 0 /\ quiet = "no" /\ canvas = "snapshots" /\ Runs
        /\ appear \subseteq log[shown].nodes /\ burst \intersect log[shown].nodes = {}
        /\ Cardinality(appear \union burst) <= MaxEffects

\* A page that says it is connected, and shows no error, shows the newest snapshot or has it
\* still to be delivered: no path that brings an older one hides it.
NothingMissed ==
    Runs /\ connection = "connected" /\ ~ banner /\ control = NoControl =>
        stream = "open" /\ Newest = IF wire = <<>> THEN shown ELSE Last(wire)

\* A node appears or vanishes only between two snapshots that one unbroken stream delivered
\* one after the other, with nothing else shown in between.
ArrivalsAreNew ==
    (appear' \ appear) \union (burst' \ burst) # {} =>
        /\ shown # 0 /\ delivered = shown /\ delivered' = shown'
        /\ appear' \ appear \subseteq log[shown'].nodes \ log[shown].nodes
        /\ burst' \ burst \subseteq log[shown].nodes \ log[shown'].nodes

\* The page never looks further than it is, nor animates what did not happen.
ViewerTruthful == [](EffectsAreDrawn /\ NothingMissed) /\ [][ArrivalsAreNew]_viewerVars
====
