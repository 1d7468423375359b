---- MODULE ViewPlatform ----
(***************************************************************************)
(* The views of the browser (runtime/web/platform.js) and the frame of an   *)
(* installed one (extension-frame.js): which view is chosen, what is being   *)
(* projected, what is drawn, and whether that may still be seen.            *)
(*                                                                         *)
(* A projection that was overtaken (mine # generation) changes nothing of    *)
(* the view any more, so that only the last one is represented.  The model   *)
(* client delivers what it has open, as ModelStream has it in detail.  One   *)
(* extension may be installed; a row of its catalogue and a selection are   *)
(* told apart as far as the views do.                                       *)
(***************************************************************************)
EXTENDS Naturals

CONSTANTS
    MaxActs,    \* bound: what users do
    MaxTurns    \* bound: changes at the server, failures and further snapshots

VARIABLES
    served,     \* the row of the extension at the server, with the project served
    installed,  \* installed: the row as the browser last read it
    model,      \* model: the last snapshot
    opened,     \* what the model client has open, or has failed to open
    fresh,      \* architectureModelReady: a snapshot has come since
    loading, selection,
    ui,         \* what the views are doing, below
    granting,   \* a grant or a denial on its way
    announced,  \* the project of the last state the page was sent
    suspended, closed, hidden,
    acts, turns

modelVars == <<model, opened, fresh, loading, selection>>
lifeVars == <<announced, suspended, closed, hidden>>
viewBounds == <<acts, turns>>
viewVars == <<served, installed, modelVars, ui, granting, lifeVars, viewBounds>>

BuiltIn == {"code", "c4"}
Views == BuiltIn \union {"extension"}
Projects == {1, 2}
Selections == {"live", "scoped", "recorded"}
Grants == {"none", "live", "history"}

\* A version, 0 if it is not installed, with its approval for a project.
Rows == [project : Projects, version : 0..2, grant : Grants]
Absent == [project |-> 1, version |-> 0, grant |-> "none"]

Models == [project : 0..2, selection : Selections]
NoModel == [project |-> 0, selection |-> "live"]
NoInstance == [view |-> "none", row |-> Absent]
Nothing == [view |-> "none", of |-> NoModel, row |-> Absent]
NoWork == [stage |-> "none", of |-> NoModel, row |-> Absent, reply |-> Absent]
NoWatch == [stage |-> "off", row |-> Absent, reply |-> Absent]
NoGranting == [stage |-> "none", row |-> Absent, grant |-> "none"]

\* active and pending (pendingView); instance, with the row its frame was made for;
\* work, the projection under way; shown; told, a status message; asked, the request
\* for access; watch (grantWatch); listing, a catalogue nothing waits for;
\* discovery (architectureWatch).
UIs == [active : Views, pending : Views \union {"none"},
        instance : [view : Views \union {"none"}, row : Rows],
        work : [stage : {"none", "update", "catalogue", "listed", "data", "received", "frame"},
                of : Models, row : Rows, reply : Rows],
        shown : [view : Views \union {"none"}, of : Models, row : Rows],
        told : BOOLEAN, asked : BOOLEAN,
        watch : [stage : {"off", "resting", "asking", "answered"}, row : Rows, reply : Rows],
        listing : BOOLEAN, discovery : {"off", "asking", "resting", "given up"}]

ViewTypeOK ==
    /\ {served, installed} \subseteq Rows
    /\ model \in Models /\ opened \in Selections \union {"nothing"} /\ selection \in Selections
    /\ ui \in UIs
    /\ granting \in [stage : {"none", "asking", "granted", "refused", "listing"}, row : Rows, grant : Grants]
    /\ announced \in Projects
    /\ {fresh, loading, suspended, closed, hidden} \subseteq BOOLEAN

ViewInit ==
    /\ served \in {[project |-> 1, version |-> 1, grant |-> g] : g \in {"none", "history"}}
    /\ installed = Absent
    /\ model = NoModel /\ opened = "nothing" /\ fresh = FALSE /\ loading = TRUE /\ selection = "live"
    /\ ui = [active |-> "code", pending |-> "c4", instance |-> NoInstance, work |-> NoWork,
             shown |-> Nothing, told |-> FALSE, asked |-> FALSE, watch |-> NoWatch,
             listing |-> FALSE, discovery |-> "off"]
    /\ granting = NoGranting
    /\ announced = served.project
    /\ suspended = TRUE /\ closed = FALSE /\ hidden = FALSE
    /\ acts = 0 /\ turns = 0

Act == ~ closed /\ acts < MaxActs /\ acts' = acts + 1 /\ UNCHANGED turns
Turn == turns < MaxTurns /\ turns' = turns + 1 /\ UNCHANGED acts

----
(* Steps on ui that several operations take. *)

\* dispose
Disposed(u) == [u EXCEPT !.instance = NoInstance, !.watch = NoWatch, !.discovery = "off"]

\* generation++; the catalogue it waited for may still come, unless it was aborted.
Aborted(u) == [u EXCEPT !.work = NoWork]
Overtaken(u) == [u EXCEPT !.work = NoWork, !.listing = @ \/ u.work.stage \in {"catalogue", "listed"}]

Cleared(u) == [u EXCEPT !.shown = Nothing]
Told(u) == [u EXCEPT !.told = TRUE]

\* architectureLive
Live(view) ==
    /\ ~ closed /\ ~ suspended /\ ~ hidden /\ fresh /\ model # NoModel
    /\ selection # "recorded" /\ view \in BuiltIn

LiveThen(view) ==
    /\ ~ closed' /\ ~ suspended' /\ ~ hidden' /\ fresh' /\ model' # NoModel
    /\ selection' # "recorded" /\ view \in BuiltIn

\* syncArchitecture, which every controls() runs.
Synced(u) ==
    [u EXCEPT !.discovery = IF ~ LiveThen(u.active) THEN "off" ELSE IF @ = "off" THEN "asking" ELSE @]

\* project, up to its first await.
Projected(u) ==
    LET v == [Synced(Aborted(u)) EXCEPT !.asked = FALSE] IN
    IF model' = NoModel \/ closed' THEN u
    ELSE IF u.active \in BuiltIn
    THEN [v EXCEPT !.work = [NoWork EXCEPT !.stage = "update", !.of = model'],
                   !.instance = IF @ = NoInstance THEN [NoInstance EXCEPT !.view = u.active] ELSE @]
    ELSE IF installed'.version = 0 THEN Told(Cleared(Disposed(v)))
    ELSE [Cleared(v) EXCEPT !.work = [NoWork EXCEPT !.stage = "catalogue", !.row = installed']]

\* choose, of another view than the active one.
MutantChosen(view, u) == Projected(Cleared([u EXCEPT !.active = view]))

Chosen(view, u) == Projected(Cleared([Disposed(Overtaken(u)) EXCEPT !.active = view]))

\* An extension that fails while it is asked gives way to the code view.
Fallback(u) == Told(Chosen("code", u))

----
(* The projection of a built-in view. *)

Still == UNCHANGED <<served, modelVars, granting, lifeVars>>
Quiet == UNCHANGED viewBounds

Stage(stage) == ui' = [ui EXCEPT !.work.stage = stage]

\* instance.update with the baseline, and onView.
Update ==
    /\ ui.work.stage = "update"
    /\ ui' = [ui EXCEPT !.shown = [Nothing EXCEPT !.view = ui.active, !.of = ui.work.of],
                        !.told = FALSE, !.work = NoWork]
    /\ UNCHANGED installed /\ Still /\ Quiet

\* A baseline the server refuses, or cannot give.
UpdateFails ==
    /\ Turn /\ ui.work.stage = "update"
    /\ \E u \in {ui, Cleared(Disposed(ui))} : ui' = Told(Aborted(u))
    /\ UNCHANGED installed /\ Still

----
(* The projection of an extension. *)

\* The server answers with the row of that moment.
Catalogue ==
    /\ ui.work.stage = "catalogue"
    /\ ui' = [ui EXCEPT !.work.stage = "listed", !.work.reply = served]
    /\ UNCHANGED installed /\ Still /\ Quiet

\* Without an answer, what was read before is used.
CatalogueFails ==
    /\ Turn /\ ui.work.stage = "catalogue"
    /\ ui' = [ui EXCEPT !.work.stage = "listed", !.work.reply = installed]
    /\ UNCHANGED installed /\ Still

Covers(row) ==
    /\ row.grant # "none" /\ row.project = model.project
    /\ row.grant = "history" \/ selection # "recorded"

\* Another version waits for the user, another grant begins with a new frame, and
\* one that does not cover what is selected is asked for.
Review ==
    /\ ui.work.stage = "listed"
    /\ installed' = ui.work.reply
    /\ Still /\ Quiet
    /\ LET asked == ui.work.row
           is == installed'
       IN  ui' = IF is.version = 0 \/ is.version # asked.version THEN Told(Disposed(Aborted(ui)))
                 ELSE LET u == IF is = asked THEN ui ELSE Disposed(ui) IN
                      IF ~ Covers(is)
                      THEN [Disposed(Aborted(u)) EXCEPT !.told = FALSE, !.asked = TRUE]
                      ELSE [u EXCEPT !.work.stage = "data", !.work.row = is]

\* The data the server has at this moment.
Data ==
    /\ ui.work.stage = "data"
    /\ UNCHANGED installed /\ Still /\ Quiet
    /\ ui' = IF served.version = 0 \/ served.grant = "none"
                \/ (selection = "recorded" /\ served.grant # "history")
             THEN Told(Cleared(Disposed(Aborted(ui))))
             ELSE [ui EXCEPT !.work.stage = "received", !.work.reply = served,
                             !.work.of = [project |-> served.project, selection |-> selection]]

DataFails ==
    /\ Turn /\ ui.work.stage = "data"
    /\ UNCHANGED installed /\ Still
    /\ ui' = Fallback(ui)

\* watchGrant
Watched(u) ==
    IF u.watch.stage # "off" THEN u
    ELSE [u EXCEPT !.watch = [NoWatch EXCEPT !.stage = "resting", !.row = u.work.row]]

\* A frame there is none of yet is made, and asked to draw what it was granted.
ReceiveData ==
    /\ ui.work.stage = "received"
    /\ UNCHANGED installed /\ Still /\ Quiet
    /\ LET frame == IF ui.instance = NoInstance THEN [view |-> "extension", row |-> ui.work.row] ELSE ui.instance
           u == Watched([ui EXCEPT !.instance = frame])
       IN  ui' = IF frame.row.project = ui.work.of.project THEN [u EXCEPT !.work.stage = "frame"]
                 ELSE Fallback(u)

FrameAnswers ==
    /\ ui.work.stage = "frame"
    /\ ui' = [ui EXCEPT !.shown = [view |-> ui.active, of |-> ui.work.of, row |-> ui.work.reply],
                        !.told = FALSE, !.work = NoWork]
    /\ UNCHANGED installed /\ Still /\ Quiet

\* It reports an error, does not answer in time, navigates or breaks the protocol;
\* at any time the last two stop it.
FrameFails ==
    /\ Turn /\ ui.instance.view = "extension"
    /\ UNCHANGED installed /\ Still
    /\ ui' = IF ui.work.stage = "frame" THEN Fallback(ui) ELSE Told(Cleared(Disposed(ui)))

----
(* The watch over the grant of what is drawn. *)

WatchTimer ==
    /\ ui.watch.stage = "resting"
    /\ ui' = [ui EXCEPT !.watch.stage = "asking"]
    /\ UNCHANGED installed /\ Still /\ Quiet

WatchServed ==
    /\ ui.watch.stage = "asking"
    /\ ui' = [ui EXCEPT !.watch.stage = "answered", !.watch.reply = served]
    /\ UNCHANGED installed /\ Still /\ Quiet

\* Nothing may be drawn under another grant or version.
Withdrawn(u) == Told(Cleared(Disposed(Overtaken(u))))

MutantWatched == ui' = [ui EXCEPT !.watch = [NoWatch EXCEPT !.stage = "resting", !.row = ui.watch.reply]] /\ UNCHANGED installed

Compare ==
    IF ui.watch.reply = ui.watch.row /\ ui.watch.row.grant # "none"
    THEN ui' = [ui EXCEPT !.watch.stage = "resting", !.watch.reply = Absent] /\ UNCHANGED installed
    ELSE /\ installed' = ui.watch.reply
         /\ ui' = [Withdrawn(ui) EXCEPT !.asked = ui.watch.reply.version # 0]

WatchCompares ==
    /\ ui.watch.stage = "answered"
    /\ Still /\ Quiet
    /\ Compare

WatchFails ==
    /\ Turn /\ ui.watch.stage = "asking"
    /\ ui' = Withdrawn(ui)
    /\ UNCHANGED installed /\ Still

----
(* Discovery, as far as the browser follows it. *)

\* refreshArchitecture: the answer, an error, or the deadline of eight seconds; a
\* server without the route is not asked again.
DiscoveryReply ==
    /\ ui.discovery = "asking"
    /\ \E then \in {"resting", "given up"} :
          ui' = [ui EXCEPT !.discovery = IF Live(ui.active) THEN then ELSE "off"]
    /\ UNCHANGED installed /\ Still /\ Quiet

DiscoveryTimer ==
    /\ ui.discovery = "resting"
    /\ ui' = [ui EXCEPT !.discovery = IF Live(ui.active) THEN "asking" ELSE "off"]
    /\ UNCHANGED installed /\ Still /\ Quiet

Discover ==
    /\ Act /\ ui.active = "c4" /\ Live(ui.active) /\ ui.discovery = "resting"
    /\ ui' = [ui EXCEPT !.discovery = "asking"]
    /\ UNCHANGED installed /\ Still

----
(* The model client. *)

\* loadModel, up to its await.
Load(select) ==
    /\ selection' = select /\ opened' = select
    /\ loading' = TRUE /\ fresh' = FALSE
    /\ UNCHANGED model

\* controls() of it finds no model that is ready.
Loaded(u) == [u EXCEPT !.discovery = "off"]

\* What was selected in one project is unknown to another.
Known == opened = "live" \/ model.project \in {0, served.project}

\* onSnapshot
Deliver ==
    /\ opened # "nothing" /\ Known
    /\ IF fresh /\ model.project = served.project THEN Turn /\ opened # "recorded" ELSE Quiet
    /\ model' = [project |-> served.project, selection |-> opened]
    /\ fresh' = TRUE /\ loading' = FALSE
    /\ UNCHANGED opened
    /\ LET other == model # NoModel /\ model.project # served.project
           u == IF other THEN Cleared(Disposed(ui)) ELSE ui
           v == IF u.pending = "none" THEN u ELSE [Disposed(u) EXCEPT !.active = u.pending, !.pending = "none"]
       IN  /\ selection' = IF other THEN "live" ELSE selection
           /\ UNCHANGED <<served, installed, granting, lifeVars>>
           /\ ui' = Projected(v)

\* A server that is not reached, without model views, or of another project.
OpenFails ==
    /\ opened # "nothing" /\ ~ fresh
    /\ IF Known THEN Turn ELSE Quiet
    /\ opened' = "nothing" /\ loading' = FALSE
    /\ ui' = Told([ui EXCEPT !.pending = IF model = NoModel THEN "none" ELSE @])
    /\ UNCHANGED <<served, installed, model, fresh, selection, granting, lifeVars>>

----
(* What users do. *)

Unmoved == UNCHANGED <<served, installed, modelVars, granting, lifeVars>>

Choose(view) ==
    /\ Act /\ view # ui.active
    /\ Unmoved
    /\ ui' = IF model # NoModel THEN Chosen(view, ui)
             ELSE IF loading THEN Told([ui EXCEPT !.pending = view])
             ELSE Told(ui)

\* A filter, a level, a group that is opened, or whether to follow.
Refresh ==
    /\ Act /\ model # NoModel
    /\ Unmoved
    /\ ui' = Projected(ui)

\* scope, session and live.
Select(select) ==
    /\ Act /\ select # selection
    /\ Load(select)
    /\ UNCHANGED <<served, installed, granting, lifeVars>>
    /\ ui' = Loaded(Disposed(Overtaken(ui)))

\* The choice of a checkpoint, or of none.
Position(select) ==
    /\ Act /\ select # selection /\ model # NoModel
    /\ Load(select)
    /\ UNCHANGED <<served, installed, granting, lifeVars>>
    /\ ui' = Loaded(ui)

\* view-retry: a frame that was asked gives way.
Retry ==
    /\ Act /\ ui.told
    /\ Load(selection)
    /\ UNCHANGED <<served, installed, granting, lifeVars>>
    /\ ui' = IF ui.work.stage = "frame" THEN Fallback(Loaded(Disposed(ui))) ELSE Loaded(Disposed(ui))

\* serverSession: a state of another session or another project (acceptSnapshot of
\* app.js).
ServerSession ==
    /\ ~ suspended /\ ~ closed
    /\ IF announced = served.project THEN Act ELSE Quiet
    /\ announced' = served.project
    /\ UNCHANGED <<served, installed, granting, suspended, closed, hidden>>
    /\ Load("live")
    /\ ui' = Synced(Disposed(Aborted(ui)))

Hide ==
    /\ Act
    /\ hidden' = ~ hidden
    /\ UNCHANGED <<served, installed, modelVars, granting, announced, suspended, closed>>
    /\ ui' = Synced(ui)

\* connect: the state, which may be of another project, and then the model.
Start ==
    /\ suspended /\ ~ closed /\ Quiet
    /\ suspended' = FALSE /\ announced' = served.project
    /\ Load(IF announced = served.project THEN selection ELSE "live")
    /\ UNCHANGED <<served, installed, granting, closed, hidden>>
    /\ ui' = [Loaded(ui) EXCEPT !.listing = TRUE]

\* The page reconnects, or is left.
SuspendViews ==
    /\ Act /\ ~ suspended
    /\ suspended' = TRUE
    /\ opened' = "nothing"
    /\ UNCHANGED <<served, installed, model, fresh, loading, selection, granting, announced, closed, hidden>>
    /\ ui' = Disposed(Aborted(ui))

Close ==
    /\ Act
    /\ closed' = TRUE
    /\ opened' = "nothing"
    /\ UNCHANGED <<served, installed, model, fresh, loading, selection, granting, announced, suspended, hidden>>
    /\ ui' = Disposed(Aborted(ui))

----
(* Grants. *)

\* The request for access is answered.
Grant(grant) ==
    /\ Act /\ ui.asked /\ ui.active = "extension" /\ installed.version # 0 /\ granting = NoGranting
    /\ granting' = [stage |-> "asking", row |-> installed, grant |-> grant]
    /\ ui' = Cleared(Disposed(Overtaken(ui)))
    /\ UNCHANGED <<served, installed, modelVars, lifeVars>>

GrantServed ==
    /\ granting.stage = "asking" /\ Quiet
    /\ IF served.version = granting.row.version
       THEN /\ served' = [served EXCEPT !.grant = granting.grant]
            /\ granting' = [granting EXCEPT !.stage = "granted"]
       ELSE granting' = [granting EXCEPT !.stage = "refused"] /\ UNCHANGED served
    /\ UNCHANGED <<installed, modelVars, ui, lifeVars>>

\* The catalogue is read again, and a grant leads to the view.
Granted ==
    /\ granting.stage \in {"granted", "refused"} /\ Quiet
    /\ granting' = NoGranting
    /\ UNCHANGED <<served, modelVars, lifeVars>>
    /\ IF granting.stage = "refused" THEN ui' = Told(ui) /\ UNCHANGED installed
       ELSE /\ installed' = IF closed THEN installed ELSE served
            /\ ui' = IF granting.grant # "none" THEN Projected(Synced(ui))
                     ELSE Told([Synced(ui) EXCEPT !.asked = FALSE])

\* A catalogue nothing waits for.
Listed ==
    /\ ui.listing /\ Quiet
    /\ installed' = IF closed THEN installed ELSE served
    /\ Still
    /\ ui' = [Synced(ui) EXCEPT !.listing = FALSE]

\* Another version, none, another grant, or another project.
ServerChanges ==
    /\ Turn
    /\ \/ served' \in {[served EXCEPT !.version = 2, !.grant = "none"], [served EXCEPT !.version = 0, !.grant = "none"]}
       \/ served.version # 0 /\ \E g \in Grants : served' = [served EXCEPT !.grant = g]
       \/ served' = [project |-> 2, version |-> 1, grant |-> "none"]
    /\ served' # served
    /\ UNCHANGED <<installed, modelVars, ui, granting, lifeVars>>

----
Projecting == Update \/ Catalogue \/ Review \/ Data \/ ReceiveData \/ FrameAnswers
Watching == WatchTimer \/ WatchServed \/ WatchCompares
Granting == GrantServed \/ Granted

ViewNext ==
    \/ Projecting \/ Watching \/ Granting \/ Deliver \/ Listed
    \/ UpdateFails \/ CatalogueFails \/ DataFails \/ FrameFails \/ WatchFails \/ OpenFails
    \/ DiscoveryReply \/ DiscoveryTimer \/ Discover
    \/ Refresh \/ Retry \/ ServerSession \/ Hide \/ Start \/ SuspendViews \/ Close \/ ServerChanges
    \/ \E view \in Views : Choose(view)
    \/ \E select \in Selections : Select(select) \/ Position(select)
    \/ \E grant \in Grants : Grant(grant)

\* Requests are answered or end, frames answer in time, timers fire.
ViewSpec ==
    /\ ViewInit /\ [][ViewNext]_viewVars
    /\ WF_viewVars(Projecting) /\ WF_viewVars(Watching) /\ WF_viewVars(Granting)
    /\ WF_viewVars(Quiet /\ (Deliver \/ OpenFails \/ ServerSession)) /\ WF_viewVars(Listed)

(***************************************************************************)
(* Whatever is drawn or runs is of the view that is chosen, whatever was     *)
(* under way when it was chosen (platform.js:374, 418, 432); and discovery   *)
(* is followed while a built-in view shows the present, and only then,       *)
(* unless a message says that the view has failed.                          *)
(***************************************************************************)
OneView ==
    /\ {ui.shown.view, ui.instance.view} \subseteq {"none", ui.active}
    /\ ui.discovery # "off" => Live(ui.active)
    /\ Live(ui.active) /\ ~ ui.told => ui.discovery # "off"

(***************************************************************************)
(* What is drawn comes to agree with what is selected and served, and with   *)
(* the version and the grant the extension has there, however often these   *)
(* change meanwhile; otherwise a message or the request for access says so. *)
(***************************************************************************)
Agrees ==
    /\ ui.shown.view = ui.active
    /\ ui.shown.of = [project |-> served.project, selection |-> selection]
    /\ ui.active = "extension" => ui.instance.row = served /\ ui.shown.row.version = served.version

ComesToAgree == <>[](suspended \/ closed \/ opened = "nothing" \/ ui.told \/ ui.asked \/ Agrees)
====
