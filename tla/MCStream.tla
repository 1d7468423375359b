---- MODULE MCStream ----
(***************************************************************************)
(* Two instances that have nothing to do with one another, in one run:      *)
(* ModelStream, and ViewPlatform.                                           *)
(***************************************************************************)
EXTENDS ModelStream, ViewPlatform

VARIABLE way  \* the instance that runs, which does not change

wayVars == <<vars, viewVars, way>>

WayInit == way \in {"stream", "views"} /\ Init /\ ViewInit

InStream(A) == way = "stream" /\ A /\ UNCHANGED <<viewVars, way>>

InViews(A) == way = "views" /\ A /\ UNCHANGED <<vars, way>>

WayNext == InStream(Next) \/ InViews(ViewNext)

\* The fairness of ModelStream and of ViewPlatform.
WaySpec ==
    /\ WayInit /\ [][WayNext]_wayVars
    /\ WF_wayVars(InStream(Due))
    /\ WF_wayVars(InViews(Projecting)) /\ WF_wayVars(InViews(Watching)) /\ WF_wayVars(InViews(Granting))
    /\ WF_wayVars(InViews(Quiet /\ (Deliver \/ OpenFails \/ ServerSession))) /\ WF_wayVars(InViews(Listed))

\* What the client shows catches up with the server (ModelStream).
StreamCatchesUp == way = "stream" => CatchesUp

\* What is drawn comes to agree with what is selected, served and granted (ViewPlatform).
ViewsComeToAgree == way = "views" => ComesToAgree
====
