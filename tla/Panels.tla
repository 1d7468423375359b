---- MODULE Panels ----
(***************************************************************************)
(* The dialogs of the page and its project panel (runtime/web/app.js:       *)
(* startConnectionDialog, startDiagnosticsDialog, startDashboardInfo), with *)
(* the registry lookup behind the panel (runtime/daemon/dashboard-info.mjs).*)
(*                                                                          *)
(* A dialog may be closed and opened again while the answer to its request, *)
(* or the clipboard, is still awaited. Requests and answers carry a ticket; *)
(* what a dialog shows, and whether it says it loads, must be of its own    *)
(* present opening.                                                         *)
(***************************************************************************)
EXTENDS Naturals, FiniteSets

CONSTANT MaxTickets     \* bound: tickets of a dialog

Dialogs == {"connection", "log"}

VARIABLES
    opened, ticket,     \* opened and epoch of each dialog
    asked,              \* requests without an answer: dialog, ticket and whether aborted
    content,            \* ticket of the answer shown, 0 when there is none
    loading, failed,    \* the indicator (and aria-busy), and the error
    copying, copied,    \* tickets of clipboard writes, and the ticket "Copied" is said for
    began,              \* for the properties: the first ticket of the present opening
    about,              \* the panel: "idle", "asking", "waiting" (timer) or "closed"
    lookups, fresh      \* registryVersion calls that run; whether the cached version still holds

dialogVars == <<opened, ticket, asked, content, loading, failed, copying, copied, began>>
aboutVars == <<about, lookups, fresh>>
panelVars == <<dialogVars, aboutVars>>

PanelTypeOK ==
    /\ {opened, loading, failed} \subseteq [Dialogs -> BOOLEAN]
    /\ {ticket, content, began} \subseteq [Dialogs -> 0..MaxTickets]
    /\ asked \subseteq [dialog : Dialogs, ticket : 1..MaxTickets, aborted : BOOLEAN]
    /\ copying \subseteq 1..MaxTickets /\ copied \in 0..MaxTickets
    /\ about \in {"idle", "asking", "waiting", "closed"} /\ lookups \in 0..2 /\ fresh \in BOOLEAN

Never == [d \in Dialogs |-> FALSE]
PanelInit ==
    /\ opened = Never /\ loading = Never /\ failed = Never
    /\ ticket = [d \in Dialogs |-> 0] /\ content = ticket /\ began = ticket
    /\ asked = {} /\ copying = {} /\ copied = 0
    /\ about = "idle" /\ lookups = 0 /\ fresh = FALSE
----
(***************************************************************************)
(* Dialogs.                                                                 *)
(***************************************************************************)
\* The log gives up its earlier request, which ends all the same.
abortLoad(d) ==
    IF d = "log" THEN {[c EXCEPT !.aborted = c.aborted \/ c.dialog = d] : c \in asked} ELSE asked

\* loadInstructions clears what is shown; reload of the log keeps it.
Load(d) ==
    /\ ticket[d] < MaxTickets
    /\ ticket' = [ticket EXCEPT ![d] = @ + 1]
    /\ asked' = abortLoad(d) \union {[dialog |-> d, ticket |-> ticket[d] + 1, aborted |-> FALSE]}
    /\ content' = IF d = "connection" THEN [content EXCEPT ![d] = 0] ELSE content
    /\ copied' = IF d = "connection" THEN 0 ELSE copied
    /\ loading' = [loading EXCEPT ![d] = TRUE] /\ failed' = [failed EXCEPT ![d] = FALSE]

Opens(d) ==
    /\ ~ opened[d] /\ about # "closed"
    /\ opened' = [opened EXCEPT ![d] = TRUE] /\ began' = [began EXCEPT ![d] = ticket[d] + 1]
    /\ Load(d)
    /\ UNCHANGED <<copying, aboutVars>>

\* The button Retry is there after a failure, Refresh is enabled when nothing loads.
LoadsAgain(d) ==
    /\ opened[d] /\ IF d = "connection" THEN failed[d] ELSE ~ loading[d]
    /\ Load(d)
    /\ UNCHANGED <<opened, copying, began, aboutVars>>

\* An answer of an earlier ticket, or to a closed dialog, changes nothing.
\* Any answer is welcome while the dialog is open.
MutantCurrentAnswer(c) == opened[c.dialog]

CurrentAnswer(c) == opened[c.dialog] /\ c.ticket = ticket[c.dialog]

Answered(c) ==
    /\ asked' = asked \ {c}
    /\ \/ /\ CurrentAnswer(c) /\ ~ c.aborted
          /\ loading' = [loading EXCEPT ![c.dialog] = FALSE]
          /\ \/ content' = [content EXCEPT ![c.dialog] = c.ticket] /\ UNCHANGED failed
             \/ failed' = [failed EXCEPT ![c.dialog] = TRUE] /\ UNCHANGED content
       \/ ~ (CurrentAnswer(c) /\ ~ c.aborted) /\ UNCHANGED <<loading, failed, content>>
    /\ UNCHANGED <<opened, ticket, copying, copied, began, aboutVars>>

\* finishClose.
Finished(d) ==
    /\ opened' = [opened EXCEPT ![d] = FALSE] /\ ticket' = [ticket EXCEPT ![d] = @ + 1]
    /\ asked' = abortLoad(d) /\ content' = [content EXCEPT ![d] = 0]
    /\ copied' = IF d = "connection" THEN 0 ELSE copied
    /\ loading' = [loading EXCEPT ![d] = FALSE] /\ failed' = [failed EXCEPT ![d] = FALSE]

CloseDialog(d) ==
    /\ opened[d] /\ ticket[d] < MaxTickets /\ Finished(d)
    /\ UNCHANGED <<copying, began, aboutVars>>

\* A command is copied; the buttons of an earlier content are gone with it.
Copies ==
    /\ opened["connection"] /\ content["connection"] = ticket["connection"]
    /\ content["connection"] \notin copying
    /\ copying' = copying \union {content["connection"]} /\ copied' = 0
    /\ UNCHANGED <<opened, ticket, asked, content, loading, failed, began, aboutVars>>

Copied(t) ==
    /\ copying' = copying \ {t}
    /\ copied' = IF opened["connection"] /\ t = ticket["connection"] THEN t ELSE copied
    /\ UNCHANGED <<opened, ticket, asked, content, loading, failed, began, aboutVars>>
----
(***************************************************************************)
(* The project panel.                                                       *)
(***************************************************************************)
\* latestVersion: the daemon answers from its cache, or joins the lookup that runs.
Looking == IF fresh \/ lookups > 0 THEN lookups ELSE lookups + 1

\* refresh(): by a connect or by the timer; a pending one is joined.
Refreshes ==
    /\ about \in {"idle", "waiting"} /\ about' = "asking"
    /\ lookups' = Looking
    /\ UNCHANGED <<dialogVars, fresh>>

AnotherPageAsks == lookups' = Looking /\ UNCHANGED <<dialogVars, about, fresh>>

\* The lookup ends, at the latest after its timeout, and its result is kept, a failure too.
LookedUp ==
    /\ lookups > 0 /\ lookups' = lookups - 1 /\ fresh' = TRUE
    /\ UNCHANGED <<dialogVars, about>>

CacheExpires == fresh /\ fresh' = FALSE /\ UNCHANGED <<dialogVars, about, lookups>>

AboutAnswered ==
    /\ about = "asking" /\ lookups = 0 /\ about' = "waiting"
    /\ UNCHANGED <<dialogVars, lookups, fresh>>

\* close() of the page: both dialogs are disposed of, and their tickets no longer matter.
Disposed ==
    /\ about # "closed" /\ about' = "closed"
    /\ opened' = Never /\ loading' = Never /\ failed' = Never /\ asked' = abortLoad("log")
    /\ content' = [d \in Dialogs |-> 0] /\ copied' = 0
    /\ UNCHANGED <<ticket, copying, began, lookups, fresh>>
----
PanelNext ==
    \/ \E d \in Dialogs : Opens(d) \/ LoadsAgain(d) \/ CloseDialog(d)
    \/ \E c \in asked : Answered(c)
    \/ Copies \/ (\E t \in copying : Copied(t))
    \/ Refreshes \/ AnotherPageAsks \/ LookedUp \/ CacheExpires \/ AboutAnswered \/ Disposed

PanelSpec == PanelInit /\ [][PanelNext]_panelVars
----
(***************************************************************************)
(* Properties                                                               *)
(***************************************************************************)
\* What a dialog shows was asked for since it was opened; the instructions, and the word that
\* a command was copied, are of the newest request. It says that it loads exactly while its
\* newest request has no answer, and no more than one lookup runs.
PanelsAreOwn ==
    /\ \A d \in Dialogs :
        /\ content[d] # 0 => opened[d] /\ content[d] \in began[d]..ticket[d]
        /\ loading[d] <=> opened[d] /\ \E c \in asked :
                            c.dialog = d /\ c.ticket = ticket[d] /\ ~ c.aborted
    /\ content["connection"] # 0 => content["connection"] = ticket["connection"]
    /\ copied # 0 => copied = content["connection"]
    /\ Cardinality({c \in asked : c.dialog = "log" /\ ~ c.aborted}) <= 1
    /\ lookups <= 1
====
