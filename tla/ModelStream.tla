---- MODULE ModelStream ----
(***************************************************************************)
(* How a browser keeps up with the model: the model API of a daemon         *)
(* (runtime/daemon/model-api.mjs), the client (runtime/web/model-client.js) *)
(* and, between them, an event stream of the browser that reconnects by     *)
(* itself, and one request at a time.                                       *)
(*                                                                         *)
(* What there is to see is abstracted to the place it has: the epoch of the *)
(* server and the position its stream has reached (every notification may   *)
(* have changed the model).  A snapshot holds the first records of every    *)
(* kind; in the places of Large it takes one more page to complete it.      *)
(***************************************************************************)
EXTENDS Naturals, Sequences

CONSTANTS
    Large,         \* positions at which a snapshot is not complete
    Attempts,      \* snapshots a hydration starts again from (3)
    Retained,      \* RETAINED_POSITIONS
    MaxPosition,   \* bound: notifications of one server
    MaxEpoch,      \* bound: servers, one after another
    MaxFaults,     \* bound: lost connections, failed requests and reads
    MaxOpens       \* bound: selections, suspensions and returns of the user

ASSUME StreamAssumption ==
    /\ Large \subseteq Nat /\ Attempts \in Nat /\ Retained \in Nat \ {0}
    /\ MaxPosition \in Nat \ {0} /\ MaxEpoch \in Nat \ {0}
    /\ MaxFaults \in Nat /\ MaxOpens \in Nat

VARIABLES
    server,     \* the place the server is at
    flushing,   \* flushTask
    stream,     \* the event stream and what is on its way in it
    sent,       \* the position the server last sent on it
    call,       \* the request under way
    view,       \* latest: what is shown, and whether it is complete
    received,   \* received: the snapshot accepted last
    hydration,  \* the snapshot being completed
    pending,    \* pendingPreview, with its timer: what to show if that takes long
    faults, opens

serverVars == <<server, flushing>>
clientVars == <<view, received, hydration, pending>>
bounds == <<faults, opens>>
vars == <<serverVars, stream, sent, call, clientVars, bounds>>

Places == [epoch : 1..MaxEpoch, position : 1..MaxPosition]

Nowhere == [epoch |-> 0, position |-> 0]

AnyPlace == Places \union {Nowhere}

IsLarge(place) == place.position \in Large

\* last: the identifier of the last event, which a reconnection sends.
Streams == [state : {"none", "connecting", "open", "ended"}, last : AnyPlace,
            events : Seq([type : {"snapshot", "reset", "unavailable"}, at : AnyPlace])]

NoStream == [state |-> "none", last |-> Nowhere, events |-> <<>>]

\* at: the snapshot a page is asked of; reply: what the server has answered.
Calls == [for : {"none", "open", "page", "snapshot"}, at : AnyPlace,
          reply : {"none", "ok", "stale", "failed"}]

NoCall == [for |-> "none", at |-> Nowhere, reply |-> "none"]

Hydrations == [at : AnyPlace, attempt : 0..Attempts, streamed : BOOLEAN]

NoHydration == [at |-> Nowhere, attempt |-> 0, streamed |-> FALSE]

TypeOK ==
    /\ server \in Places /\ flushing \in BOOLEAN
    /\ stream \in Streams /\ sent \in 0..MaxPosition /\ call \in Calls
    /\ view \in [at : AnyPlace, whole : BOOLEAN]
    /\ received \in AnyPlace /\ hydration \in Hydrations /\ pending \in AnyPlace
    /\ faults \in 0..MaxFaults /\ opens \in 0..MaxOpens
    /\ call.for \in {"page", "snapshot"} <=> hydration # NoHydration
    /\ stream.state = "none" \/ call.for # "open"

Init ==
    /\ server = [epoch |-> 1, position |-> 1] /\ flushing = FALSE
    /\ stream = NoStream /\ sent = 0
    /\ call = [NoCall EXCEPT !.for = "open"]
    /\ view = [at |-> Nowhere, whole |-> FALSE]
    /\ received = Nowhere /\ hydration = NoHydration /\ pending = Nowhere
    /\ faults = 0 /\ opens = 0

Fault == faults < MaxFaults /\ faults' = faults + 1 /\ UNCHANGED opens

----
(* The server. *)

Event(type, place) == [type |-> type, at |-> place]

Notify ==
    /\ server.position < MaxPosition
    /\ server' = [server EXCEPT !.position = @ + 1]
    /\ flushing' = TRUE
    /\ UNCHANGED <<stream, sent, call, clientVars, bounds>>

\* Notifications until here are one event.
Flush ==
    /\ flushing
    /\ flushing' = FALSE
    /\ IF stream.state = "open" /\ sent < server.position
       THEN /\ stream' = [stream EXCEPT !.events = Append(@, Event("snapshot", server))]
            /\ sent' = server.position
       ELSE UNCHANGED <<stream, sent>>
    /\ UNCHANGED <<server, call, clientVars, bounds>>

\* The snapshot of a flush cannot be made: the stream ends.
FlushFails ==
    /\ flushing /\ stream.state = "open" /\ sent < server.position
    /\ Fault
    /\ flushing' = FALSE
    /\ stream' = [stream EXCEPT !.state = "ended", !.events = Append(@, Event("unavailable", Nowhere))]
    /\ UNCHANGED <<server, sent, call, clientVars>>

\* A position another server has reached, or this one has forgotten.
Lost(place) ==
    \/ place.epoch # server.epoch
    \/ place.position + Retained <= server.position \/ place.position > server.position

\* stream(): the subscription and its first snapshot are one step.
Subscribe ==
    /\ stream.state = "connecting"
    /\ stream' = [stream EXCEPT !.state = "open",
            !.events = (IF stream.last # Nowhere /\ Lost(stream.last)
                        THEN <<Event("reset", Nowhere)>> ELSE <<>>)
                       \o <<Event("snapshot", server)>>]
    /\ sent' = server.position
    /\ UNCHANGED <<serverVars, call, clientVars, bounds>>

\* Too many streams, or not allowed: the browser does not try again.
SubscribeRefused ==
    /\ stream.state = "connecting"
    /\ Fault
    /\ stream' = NoStream
    /\ UNCHANGED <<serverVars, sent, call, clientVars>>

\* A page only of the snapshot its cursor was made for; else status 409.
Serve ==
    /\ call.for # "none" /\ call.reply = "none"
    /\ call' = IF call.for # "page" THEN [call EXCEPT !.at = server, !.reply = "ok"]
               ELSE [call EXCEPT !.reply = IF call.at = server THEN "ok" ELSE "stale"]
    /\ UNCHANGED <<serverVars, stream, sent, clientVars, bounds>>

Unserved ==
    /\ call.for # "none" /\ call.reply = "none"
    /\ Fault
    /\ call' = [call EXCEPT !.reply = "failed"]
    /\ UNCHANGED <<serverVars, stream, sent, clientVars>>

\* The browser reconnects; what was on its way is lost.
Broken == IF stream.state = "none" THEN stream
          ELSE [stream EXCEPT !.state = "connecting", !.events = <<>>]

Disconnect ==
    /\ stream.state \in {"open", "ended"}
    /\ Fault
    /\ stream' = Broken
    /\ UNCHANGED <<serverVars, sent, call, clientVars>>

Restart ==
    /\ server.epoch < MaxEpoch
    /\ server' = [epoch |-> server.epoch + 1, position |-> 1]
    /\ flushing' = FALSE
    /\ stream' = Broken
    /\ call' = IF call.for # "none" THEN [call EXCEPT !.reply = "failed"] ELSE call
    /\ UNCHANGED <<sent, clientVars, bounds>>

----
(* The client. *)

Partial(place) == [at |-> place, whole |-> ~ IsLarge(place)]

Show(shown) ==
    /\ view' = shown
    /\ received' = shown.at
    /\ pending' = Nowhere

\* Only the very same snapshot is a duplicate.
MutantDuplicate(place) == place = received

\* A snapshot no later than the one accepted last, of the same server.
Duplicate(place) == place.epoch = received.epoch /\ place.position <= received.position

\* One round of a hydration: what to show of the snapshot at once, what later,
\* and whether to complete it.
Hydrate(place, attempt, streamed) ==
    LET early == ~ streamed \/ ~ view.whole \/ view.at.epoch # place.epoch
        last == ~ IsLarge(place) \/ attempt = Attempts
    IN  /\ IF early \/ last THEN Show(Partial(place))
           ELSE pending' = place /\ received' = (IF attempt = 0 THEN place ELSE received)
                /\ view' = view
        /\ IF last THEN hydration' = NoHydration /\ call' = NoCall
           ELSE /\ hydration' = [at |-> place, attempt |-> attempt, streamed |-> streamed]
                /\ call' = [for |-> "page", at |-> place, reply |-> "none"]

\* stop() and the request of open().
Reopen ==
    /\ stream' = NoStream
    /\ call' = [NoCall EXCEPT !.for = "open"]
    /\ hydration' = NoHydration
    /\ pending' = Nowhere
    /\ UNCHANGED <<serverVars, sent, view, received>>

Open == opens < MaxOpens /\ opens' = opens + 1 /\ UNCHANGED faults /\ Reopen

Suspend ==
    /\ stream # NoStream \/ call # NoCall
    /\ opens < MaxOpens /\ opens' = opens + 1 /\ UNCHANGED faults
    /\ stream' = NoStream
    /\ call' = NoCall
    /\ hydration' = NoHydration
    /\ pending' = Nowhere
    /\ UNCHANGED <<serverVars, sent, view, received>>

\* The snapshot of open() is shown, and the stream starts; nothing tries again.
Opened ==
    /\ call.for = "open" /\ call.reply \in {"ok", "failed"}
    /\ IF call.reply = "ok"
       THEN Hydrate(call.at, 0, FALSE) /\ stream' = [NoStream EXCEPT !.state = "connecting"]
       ELSE call' = NoCall /\ UNCHANGED <<clientVars, stream>>
    /\ UNCHANGED <<serverVars, sent, bounds>>

\* A snapshot of the stream takes the place of the one being completed.
Receive ==
    /\ stream.events # <<>>
    /\ UNCHANGED <<serverVars, sent, bounds>>
    /\ LET event == Head(stream.events)
       IN  \/ event.type # "snapshot" /\ Reopen
           \/ /\ event.type = "snapshot"
              /\ stream' = [stream EXCEPT !.events = Tail(@), !.last = event.at]
              /\ IF Duplicate(event.at) THEN UNCHANGED <<clientVars, call>>
                 ELSE Hydrate(event.at, 0, TRUE)

\* What could not be completed stays as it is; a preview stays pending.
MutantGivenUp == hydration' = NoHydration /\ call' = NoCall /\ pending' = Nowhere
                 /\ UNCHANGED <<view, received>>

GivenUp == hydration' = NoHydration /\ call' = NoCall /\ UNCHANGED <<view, received, pending>>

\* The answer to a request of the hydration.
Hydrated ==
    /\ call.for \in {"page", "snapshot"} /\ call.reply # "none"
    /\ UNCHANGED <<serverVars, stream, sent, bounds>>
    /\ \/ call.reply = "failed" /\ GivenUp
       \/ /\ call.reply = "stale"
          /\ call' = [for |-> "snapshot", at |-> Nowhere, reply |-> "none"]
          /\ UNCHANGED clientVars
       \/ /\ call.for = "page" /\ call.reply = "ok"
          /\ Show([at |-> hydration.at, whole |-> TRUE])
          /\ hydration' = NoHydration /\ call' = NoCall
       \/ /\ call.for = "snapshot" /\ call.reply = "ok"
          /\ Hydrate(call.at, hydration.attempt + 1, hydration.streamed)

PreviewTimer ==
    /\ pending # Nowhere
    /\ Show(Partial(pending))
    /\ UNCHANGED <<serverVars, stream, sent, call, hydration, bounds>>

----
Due == Flush \/ Subscribe \/ Serve \/ Opened \/ Receive \/ Hydrated \/ PreviewTimer

Next ==
    \/ Due
    \/ Notify \/ FlushFails \/ SubscribeRefused \/ Unserved \/ Disconnect \/ Restart
    \/ Open \/ Suspend

\* Tasks, timers and the deliveries of a connection that is not lost happen.
Spec == Init /\ [][Next]_vars /\ WF_vars(Due)

(***************************************************************************)
(* What is shown never goes back: not to an earlier server, nor, of one     *)
(* server, to an earlier place; and while the stream lasts, not from a      *)
(* complete model to a part of the same one.  Events, pages, new snapshots  *)
(* of a hydration and its preview all race to be shown.                     *)
(***************************************************************************)
NeverBack ==
    [][/\ view'.at.epoch >= view.at.epoch
       /\ view'.at.epoch = view.at.epoch => view'.at.position >= view.at.position
       /\ view'.at = view.at /\ view.whole /\ stream.state # "none" => view'.whole]_vars

Disconnected == stream.state = "none" /\ call.for # "open"

(***************************************************************************)
(* Once the server has no news, what it has is shown, for good, even if a   *)
(* hydration failed; unless the stream was refused or the snapshot of an    *)
(* open failed, or the user suspended the client: it then waits for the     *)
(* user.                                                                    *)
(***************************************************************************)
CatchesUp == <>[](Disconnected \/ view.at = server)
====
