---- MODULE BrowserProofs ----
(***************************************************************************)
(* What the page shows is never older than what it showed, and what it      *)
(* draws is of the view that is chosen, for any order in which answers,     *)
(* events, timers, failures and the user come.                              *)
(***************************************************************************)
EXTENDS ModelStream, ViewPlatform, FiniteSetTheorems, SequenceTheorems, TLAPS

(***************************************************************************)
(* The stream: an inductive invariant about the order of places.            *)
(***************************************************************************)

\* The order of places: servers one after another, and the positions of each.
Earlier(p, q) == p.epoch < q.epoch \/ (p.epoch = q.epoch /\ p.position < q.position)

NoLater(p, q) == p.epoch < q.epoch \/ (p.epoch = q.epoch /\ p.position <= q.position)

\* What is shown is not later than what was accepted, which is not later than what is being
\* completed; a preview is of that and is new.
OrderHolds ==
    /\ NoLater(view.at, received) /\ NoLater(received, server)
    /\ hydration # NoHydration => NoLater(received, hydration.at) /\ NoLater(hydration.at, server)
    /\ pending # Nowhere =>
        /\ Earlier(view.at, pending) /\ NoLater(received, pending) /\ NoLater(pending, server)
        /\ hydration # NoHydration => hydration.at = pending
    /\ hydration # NoHydration => hydration.attempt < Attempts

\* While an open() waits nothing else is shown; a page is asked of the snapshot that is being
\* completed, and another snapshot only when the server has left that one.
CallHolds ==
    /\ call.for = "open" => hydration = NoHydration /\ pending = Nowhere
    /\ call.for = "open" /\ call.reply = "ok" => NoLater(received, call.at) /\ NoLater(call.at, server)
    /\ call.for = "page" => call.at = hydration.at
    /\ call.for = "page" /\ call.reply = "stale" => Earlier(hydration.at, server)
    /\ call.for = "snapshot" => Earlier(hydration.at, server)
    /\ call.for = "snapshot" /\ call.reply = "ok" => Earlier(hydration.at, call.at) /\ NoLater(call.at, server)
    /\ call.reply = "stale" => call.for = "page"
    /\ call.reply = "ok" => call.at \in Places

\* What is on its way in the stream is of the server there is.
EventsHold ==
    /\ stream.state = "none" => stream.events = <<>>
    /\ \A i \in DOMAIN stream.events : stream.events[i].type = "snapshot" =>
           /\ stream.events[i].at.epoch = server.epoch
           /\ NoLater(stream.events[i].at, server)

StreamInv == TypeOK /\ OrderHolds /\ CallHolds /\ EventsHold

(***************************************************************************)
(* Types.                                                                   *)
(***************************************************************************)

EventType == [type : {"snapshot", "reset", "unavailable"}, at : AnyPlace]

\* Places are numbers, and what is of no server is not one of them.
LEMMA PlacesAreNumbers ==
  /\ \A p \in AnyPlace : p.epoch \in Nat /\ p.position \in Nat
  /\ \A p \in Places : p \in AnyPlace /\ p.epoch >= 1
  /\ \A p \in AnyPlace : p.epoch >= 1 => p \in Places
  /\ Nowhere \in AnyPlace /\ Nowhere.epoch = 0
  /\ \A p, q \in AnyPlace : p.epoch = q.epoch /\ p.position = q.position => p = q
BY StreamAssumption DEF AnyPlace, Places, Nowhere

LEMMA Constants ==
  /\ NoStream \in Streams /\ NoCall \in Calls /\ NoHydration \in Hydrations
  /\ [NoCall EXCEPT !.for = "open"] \in Calls
  /\ [NoStream EXCEPT !.state = "connecting"] \in Streams
<1>1. Nowhere \in AnyPlace /\ 0 \in 0..Attempts
  BY StreamAssumption DEF AnyPlace
<1>2. NoCall \in Calls /\ [NoCall EXCEPT !.for = "open"] \in Calls
  BY <1>1 DEF NoCall, Calls
<1>3. NoHydration \in Hydrations
  BY <1>1 DEF NoHydration, Hydrations
<1>4. <<>> \in Seq(EventType)
  OBVIOUS
<1>5. NoStream \in Streams /\ [NoStream EXCEPT !.state = "connecting"] \in Streams
  BY <1>1, <1>4 DEF NoStream, Streams, EventType
<1> QED
  BY <1>2, <1>3, <1>5

\* What a step makes of the stream is a stream.
LEMMA StreamWith ==
  ASSUME stream \in Streams, NEW e \in Seq(EventType)
  PROVE  /\ /\ [stream EXCEPT !.events = e] \in Streams
            /\ [stream EXCEPT !.events = e].state = stream.state
            /\ [stream EXCEPT !.events = e].events = e
         /\ \A st \in {"none", "connecting", "open", "ended"} :
            /\ [stream EXCEPT !.state = st, !.events = e] \in Streams
            /\ [stream EXCEPT !.state = st, !.events = e].state = st
            /\ [stream EXCEPT !.state = st, !.events = e].events = e
         /\ \A place \in AnyPlace :
            /\ [stream EXCEPT !.events = e, !.last = place] \in Streams
            /\ [stream EXCEPT !.events = e, !.last = place].state = stream.state
            /\ [stream EXCEPT !.events = e, !.last = place].events = e
<1>1. stream \in [state : {"none", "connecting", "open", "ended"}, last : AnyPlace, events : Seq(EventType)]
  BY DEF Streams, EventType
<1>2. /\ [stream EXCEPT !.events = e] \in Streams
      /\ [stream EXCEPT !.events = e].state = stream.state /\ [stream EXCEPT !.events = e].events = e
  BY <1>1 DEF Streams, EventType
<1>3. ASSUME NEW st \in {"none", "connecting", "open", "ended"}
      PROVE  /\ [stream EXCEPT !.state = st, !.events = e] \in Streams
             /\ [stream EXCEPT !.state = st, !.events = e].state = st
             /\ [stream EXCEPT !.state = st, !.events = e].events = e
  BY <1>1 DEF Streams, EventType
<1>4. ASSUME NEW place \in AnyPlace
      PROVE  /\ [stream EXCEPT !.events = e, !.last = place] \in Streams
             /\ [stream EXCEPT !.events = e, !.last = place].state = stream.state
             /\ [stream EXCEPT !.events = e, !.last = place].events = e
  BY <1>1 DEF Streams, EventType
<1> QED
  BY <1>2, <1>3, <1>4

\* One round of a hydration shows the snapshot, or keeps it as a preview.
LEMMA HydrateEffect ==
  ASSUME TypeOK, NEW place \in Places, NEW attempt \in 0..Attempts, NEW streamed \in BOOLEAN,
         Hydrate(place, attempt, streamed)
  PROVE  /\ \/ view' = Partial(place) /\ received' = place /\ pending' = Nowhere
            \/ /\ view' = view /\ view.whole /\ view.at.epoch = place.epoch
               /\ pending' = place /\ received' = IF attempt = 0 THEN place ELSE received
         /\ \/ hydration' = NoHydration /\ call' = NoCall
            \/ /\ attempt < Attempts
               /\ hydration' = [at |-> place, attempt |-> attempt, streamed |-> streamed]
               /\ hydration' # NoHydration
               /\ call' = [for |-> "page", at |-> place, reply |-> "none"]
         /\ view' \in [at : AnyPlace, whole : BOOLEAN]
         /\ received' \in AnyPlace /\ pending' \in AnyPlace
         /\ hydration' \in Hydrations /\ call' \in Calls
<1>1. place \in AnyPlace /\ place # Nowhere /\ Nowhere \in AnyPlace
  BY PlacesAreNumbers
<1>2. \/ view' = Partial(place) /\ received' = place /\ pending' = Nowhere
      \/ /\ view' = view /\ view.whole /\ view.at.epoch = place.epoch
         /\ pending' = place /\ received' = IF attempt = 0 THEN place ELSE received
  BY DEF Hydrate, Show, Partial
<1>3. \/ hydration' = NoHydration /\ call' = NoCall
      \/ /\ attempt < Attempts
         /\ hydration' = [at |-> place, attempt |-> attempt, streamed |-> streamed]
         /\ call' = [for |-> "page", at |-> place, reply |-> "none"]
  BY StreamAssumption DEF Hydrate
<1>4. [at |-> place, attempt |-> attempt, streamed |-> streamed] # NoHydration
  BY <1>1 DEF NoHydration
<1>5. Partial(place) \in [at : AnyPlace, whole : BOOLEAN]
  BY <1>1 DEF Partial, IsLarge
<1>6. [at |-> place, attempt |-> attempt, streamed |-> streamed] \in Hydrations
  BY <1>1 DEF Hydrations
<1>7. [for |-> "page", at |-> place, reply |-> "none"] \in Calls
  BY <1>1 DEF Calls
<1>8. /\ view' \in [at : AnyPlace, whole : BOOLEAN] /\ received' \in AnyPlace /\ pending' \in AnyPlace
  BY <1>1, <1>2, <1>5 DEF TypeOK
<1>9. hydration' \in Hydrations /\ call' \in Calls
  BY <1>3, <1>6, <1>7, Constants
<1> QED
  BY <1>2, <1>3, <1>4, <1>8, <1>9

\* The next snapshot in the stream is of the server there is.
LEMMA HeadIsOfServer ==
  ASSUME StreamInv, stream.events # <<>>, Head(stream.events).type = "snapshot"
  PROVE  /\ Head(stream.events).at \in Places
         /\ Head(stream.events).at.epoch = server.epoch
         /\ NoLater(Head(stream.events).at, server)
<1>1. stream.events \in Seq(EventType) /\ server \in Places
  BY DEF StreamInv, TypeOK, Streams, EventType
<1>2. /\ Head(stream.events) = stream.events[1] /\ 1 \in DOMAIN stream.events
      /\ Head(stream.events) \in EventType
  BY <1>1
<1>3. /\ Head(stream.events).at.epoch = server.epoch
      /\ NoLater(Head(stream.events).at, server)
  BY <1>2 DEF StreamInv, EventsHold
<1>4. Head(stream.events).at \in AnyPlace
  BY <1>2 DEF EventType
<1> QED
  BY <1>1, <1>3, <1>4, PlacesAreNumbers

LEMMA TypesKept ==
  ASSUME StreamInv, [Next]_vars
  PROVE  TypeOK'
<1>i. TypeOK
  BY DEF StreamInv
<1>n. /\ Nowhere \in AnyPlace /\ server \in AnyPlace /\ server.epoch \in Nat /\ server.position \in Nat
  BY <1>i, PlacesAreNumbers DEF TypeOK
<1>s. /\ stream \in [state : {"none", "connecting", "open", "ended"}, last : AnyPlace, events : Seq(EventType)]
  BY <1>i DEF TypeOK, Streams, EventType
<1>0. CASE UNCHANGED vars
  BY <1>0, <1>i DEF vars, serverVars, clientVars, bounds, TypeOK
<1>1. CASE Notify
  <2>1. server' \in Places
    BY <1>1, <1>i, StreamAssumption DEF Notify, TypeOK, Places
  <2> QED
    BY <1>1, <1>i, <2>1 DEF Notify, TypeOK, clientVars, bounds
<1>2. CASE Flush
  <2>1. Event("snapshot", server) \in EventType
    BY <1>n DEF Event, EventType
  <2>2. stream' \in Streams /\ (stream'.state = "none" \/ call.for # "open")
    <3>1. Append(stream.events, Event("snapshot", server)) \in Seq(EventType)
      BY <1>s, <2>1
    <3>2. \/ stream' = stream
          \/ stream' = [stream EXCEPT !.events = Append(stream.events, Event("snapshot", server))]
      BY <1>2 DEF Flush
    <3>3. [stream EXCEPT !.events = Append(stream.events, Event("snapshot", server))] \in Streams
      BY <1>i, <3>1, StreamWith DEF TypeOK
    <3>4. [stream EXCEPT !.events = Append(stream.events, Event("snapshot", server))].state = stream.state
      BY <1>i, <3>1, StreamWith DEF TypeOK
    <3> QED
      BY <1>i, <3>2, <3>3, <3>4 DEF TypeOK
  <2>3. sent' \in 0..MaxPosition
    BY <1>2, <1>i, StreamAssumption DEF Flush, TypeOK, Places
  <2> QED
    BY <1>2, <1>i, <2>2, <2>3 DEF Flush, TypeOK, clientVars, bounds
<1>3. CASE FlushFails
  <2>1. Event("unavailable", Nowhere) \in EventType
    BY <1>n DEF Event, EventType
  <2>2. stream' \in Streams /\ (stream'.state = "none" \/ call.for # "open")
    <3>1. Append(stream.events, Event("unavailable", Nowhere)) \in Seq(EventType)
      BY <1>s, <2>1
    <3> QED
      BY <1>3, <1>i, <3>1, <1>n, StreamWith DEF FlushFails, TypeOK
  <2>3. faults' \in 0..MaxFaults /\ opens' = opens
    BY <1>3, <1>i, StreamAssumption DEF FlushFails, Fault, TypeOK
  <2> QED
    BY <1>3, <1>i, <2>2, <2>3 DEF FlushFails, TypeOK, clientVars
<1>4. CASE Subscribe
  <2>1. Event("snapshot", server) \in EventType /\ Event("reset", Nowhere) \in EventType
    BY <1>n DEF Event, EventType
  <2>2. stream' \in Streams /\ (stream'.state = "none" \/ call.for # "open")
    <3> DEFINE first == (IF stream.last # Nowhere /\ Lost(stream.last)
                         THEN <<Event("reset", Nowhere)>> ELSE <<>>) \o <<Event("snapshot", server)>>
    <3>1. first \in Seq(EventType)
      BY <2>1
    <3>2. stream' = [stream EXCEPT !.state = "open", !.events = first] /\ stream.state = "connecting"
      BY <1>4 DEF Subscribe
    <3> HIDE DEF first
    <3> QED
      BY <1>i, <3>1, <3>2, <1>n, StreamWith DEF TypeOK
  <2>3. sent' \in 0..MaxPosition
    BY <1>4, <1>i, StreamAssumption DEF Subscribe, TypeOK, Places
  <2> QED
    BY <1>4, <1>i, <2>2, <2>3 DEF Subscribe, TypeOK, serverVars, clientVars, bounds
<1>5. CASE SubscribeRefused
  BY <1>5, <1>i, Constants, StreamAssumption DEF SubscribeRefused, Fault, NoStream, TypeOK, serverVars, clientVars
<1>6. CASE Serve
  <2>1. call' \in Calls /\ call'.for = call.for
    BY <1>6, <1>i, <1>n DEF Serve, TypeOK, Calls
  <2> QED
    BY <1>6, <1>i, <2>1 DEF Serve, TypeOK, serverVars, clientVars, bounds
<1>7. CASE Unserved
  <2>1. call' \in Calls /\ call'.for = call.for
    BY <1>7, <1>i DEF Unserved, TypeOK, Calls
  <2> QED
    BY <1>7, <1>i, <2>1, StreamAssumption DEF Unserved, Fault, TypeOK, serverVars, clientVars
<1>e. <<>> \in Seq(EventType)
  OBVIOUS
<1>8. Broken \in Streams /\ (Broken.state = "none" \/ call.for # "open")
  BY <1>i, <1>n, <1>e, StreamWith DEF Broken, TypeOK
<1>9. CASE Disconnect
  BY <1>9, <1>i, <1>8, StreamAssumption DEF Disconnect, Fault, TypeOK, serverVars, clientVars
<1>10. CASE Restart
  <2>1. server' \in Places
    BY <1>10, <1>i, StreamAssumption DEF Restart, TypeOK, Places
  <2>2. call' \in Calls /\ call'.for = call.for
    BY <1>10, <1>i DEF Restart, TypeOK, Calls
  <2> QED
    BY <1>10, <1>i, <1>8, <2>1, <2>2 DEF Restart, TypeOK, clientVars, bounds
<1>11. CASE Open
  BY <1>11, <1>i, <1>n, Constants, StreamAssumption DEF Open, Reopen, TypeOK, NoStream, NoCall, serverVars
<1>12. CASE Suspend
  BY <1>12, <1>i, <1>n, Constants, StreamAssumption DEF Suspend, TypeOK, NoStream, NoCall, serverVars
<1>13. CASE Opened
  <2>1. CASE call.reply = "ok"
    <3> DEFINE no == FALSE
    <3>a. Hydrate(call.at, 0, no) /\ stream' = [NoStream EXCEPT !.state = "connecting"]
      BY <1>13, <2>1 DEF Opened
    <3>b. call.at \in Places
      BY <2>1 DEF StreamInv, CallHolds
    <3>c. 0 \in 0..Attempts /\ no \in BOOLEAN
      BY StreamAssumption
    <3> HIDE DEF no
    <3>1. /\ view' \in [at : AnyPlace, whole : BOOLEAN] /\ received' \in AnyPlace /\ pending' \in AnyPlace
          /\ hydration' \in Hydrations /\ call' \in Calls
          /\ \/ hydration' = NoHydration /\ call' = NoCall
             \/ hydration' # NoHydration /\ call'.for = "page"
      BY <1>i, <3>a, <3>b, <3>c, HydrateEffect
    <3>2. stream' \in Streams /\ call'.for # "open"
      BY <3>a, <3>1, Constants DEF NoCall
    <3>3. call'.for \in {"page", "snapshot"} <=> hydration' # NoHydration
      BY <3>1 DEF NoCall
    <3> QED
      BY <1>13, <1>i, <3>1, <3>2, <3>3 DEF Opened, TypeOK, serverVars, bounds
  <2>2. CASE call.reply # "ok"
    BY <1>13, <2>2, <1>i, Constants DEF Opened, TypeOK, NoCall, serverVars, clientVars, bounds
  <2> QED
    BY <2>1, <2>2
<1>14. CASE Receive
  <2> DEFINE event == Head(stream.events)
  <2>1. event \in EventType /\ Tail(stream.events) \in Seq(EventType)
    BY <1>14, <1>s DEF Receive
  <2>2. CASE event.type # "snapshot"
    <3>1. Reopen /\ UNCHANGED bounds
      BY <1>14, <2>2 DEF Receive
    <3> QED
      BY <3>1, <1>i, <1>n, Constants DEF Reopen, TypeOK, NoStream, NoCall, serverVars, bounds
  <2>3. CASE event.type = "snapshot"
    <3>1. /\ stream' = [stream EXCEPT !.events = Tail(@), !.last = event.at]
          /\ stream'.state = stream.state /\ UNCHANGED <<serverVars, sent, bounds>>
      BY <1>14, <2>3, <1>s DEF Receive
    <3>2. stream' \in Streams
      BY <3>1, <1>s, <2>1 DEF Streams, EventType
    <3>3. event.at \in Places
      BY <1>14, <1>s, <1>i, <2>3, HeadIsOfServer DEF Receive
    <3>4. CASE Duplicate(event.at)
      BY <1>14, <2>3, <3>1, <3>2, <3>4, <1>i DEF Receive, TypeOK, serverVars, clientVars, bounds
    <3>5. CASE ~ Duplicate(event.at)
      <4> DEFINE yes == TRUE
      <4>a. Hydrate(event.at, 0, yes)
        BY <1>14, <2>3, <3>5 DEF Receive
      <4>b. 0 \in 0..Attempts /\ yes \in BOOLEAN
        BY StreamAssumption
      <4> HIDE DEF yes
      <4>1. /\ view' \in [at : AnyPlace, whole : BOOLEAN] /\ received' \in AnyPlace /\ pending' \in AnyPlace
            /\ hydration' \in Hydrations /\ call' \in Calls
            /\ \/ hydration' = NoHydration /\ call' = NoCall
               \/ hydration' # NoHydration /\ call'.for = "page"
        BY <1>i, <3>3, <4>a, <4>b, HydrateEffect
      <4>2. call'.for # "open" /\ (call'.for \in {"page", "snapshot"} <=> hydration' # NoHydration)
        BY <4>1 DEF NoCall
      <4> QED
        BY <1>i, <3>1, <3>2, <4>1, <4>2 DEF TypeOK, serverVars, bounds
    <3> QED
      BY <3>4, <3>5
  <2> QED
    BY <2>2, <2>3
<1>15. CASE Hydrated
  <2>0. hydration # NoHydration /\ UNCHANGED <<serverVars, stream, sent, bounds>>
    BY <1>15, <1>i DEF Hydrated, TypeOK
  <2>1. CASE call.reply = "failed" /\ GivenUp
    BY <2>0, <2>1, <1>i, Constants DEF GivenUp, TypeOK, NoCall, serverVars, bounds
  <2>2. CASE /\ call.reply = "stale"
             /\ call' = [for |-> "snapshot", at |-> Nowhere, reply |-> "none"]
             /\ UNCHANGED clientVars
    <3>1. call' \in Calls /\ call'.for = "snapshot"
      BY <2>2, <1>n DEF Calls
    <3> QED
      BY <2>0, <2>2, <3>1, <1>i DEF TypeOK, clientVars, serverVars, bounds
  <2>3. CASE /\ call.for = "page" /\ call.reply = "ok"
             /\ Show([at |-> hydration.at, whole |-> TRUE])
             /\ hydration' = NoHydration /\ call' = NoCall
    <3>1. hydration.at \in AnyPlace
      BY <1>i DEF TypeOK, Hydrations
    <3> QED
      BY <2>0, <2>3, <3>1, <1>i, <1>n, Constants DEF Show, TypeOK, NoCall, serverVars, bounds
  <2>4. CASE /\ call.for = "snapshot" /\ call.reply = "ok"
             /\ Hydrate(call.at, hydration.attempt + 1, hydration.streamed)
    <3>1. call.at \in Places /\ hydration.attempt + 1 \in 0..Attempts /\ hydration.streamed \in BOOLEAN
      BY <2>0, <2>4, <1>i, StreamAssumption DEF StreamInv, CallHolds, OrderHolds, TypeOK, Hydrations
    <3>2. call'.for # "open" /\ (call'.for \in {"page", "snapshot"} <=> hydration' # NoHydration)
      BY <1>i, <3>1, <2>4, HydrateEffect DEF NoCall
    <3> QED
      BY <1>i, <2>0, <2>4, <3>1, <3>2, HydrateEffect DEF TypeOK, serverVars, bounds
  <2> QED
    BY <1>15, <2>1, <2>2, <2>3, <2>4 DEF Hydrated
<1>16. CASE PreviewTimer
  <2>1. Partial(pending) \in [at : AnyPlace, whole : BOOLEAN] /\ Partial(pending).at \in AnyPlace
    BY <1>i DEF TypeOK, Partial, IsLarge
  <2> QED
    BY <1>16, <1>i, <1>n, <2>1 DEF PreviewTimer, Show, TypeOK, serverVars, bounds
<1> QED
  BY <1>0, <1>1, <1>2, <1>3, <1>4, <1>5, <1>6, <1>7, <1>9, <1>10, <1>11, <1>12, <1>13, <1>14, <1>15, <1>16
     DEF Next, Due

(***************************************************************************)
(* The order of places.                                                     *)
(***************************************************************************)

\* Every place a step deals with is a pair of numbers.
LEMMA Numbers ==
  ASSUME TypeOK
  PROVE  /\ server.epoch \in Nat /\ server.position \in Nat /\ server.epoch >= 1
         /\ view.at.epoch \in Nat /\ view.at.position \in Nat
         /\ received.epoch \in Nat /\ received.position \in Nat
         /\ pending.epoch \in Nat /\ pending.position \in Nat
         /\ hydration.at.epoch \in Nat /\ hydration.at.position \in Nat
         /\ call.at.epoch \in Nat /\ call.at.position \in Nat
<1>1. /\ server \in Places /\ view.at \in AnyPlace /\ received \in AnyPlace /\ pending \in AnyPlace
      /\ hydration.at \in AnyPlace /\ call.at \in AnyPlace
  BY DEF TypeOK, Hydrations, Calls
<1> QED
  BY <1>1, PlacesAreNumbers

\* Nothing is shown before what is known, and what is known is not ahead of the server.
LEMMA HydrateKeepsOrder ==
  ASSUME StreamInv, NEW place \in Places, NEW attempt \in 0..Attempts, NEW streamed \in BOOLEAN,
         Hydrate(place, attempt, streamed),
         NoLater(view.at, place), NoLater(received, place), NoLater(place, server),
         view.at.epoch = place.epoch /\ view.whole /\ streamed => Earlier(view.at, place),
         UNCHANGED server
  PROVE  OrderHolds' /\ CallHolds'
<1>1. TypeOK /\ place.epoch \in Nat /\ place.position \in Nat /\ place # Nowhere
  BY PlacesAreNumbers DEF StreamInv
<1>2. \/ view'.at = place /\ received' = place /\ pending' = Nowhere
      \/ view' = view /\ pending' = place /\ received' \in {received, place} /\ Earlier(view.at, place)
  <2>1. ~ streamed => view' = Partial(place) /\ received' = place /\ pending' = Nowhere
    BY DEF Hydrate, Show, Partial
  <2>2. Partial(place).at = place
    BY DEF Partial
  <2> QED
    BY <1>1, <2>1, <2>2, HydrateEffect
<1>3. \/ hydration' = NoHydration /\ call' = NoCall
      \/ /\ attempt < Attempts /\ hydration' # NoHydration
         /\ hydration'.at = place /\ hydration'.attempt = attempt
         /\ call'.for = "page" /\ call'.at = place /\ call'.reply = "none"
  BY <1>1, HydrateEffect
<1>4. OrderHolds'
  BY <1>1, <1>2, <1>3, Numbers DEF StreamInv, OrderHolds, NoLater, Earlier
<1>5. CallHolds'
  BY <1>1, <1>3 DEF CallHolds, NoCall
<1> QED
  BY <1>4, <1>5

LEMMA OrderKept ==
  ASSUME StreamInv, [Next]_vars
  PROVE  OrderHolds' /\ CallHolds'
<1>i. TypeOK /\ OrderHolds /\ CallHolds
  BY DEF StreamInv
<1>0. CASE UNCHANGED vars
  BY <1>0, <1>i DEF vars, serverVars, clientVars, OrderHolds, CallHolds, NoLater, Earlier
<1>1. CASE Notify
  <2>1. /\ server'.epoch = server.epoch /\ server'.position = server.position + 1
        /\ UNCHANGED <<call, view, received, hydration, pending>>
    BY <1>1, <1>i DEF Notify, TypeOK, Places, clientVars
  <2> QED
    BY <1>i, <2>1, Numbers DEF OrderHolds, CallHolds, NoLater, Earlier
<1>2. CASE Flush \/ FlushFails \/ Subscribe \/ SubscribeRefused \/ Disconnect
  <2>1. UNCHANGED <<server, call, view, received, hydration, pending>>
    BY <1>2 DEF Flush, FlushFails, Subscribe, SubscribeRefused, Disconnect, serverVars, clientVars
  <2> QED
    BY <1>i, <2>1 DEF OrderHolds, CallHolds, NoLater, Earlier
<1>3. CASE Serve
  <2>1. UNCHANGED <<server, view, received, hydration, pending>> /\ call'.for = call.for
    BY <1>3, <1>i DEF Serve, TypeOK, Calls, serverVars, clientVars
  <2>2. OrderHolds'
    BY <1>i, <2>1 DEF OrderHolds, NoLater, Earlier
  <2>3. NoLater(received, server) /\ (hydration # NoHydration => NoLater(hydration.at, server))
    BY <1>i, Numbers DEF OrderHolds, NoLater
  <2>4. CASE call.for # "page"
    <3>1. call'.at = server /\ call'.reply = "ok" /\ server \in Places
      BY <1>3, <1>i, <2>4 DEF Serve, TypeOK, Calls
    <3> QED
      BY <1>i, <2>1, <2>2, <2>3, <2>4, <3>1, Numbers DEF CallHolds, NoLater, Earlier
  <2>5. CASE call.for = "page"
    <3>1. /\ call'.at = call.at /\ call'.reply = IF call.at = server THEN "ok" ELSE "stale"
          /\ server \in AnyPlace /\ server \in Places /\ call.at \in AnyPlace
      BY <1>3, <1>i, <2>5, PlacesAreNumbers DEF Serve, TypeOK, Calls
    <3>2. hydration # NoHydration /\ call.at = hydration.at
      BY <1>i, <2>5 DEF TypeOK, CallHolds
    <3>3. call.at # server => Earlier(hydration.at, server)
      BY <2>3, <3>1, <3>2, PlacesAreNumbers, <1>i, Numbers DEF NoLater, Earlier
    <3> QED
      BY <1>i, <2>1, <2>2, <2>5, <3>1, <3>2, <3>3 DEF CallHolds, Earlier
  <2> QED
    BY <2>4, <2>5
<1>4. CASE Unserved
  <2>1. /\ UNCHANGED <<server, view, received, hydration, pending>>
        /\ call'.for = call.for /\ call'.at = call.at /\ call'.reply = "failed"
    BY <1>4, <1>i DEF Unserved, TypeOK, Calls, serverVars, clientVars
  <2> QED
    BY <1>i, <2>1 DEF OrderHolds, CallHolds, NoLater, Earlier
<1>5. CASE Restart
  <2>1. /\ server'.epoch = server.epoch + 1
        /\ UNCHANGED <<view, received, hydration, pending>>
        /\ call'.for = call.for /\ call'.at = call.at
        /\ call.for = "none" => call' = call
        /\ call.for # "none" => call'.reply = "failed"
    BY <1>5, <1>i DEF Restart, TypeOK, Calls, clientVars
  <2>2. server'.position \in Nat
    BY <1>5 DEF Restart
  <2>3. OrderHolds'
    BY <1>i, <2>1, <2>2, Numbers DEF OrderHolds, NoLater, Earlier
  <2>4. CallHolds'
    BY <1>i, <2>1, <2>2, Numbers DEF CallHolds, OrderHolds, NoLater, Earlier, TypeOK
  <2> QED
    BY <2>3, <2>4
<1>6. CASE Open \/ Suspend
  <2>1. /\ UNCHANGED <<server, view, received>> /\ hydration' = NoHydration /\ pending' = Nowhere
        /\ call'.for \in {"open", "none"} /\ call'.reply = "none"
    BY <1>6 DEF Open, Reopen, Suspend, NoCall, serverVars
  <2> QED
    BY <1>i, <2>1 DEF OrderHolds, CallHolds, NoLater
<1>7. CASE Opened
  <2>1. CASE call.reply = "ok"
    <3> DEFINE no == FALSE
    <3>1. Hydrate(call.at, 0, no) /\ UNCHANGED server
      BY <1>7, <2>1 DEF Opened, serverVars
    <3>2. 0 \in 0..Attempts /\ no \in BOOLEAN /\ ~ no
      BY StreamAssumption
    <3> HIDE DEF no
    <3>3. call.at \in Places /\ NoLater(received, call.at) /\ NoLater(call.at, server)
      BY <1>7, <1>i, <2>1 DEF Opened, CallHolds
    <3>4. NoLater(view.at, call.at)
      BY <1>i, <3>3, Numbers DEF OrderHolds, NoLater
    <3> QED
      BY <3>1, <3>2, <3>3, <3>4, HydrateKeepsOrder
  <2>2. CASE call.reply # "ok"
    <3>1. UNCHANGED <<server, view, received, hydration, pending>> /\ call' = NoCall
      BY <1>7, <2>2 DEF Opened, serverVars, clientVars
    <3>2. call.for = "open" => hydration = NoHydration
      BY <1>i DEF CallHolds
    <3> QED
      BY <1>i, <3>1 DEF OrderHolds, CallHolds, NoLater, Earlier, NoCall
  <2> QED
    BY <2>1, <2>2
<1>8. CASE Receive
  <2> DEFINE event == Head(stream.events)
  <2>1. CASE event.type # "snapshot"
    <3>1. Reopen
      BY <1>8, <2>1 DEF Receive
    <3>2. /\ UNCHANGED <<server, view, received>> /\ hydration' = NoHydration /\ pending' = Nowhere
          /\ call'.for = "open" /\ call'.reply = "none"
      BY <3>1 DEF Reopen, NoCall, serverVars
    <3> QED
      BY <1>i, <3>2 DEF OrderHolds, CallHolds, NoLater
  <2>2. CASE event.type = "snapshot"
    <3> DEFINE yes == TRUE  place == event.at
    <3>0. UNCHANGED server
      BY <1>8 DEF Receive, serverVars
    <3>1. /\ UNCHANGED server
          /\ \/ Duplicate(place) /\ UNCHANGED <<call, view, received, hydration, pending>>
             \/ ~ Duplicate(place) /\ Hydrate(place, 0, yes)
      <4>1. CASE Duplicate(event.at)
        <5>1. UNCHANGED <<call, view, received, hydration, pending>>
          BY <1>8, <2>2, <4>1 DEF Receive, clientVars
        <5> QED
          BY <3>0, <4>1, <5>1
      <4>2. CASE ~ Duplicate(event.at)
        <5>1. Hydrate(event.at, 0, TRUE)
          BY <1>8, <2>2, <4>2 DEF Receive
        <5> QED
          BY <3>0, <4>2, <5>1
      <4> QED
        BY <4>1, <4>2
    <3>2. 0 \in 0..Attempts /\ yes \in BOOLEAN
      BY StreamAssumption
    <3>3. place \in Places /\ place.epoch = server.epoch /\ NoLater(place, server)
      BY <1>8, <2>2, HeadIsOfServer DEF Receive
    <3> HIDE DEF yes, place, event
    <3>4. CASE Duplicate(place) /\ UNCHANGED <<call, view, received, hydration, pending>>
      BY <1>i, <3>1, <3>4 DEF OrderHolds, CallHolds, NoLater, Earlier
    <3>5. CASE ~ Duplicate(place) /\ Hydrate(place, 0, yes)
      <4>1. place.epoch \in Nat /\ place.position \in Nat
        BY <3>3, PlacesAreNumbers
      <4>2. Earlier(received, place)
        BY <1>i, <3>3, <3>5, <4>1, Numbers DEF Duplicate, Earlier, OrderHolds, NoLater
      <4>3. NoLater(received, place) /\ Earlier(view.at, place) /\ NoLater(view.at, place)
        BY <1>i, <4>1, <4>2, Numbers DEF Earlier, NoLater, OrderHolds
      <4> QED
        BY <3>1, <3>2, <3>3, <3>5, <4>3, HydrateKeepsOrder
    <3> QED
      BY <3>1, <3>4, <3>5
  <2> QED
    BY <2>1, <2>2
<1>9. CASE Hydrated
  <2>0. hydration # NoHydration /\ UNCHANGED server /\ call.for # "open"
    BY <1>9, <1>i DEF Hydrated, TypeOK, serverVars
  <2>1. CASE call.reply = "failed" /\ GivenUp
    BY <1>i, <2>0, <2>1 DEF GivenUp, OrderHolds, CallHolds, NoLater, Earlier, NoCall
  <2>2. CASE /\ call.reply = "stale"
             /\ call' = [for |-> "snapshot", at |-> Nowhere, reply |-> "none"]
             /\ UNCHANGED clientVars
    BY <1>i, <2>0, <2>2 DEF OrderHolds, CallHolds, NoLater, Earlier, clientVars
  <2>3. CASE /\ call.for = "page" /\ call.reply = "ok"
             /\ Show([at |-> hydration.at, whole |-> TRUE])
             /\ hydration' = NoHydration /\ call' = NoCall
    <3>1. view'.at = hydration.at /\ received' = hydration.at /\ pending' = Nowhere
      BY <2>3 DEF Show
    <3> QED
      BY <1>i, <2>0, <2>3, <3>1, Numbers DEF OrderHolds, CallHolds, NoLater, NoCall
  <2>4. CASE /\ call.for = "snapshot" /\ call.reply = "ok"
             /\ Hydrate(call.at, hydration.attempt + 1, hydration.streamed)
    <3>1. call.at \in Places /\ hydration.attempt + 1 \in 0..Attempts /\ hydration.streamed \in BOOLEAN
      BY <2>0, <2>4, <1>i, StreamAssumption DEF CallHolds, OrderHolds, TypeOK, Hydrations
    <3>2. Earlier(hydration.at, call.at) /\ NoLater(call.at, server)
      BY <1>i, <2>4 DEF CallHolds
    <3>3. Earlier(view.at, call.at) /\ NoLater(view.at, call.at) /\ NoLater(received, call.at)
      BY <1>i, <2>0, <3>2, Numbers DEF OrderHolds, Earlier, NoLater
    <3> QED
      BY <2>0, <2>4, <3>1, <3>2, <3>3, HydrateKeepsOrder
  <2> QED
    BY <1>9, <2>1, <2>2, <2>3, <2>4 DEF Hydrated
<1>10. CASE PreviewTimer
  <2>1. /\ UNCHANGED <<server, call, hydration>> /\ pending # Nowhere
        /\ view'.at = pending /\ received' = pending /\ pending' = Nowhere
    BY <1>10 DEF PreviewTimer, Show, Partial, serverVars
  <2>2. OrderHolds'
    BY <1>i, <2>1, Numbers DEF OrderHolds, NoLater
  <2>3. CallHolds'
    BY <1>i, <2>1, Numbers DEF CallHolds, NoLater, Earlier
  <2> QED
    BY <2>2, <2>3
<1> QED
  BY <1>0, <1>1, <1>2, <1>3, <1>4, <1>5, <1>6, <1>7, <1>8, <1>9, <1>10 DEF Next, Due

\* What is on its way stays of the server there is, since a restart ends the connection.
LEMMA EventsKept ==
  ASSUME StreamInv, [Next]_vars
  PROVE  EventsHold'
<1>i. TypeOK /\ EventsHold /\ stream.events \in Seq(EventType)
  BY DEF StreamInv, TypeOK, Streams, EventType
<1>e. <<>> \in Seq(EventType)
  OBVIOUS
<1>1. CASE UNCHANGED <<server, stream>>
  BY <1>i, <1>1 DEF EventsHold, NoLater
<1>2. CASE stream'.events = <<>>
  BY <1>2 DEF EventsHold
<1>3. CASE Notify
  <2>1. /\ server'.epoch = server.epoch /\ server'.position = server.position + 1 /\ UNCHANGED stream
    BY <1>3, <1>i DEF Notify, TypeOK, Places
  <2>2. \A i \in DOMAIN stream.events : stream.events[i].at.position \in Nat
    <3>1. \A i \in DOMAIN stream.events : stream.events[i] \in EventType
      BY <1>i
    <3>2. \A event \in EventType : event.at \in AnyPlace
      BY DEF EventType
    <3> QED
      BY <3>1, <3>2, PlacesAreNumbers
  <2> QED
    BY <1>i, <2>1, <2>2, Numbers DEF EventsHold, NoLater
<1>4. ASSUME NEW event \in EventType, stream'.events = Append(stream.events, event), stream.state # "none",
             event.type = "snapshot" => event.at = server, UNCHANGED server, stream'.state # "none"
      PROVE  EventsHold'
  <2>1. DOMAIN stream'.events = 1..(Len(stream.events) + 1)
    BY <1>i, <1>4
  <2>2. \A i \in 1..Len(stream.events) : stream'.events[i] = stream.events[i]
    BY <1>i, <1>4
  <2>3. stream'.events[Len(stream.events) + 1] = event
    BY <1>i, <1>4
  <2>4. NoLater(server, server) /\ DOMAIN stream.events = 1..Len(stream.events) /\ Len(stream.events) \in Nat
    BY <1>i, Numbers DEF NoLater
  <2>5. ASSUME NEW i \in DOMAIN stream'.events, stream'.events[i].type = "snapshot"
        PROVE  stream'.events[i].at.epoch = server.epoch /\ NoLater(stream'.events[i].at, server)
    <3>1. CASE i = Len(stream.events) + 1
      BY <1>4, <2>3, <2>4, <2>5, <3>1
    <3>2. CASE i \in 1..Len(stream.events)
      BY <1>i, <2>2, <2>4, <2>5, <3>2 DEF EventsHold
    <3> QED
      BY <2>1, <2>4, <3>1, <3>2
  <2> QED
    BY <1>4, <2>5 DEF EventsHold, NoLater
<1>5. CASE Flush
  <2>1. Event("snapshot", server) \in EventType /\ Event("snapshot", server).at = server
    BY <1>i, PlacesAreNumbers DEF Event, EventType, TypeOK
  <2>2. UNCHANGED server /\ (UNCHANGED stream \/ (/\ stream.state = "open"
                               /\ stream' = [stream EXCEPT !.events = Append(stream.events, Event("snapshot", server))]))
    BY <1>5 DEF Flush
  <2>3. Append(stream.events, Event("snapshot", server)) \in Seq(EventType)
    BY <1>i, <2>1
  <2>4. /\ [stream EXCEPT !.events = Append(stream.events, Event("snapshot", server))].events
                = Append(stream.events, Event("snapshot", server))
        /\ [stream EXCEPT !.events = Append(stream.events, Event("snapshot", server))].state = stream.state
    BY <1>i, <2>3, StreamWith DEF TypeOK
  <2> QED
    BY <1>1, <1>4, <2>1, <2>2, <2>4
<1>6. CASE FlushFails
  <2>1. Event("unavailable", Nowhere) \in EventType /\ Event("unavailable", Nowhere).type # "snapshot"
    BY PlacesAreNumbers DEF Event, EventType
  <2>2. /\ UNCHANGED server /\ stream.state = "open"
        /\ stream' = [stream EXCEPT !.state = "ended", !.events = Append(stream.events, Event("unavailable", Nowhere))]
    BY <1>6 DEF FlushFails
  <2>3. Append(stream.events, Event("unavailable", Nowhere)) \in Seq(EventType)
    BY <1>i, <2>1
  <2>4. /\ stream'.events = Append(stream.events, Event("unavailable", Nowhere))
        /\ stream'.state = "ended"
    BY <1>i, <2>2, <2>3, StreamWith DEF TypeOK
  <2> QED
    BY <1>4, <2>1, <2>2, <2>4
<1>7. CASE Subscribe
  <2> DEFINE reset == stream.last # Nowhere /\ Lost(stream.last)
             first == (IF reset THEN <<Event("reset", Nowhere)>> ELSE <<>>) \o <<Event("snapshot", server)>>
  <2>1. /\ first \in Seq(EventType)
        /\ \A i \in DOMAIN first : first[i].type = "snapshot" => first[i].at = server
    <3>1. Event("snapshot", server) \in EventType /\ Event("reset", Nowhere) \in EventType
      BY <1>i, PlacesAreNumbers DEF Event, EventType, TypeOK
    <3> DEFINE all == <<Event("reset", Nowhere)>> \o <<Event("snapshot", server)>>
    <3>2. CASE reset
      <4>1. first = all /\ all \in Seq(EventType) /\ Len(all) = 2
        BY <3>1, <3>2
      <4>2. all[1] = Event("reset", Nowhere) /\ all[2] = Event("snapshot", server) /\ DOMAIN all = 1..2
        BY <3>1, <4>1
      <4> QED
        BY <4>1, <4>2 DEF Event
    <3>3. CASE ~ reset
      <4> DEFINE one == <<Event("snapshot", server)>>
      <4>1. one \in Seq(EventType)
        BY <3>1
      <4>3. first = <<>> \o one
        BY <3>3
      <4>2. first = one
        <5> HIDE DEF one, first
        <5> QED
          BY <4>1, <4>3, ConcatEmptySeq
      <4> QED
        BY <3>1, <4>2 DEF Event
    <3> QED
      BY <3>2, <3>3
  <2>2. stream' = [stream EXCEPT !.state = "open", !.events = first] /\ UNCHANGED server
    BY <1>7 DEF Subscribe, serverVars
  <2> HIDE DEF first
  <2>3. stream'.events = first /\ stream'.state = "open"
    BY <1>i, <2>1, <2>2, StreamWith DEF TypeOK
  <2>4. NoLater(server, server)
    BY <1>i, Numbers DEF NoLater
  <2> QED
    BY <2>1, <2>2, <2>3, <2>4 DEF EventsHold, NoLater
<1>8. CASE Disconnect \/ Restart
  <2>1. stream' = Broken
    BY <1>8 DEF Disconnect, Restart
  <2>2. Broken.events = <<>>
    BY <1>i, <1>e, StreamWith DEF Broken, TypeOK, EventsHold
  <2> QED
    BY <1>2, <2>1, <2>2
<1>9. CASE SubscribeRefused \/ Open \/ Suspend
  BY <1>2, <1>9 DEF SubscribeRefused, Open, Suspend, Reopen, NoStream
<1>10. CASE Opened
  BY <1>1, <1>2, <1>10 DEF Opened, NoStream, serverVars
<1>11. CASE Receive
  <2> DEFINE event == Head(stream.events)
  <2>1. CASE event.type # "snapshot"
    <3>1. Reopen
      BY <1>11, <2>1 DEF Receive
    <3> QED
      BY <1>2, <3>1 DEF Reopen, NoStream
  <2>2. CASE event.type = "snapshot"
    <3>1. /\ stream' = [stream EXCEPT !.events = Tail(stream.events), !.last = event.at]
          /\ UNCHANGED server /\ stream.events # <<>>
      BY <1>11, <2>2 DEF Receive, serverVars
    <3>2. Tail(stream.events) \in Seq(EventType) /\ event \in EventType /\ event.at \in AnyPlace
      <4>1. Tail(stream.events) \in Seq(EventType) /\ event \in EventType
        BY <1>i, <3>1
      <4> QED
        BY <4>1 DEF EventType
    <3>3. stream'.events = Tail(stream.events) /\ stream'.state = stream.state
      BY <1>i, <3>1, <3>2 DEF TypeOK, Streams, EventType
    <3>4. \A i \in DOMAIN Tail(stream.events) : i + 1 \in DOMAIN stream.events /\ Tail(stream.events)[i] = stream.events[i + 1]
      BY <1>i, <3>1
    <3> QED
      BY <1>i, <3>1, <3>3, <3>4 DEF EventsHold, NoLater
  <2> QED
    BY <2>1, <2>2
<1>12. CASE UNCHANGED vars \/ Serve \/ Unserved \/ Hydrated \/ PreviewTimer
  BY <1>1, <1>12 DEF vars, Serve, Unserved, Hydrated, PreviewTimer, serverVars
<1> QED
  BY <1>3, <1>5, <1>6, <1>7, <1>8, <1>9, <1>10, <1>11, <1>12 DEF Next, Due

LEMMA StreamKept == StreamInv /\ [Next]_vars => StreamInv'
BY TypesKept, OrderKept, EventsKept DEF StreamInv

LEMMA StreamStarts == Init => StreamInv
<1> SUFFICES ASSUME Init PROVE StreamInv
  OBVIOUS
<1>1. /\ server \in Places /\ server.epoch = 1 /\ server.position = 1
      /\ Nowhere \in AnyPlace /\ Nowhere.epoch = 0 /\ Nowhere.position = 0 /\ NoHydration.at = Nowhere
  BY StreamAssumption, PlacesAreNumbers DEF Init, Places, Nowhere, NoHydration
<1>2. call \in Calls /\ call.for = "open" /\ call.reply = "none"
  BY Constants DEF Init, NoCall
<1>3. stream \in Streams /\ stream.state = "none" /\ stream.events = <<>>
  BY Constants DEF Init, NoStream
<1>4. TypeOK
  <2>1. view \in [at : AnyPlace, whole : BOOLEAN] /\ flushing \in BOOLEAN
    BY <1>1 DEF Init
  <2>2. /\ sent \in 0..MaxPosition /\ faults \in 0..MaxFaults /\ opens \in 0..MaxOpens
        /\ received \in AnyPlace /\ pending \in AnyPlace /\ hydration \in Hydrations
        /\ hydration = NoHydration
    BY <1>1, Constants, StreamAssumption DEF Init
  <2> QED
    BY <1>1, <1>2, <1>3, <2>1, <2>2 DEF TypeOK
<1>5. OrderHolds /\ CallHolds
  BY <1>1, <1>2 DEF Init, OrderHolds, CallHolds, NoLater
<1>6. EventsHold
  BY <1>3 DEF EventsHold
<1> QED
  BY <1>4, <1>5, <1>6 DEF StreamInv

\* At all times what is shown is no later than what was accepted, that no later than what is
\* being completed or kept as a preview, and all of it no later than the server.
THEOREM StreamCorrect == Spec => []StreamInv
BY StreamStarts, StreamKept, PTL DEF Spec

\* A snapshot that is not older than what is shown, and later where it may be partial and the
\* model shown complete, does not take the view back.
LEMMA HydrateGoesOn ==
  ASSUME StreamInv, NEW place \in Places, NEW attempt \in 0..Attempts, NEW streamed \in BOOLEAN,
         Hydrate(place, attempt, streamed), NoLater(view.at, place),
         stream.state # "none" => Earlier(view.at, place)
  PROVE  /\ NoLater(view.at, view'.at)
         /\ view'.at = view.at /\ view.whole /\ stream.state # "none" => view'.whole
<1>1. TypeOK /\ place.epoch \in Nat /\ place.position \in Nat
  BY PlacesAreNumbers DEF StreamInv
<1>2. view' = view \/ view'.at = place
  BY <1>1, HydrateEffect DEF Partial
<1> QED
  BY <1>1, <1>2, Numbers DEF NoLater, Earlier

LEMMA ViewGoesOn ==
  ASSUME StreamInv, Next
  PROVE  /\ NoLater(view.at, view'.at)
         /\ view'.at = view.at /\ view.whole /\ stream.state # "none" => view'.whole
<1>i. TypeOK /\ OrderHolds /\ CallHolds
  BY DEF StreamInv
<1>0. CASE UNCHANGED view
  BY <1>i, <1>0, Numbers DEF NoLater
<1>1. CASE \/ Notify \/ Flush \/ FlushFails \/ Subscribe \/ SubscribeRefused \/ Serve \/ Unserved
           \/ Disconnect \/ Restart \/ Open \/ Suspend
  BY <1>0, <1>1 DEF Notify, Flush, FlushFails, Subscribe, SubscribeRefused, Serve, Unserved,
                    Disconnect, Restart, Open, Reopen, Suspend, clientVars
<1>2. CASE Opened
  <2>1. CASE call.reply = "ok"
    <3> DEFINE no == FALSE
    <3>1. Hydrate(call.at, 0, no)
      BY <1>2, <2>1 DEF Opened
    <3>2. 0 \in 0..Attempts /\ no \in BOOLEAN
      BY StreamAssumption
    <3> HIDE DEF no
    <3>3. call.at \in Places /\ NoLater(received, call.at) /\ stream.state = "none"
      BY <1>2, <1>i, <2>1 DEF Opened, CallHolds, TypeOK
    <3>4. NoLater(view.at, call.at)
      BY <1>i, <3>3, Numbers DEF OrderHolds, NoLater
    <3> QED
      BY <3>1, <3>2, <3>3, <3>4, HydrateGoesOn
  <2>2. CASE call.reply # "ok"
    BY <1>0, <1>2, <2>2 DEF Opened, clientVars
  <2> QED
    BY <2>1, <2>2
<1>3. CASE Receive
  <2>1. CASE Head(stream.events).type # "snapshot"
    <3>1. Reopen
      BY <1>3, <2>1 DEF Receive
    <3> QED
      BY <1>0, <3>1 DEF Reopen
  <2>2. CASE Head(stream.events).type = "snapshot"
    <3> DEFINE yes == TRUE  place == Head(stream.events).at
    <3>1. CASE Duplicate(place)
      BY <1>0, <1>3, <2>2, <3>1 DEF Receive, clientVars
    <3>2. CASE ~ Duplicate(place)
      <4>1. Hydrate(place, 0, yes)
        BY <1>3, <2>2, <3>2 DEF Receive
      <4>2. 0 \in 0..Attempts /\ yes \in BOOLEAN
        BY StreamAssumption
      <4>3. place \in Places /\ place.epoch = server.epoch /\ NoLater(place, server)
        BY <1>3, <2>2, HeadIsOfServer DEF Receive
      <4> HIDE DEF yes, place
      <4>4. place.epoch \in Nat /\ place.position \in Nat
        BY <4>3, PlacesAreNumbers
      <4>5. Earlier(received, place)
        BY <1>i, <3>2, <4>3, <4>4, Numbers DEF Duplicate, Earlier, OrderHolds, NoLater
      <4>6. Earlier(view.at, place) /\ NoLater(view.at, place)
        BY <1>i, <4>4, <4>5, Numbers DEF Earlier, NoLater, OrderHolds
      <4> QED
        BY <4>1, <4>2, <4>3, <4>6, HydrateGoesOn
    <3> QED
      BY <3>1, <3>2
  <2> QED
    BY <2>1, <2>2
<1>4. CASE Hydrated
  <2>0. hydration # NoHydration
    BY <1>4, <1>i DEF Hydrated, TypeOK
  <2>1. CASE GivenUp \/ UNCHANGED clientVars
    BY <1>0, <2>1 DEF GivenUp, clientVars
  <2>2. CASE Show([at |-> hydration.at, whole |-> TRUE])
    <3>1. view'.at = hydration.at /\ view'.whole
      BY <2>2 DEF Show
    <3> QED
      BY <1>i, <2>0, <3>1, Numbers DEF OrderHolds, NoLater
  <2>3. CASE /\ call.for = "snapshot" /\ call.reply = "ok"
             /\ Hydrate(call.at, hydration.attempt + 1, hydration.streamed)
    <3>1. call.at \in Places /\ hydration.attempt + 1 \in 0..Attempts /\ hydration.streamed \in BOOLEAN
      BY <2>0, <2>3, <1>i, StreamAssumption DEF CallHolds, OrderHolds, TypeOK, Hydrations
    <3>2. Earlier(hydration.at, call.at)
      BY <1>i, <2>3 DEF CallHolds
    <3>3. Earlier(view.at, call.at) /\ NoLater(view.at, call.at)
      BY <1>i, <2>0, <3>2, Numbers DEF OrderHolds, Earlier, NoLater
    <3> QED
      BY <2>3, <3>1, <3>3, HydrateGoesOn
  <2> QED
    BY <1>4, <2>1, <2>2, <2>3 DEF Hydrated
<1>5. CASE PreviewTimer
  <2>1. pending # Nowhere /\ view'.at = pending
    BY <1>5 DEF PreviewTimer, Show, Partial
  <2> QED
    BY <1>i, <2>1, Numbers DEF OrderHolds, Earlier, NoLater
<1> QED
  BY <1>1, <1>2, <1>3, <1>4, <1>5 DEF Next, Due

\* What the page shows never goes back, to an earlier server or place, nor, while a stream
\* lasts, from a complete model to a part of the same (model-client.js: accept, hydrate, the
\* preview timer and the pages, in any order).
THEOREM NeverGoesBack == Spec => NeverBack
<1>1. StreamInv /\ StreamInv' /\ [Next]_vars
      => [/\ view'.at.epoch >= view.at.epoch
          /\ view'.at.epoch = view.at.epoch => view'.at.position >= view.at.position
          /\ view'.at = view.at /\ view.whole /\ stream.state # "none" => view'.whole]_vars
  <2> SUFFICES ASSUME StreamInv, StreamInv', Next
               PROVE  /\ view'.at.epoch >= view.at.epoch
                      /\ view'.at.epoch = view.at.epoch => view'.at.position >= view.at.position
                      /\ view'.at = view.at /\ view.whole /\ stream.state # "none" => view'.whole
    OBVIOUS
  <2>1. view'.at \in AnyPlace
    BY DEF StreamInv, TypeOK
  <2>2. view'.at.epoch \in Nat /\ view'.at.position \in Nat
    BY <2>1, PlacesAreNumbers
  <2> QED
    BY <2>2, ViewGoesOn, Numbers DEF StreamInv, NoLater
<1> QED
  BY <1>1, StreamCorrect, PTL DEF Spec, NeverBack

(***************************************************************************)
(* The views: whatever is chosen, delivered, refused or withdrawn, and in   *)
(* whatever order, what is drawn, runs and is under way is of the view that *)
(* is chosen, and discovery is followed exactly while it may be.            *)
(***************************************************************************)

\* What is drawn, runs and is under way is of the view that is chosen.
Agreeing(u) ==
    /\ u.shown.view \in {"none", u.active} /\ u.instance.view \in {"none", u.active}
    /\ u.work.stage = "update" => u.active \in BuiltIn
    /\ u.work.stage \notin {"none", "update"} => u.active = "extension"

\* A view that is being drawn, or was without a message, has discovery followed.
Following(u) ==
    /\ u.discovery # "off" => Live(u.active)
    /\ Live(u.active) /\ (~ u.told \/ u.work.stage = "update") => u.discovery # "off"

\* Before the first model there is nothing to draw, and only then does a choice wait.
Waiting(u) ==
    /\ model = NoModel => u.shown.view = "none" /\ u.work.stage = "none"
    /\ u.pending # "none" => model = NoModel

ViewInv == ViewTypeOK /\ Agreeing(ui) /\ Following(ui) /\ Waiting(ui)

-----------------------------------------------------------------------------
(* The steps on ui. *)

LEMMA ViewConstants ==
    /\ Absent \in Rows /\ NoModel \in Models
    /\ NoInstance \in [view : Views \union {"none"}, row : Rows]
    /\ Nothing \in [view : Views \union {"none"}, of : Models, row : Rows]
    /\ NoWork \in [stage : {"none", "update", "catalogue", "listed", "data", "received", "frame"},
                   of : Models, row : Rows, reply : Rows]
    /\ NoWatch \in [stage : {"off", "resting", "asking", "answered"}, row : Rows, reply : Rows]
    /\ NoInstance.view = "none" /\ Nothing.view = "none" /\ NoWork.stage = "none"
BY DEF Absent, NoModel, NoInstance, Nothing, NoWork, NoWatch, Rows, Models, Views, BuiltIn, Grants,
       Selections, Projects

Works == [stage : {"none", "update", "catalogue", "listed", "data", "received", "frame"},
          of : Models, row : Rows, reply : Rows]
Watches == [stage : {"off", "resting", "asking", "answered"}, row : Rows, reply : Rows]
Instances == [view : Views \union {"none"}, row : Rows]

\* One part of what the views do is replaced, and the others are left.
LEMMA WorkPut ==
    ASSUME NEW u \in UIs, NEW w \in Works
    PROVE  LET v == [u EXCEPT !.work = w] IN
           /\ v \in UIs /\ v.work = w
           /\ v.active = u.active /\ v.pending = u.pending /\ v.instance = u.instance
           /\ v.shown = u.shown /\ v.told = u.told /\ v.discovery = u.discovery
BY DEF UIs, Works

LEMMA WatchPut ==
    ASSUME NEW u \in UIs, NEW w \in Watches
    PROVE  LET v == [u EXCEPT !.watch = w] IN
           /\ v \in UIs /\ v.work = u.work
           /\ v.active = u.active /\ v.pending = u.pending /\ v.instance = u.instance
           /\ v.shown = u.shown /\ v.told = u.told /\ v.discovery = u.discovery
BY DEF UIs, Watches

LEMMA InstancePut ==
    ASSUME NEW u \in UIs, NEW i \in Instances
    PROVE  LET v == [u EXCEPT !.instance = i] IN
           /\ v \in UIs /\ v.work = u.work
           /\ v.active = u.active /\ v.pending = u.pending /\ v.instance = i
           /\ v.shown = u.shown /\ v.told = u.told /\ v.discovery = u.discovery
BY DEF UIs, Instances

LEMMA FlagsPut ==
    ASSUME NEW u \in UIs, NEW b \in BOOLEAN
    PROVE  \A v \in {[u EXCEPT !.asked = b], [u EXCEPT !.listing = b], [u EXCEPT !.told = b]} :
           /\ v \in UIs /\ v.work = u.work
           /\ v.active = u.active /\ v.pending = u.pending /\ v.instance = u.instance
           /\ v.shown = u.shown /\ v.discovery = u.discovery
<1>1. LET v == [u EXCEPT !.asked = b] IN
      /\ v \in UIs /\ v.work = u.work
      /\ v.active = u.active /\ v.pending = u.pending /\ v.instance = u.instance
      /\ v.shown = u.shown /\ v.discovery = u.discovery
  BY DEF UIs
<1>2. LET v == [u EXCEPT !.listing = b] IN
      /\ v \in UIs /\ v.work = u.work
      /\ v.active = u.active /\ v.pending = u.pending /\ v.instance = u.instance
      /\ v.shown = u.shown /\ v.discovery = u.discovery
  BY DEF UIs
<1>3. LET v == [u EXCEPT !.told = b] IN
      /\ v \in UIs /\ v.work = u.work
      /\ v.active = u.active /\ v.pending = u.pending /\ v.instance = u.instance
      /\ v.shown = u.shown /\ v.discovery = u.discovery
  BY DEF UIs
<1>4. QED
  BY <1>1, <1>2, <1>3

LEMMA DiscoveryPut ==
    ASSUME NEW u \in UIs, NEW d \in {"off", "asking", "resting", "given up"}
    PROVE  LET v == [u EXCEPT !.discovery = d] IN
           /\ v \in UIs /\ v.work = u.work
           /\ v.active = u.active /\ v.pending = u.pending /\ v.instance = u.instance
           /\ v.shown = u.shown /\ v.told = u.told /\ v.discovery = d
BY DEF UIs

LEMMA DisposedKeeps ==
    ASSUME NEW u \in UIs
    PROVE  /\ Disposed(u) \in UIs
           /\ Disposed(u).active = u.active /\ Disposed(u).pending = u.pending
           /\ Disposed(u).shown = u.shown /\ Disposed(u).work = u.work /\ Disposed(u).told = u.told
           /\ Disposed(u).instance = NoInstance /\ Disposed(u).discovery = "off"
BY ViewConstants DEF Disposed, UIs

LEMMA AbortedKeeps ==
    ASSUME NEW u \in UIs
    PROVE  /\ Aborted(u) \in UIs /\ Overtaken(u) \in UIs
           /\ \A v \in {Aborted(u), Overtaken(u)} :
                /\ v.active = u.active /\ v.pending = u.pending
                /\ v.shown = u.shown /\ v.work = NoWork /\ v.told = u.told
                /\ v.instance = u.instance /\ v.discovery = u.discovery
BY ViewConstants DEF Aborted, Overtaken, UIs

LEMMA ClearedKeeps ==
    ASSUME NEW u \in UIs
    PROVE  /\ Cleared(u) \in UIs
           /\ Cleared(u).active = u.active /\ Cleared(u).pending = u.pending
           /\ Cleared(u).shown = Nothing /\ Cleared(u).work = u.work /\ Cleared(u).told = u.told
           /\ Cleared(u).instance = u.instance /\ Cleared(u).discovery = u.discovery
BY ViewConstants DEF Cleared, UIs

LEMMA ToldKeeps ==
    ASSUME NEW u \in UIs
    PROVE  /\ Told(u) \in UIs
           /\ Told(u).active = u.active /\ Told(u).pending = u.pending
           /\ Told(u).shown = u.shown /\ Told(u).work = u.work /\ Told(u).told
           /\ Told(u).instance = u.instance /\ Told(u).discovery = u.discovery
BY ViewConstants DEF Told, UIs

LEMMA SyncedKeeps ==
    ASSUME NEW u \in UIs
    PROVE  /\ Synced(u) \in UIs
           /\ Synced(u).active = u.active /\ Synced(u).pending = u.pending
           /\ Synced(u).shown = u.shown /\ Synced(u).work = u.work /\ Synced(u).told = u.told
           /\ Synced(u).instance = u.instance
           /\ Synced(u).discovery # "off" <=> LiveThen(u.active)
<1> DEFINE d == IF ~ LiveThen(u.active) THEN "off" ELSE IF u.discovery = "off" THEN "asking" ELSE u.discovery
<1>1. u.discovery \in {"off", "asking", "resting", "given up"}
  BY DEF UIs
<1>2. d \in {"off", "asking", "resting", "given up"} /\ (d # "off" <=> LiveThen(u.active))
  BY <1>1
<1>3. Synced(u) = [u EXCEPT !.discovery = d]
  BY DEF Synced
<1> HIDE DEF d
<1>4. QED
  BY <1>2, <1>3 DEF UIs

\* project(), for what it is given.
LEMMA ProjectedKeeps ==
    ASSUME NEW u \in UIs, Agreeing(u), model' \in Models, installed' \in Rows
    PROVE  /\ Projected(u) \in UIs /\ Agreeing(Projected(u))
           /\ Projected(u).active = u.active /\ Projected(u).pending = u.pending
           /\ model' = NoModel \/ closed' => Projected(u) = u
           /\ ~ (model' = NoModel \/ closed') => (Projected(u).discovery # "off" <=> LiveThen(u.active))
<1> DEFINE a == [Synced(Aborted(u)) EXCEPT !.asked = FALSE]
<1>1. /\ a \in UIs
      /\ a.active = u.active /\ a.pending = u.pending /\ a.shown = u.shown /\ a.work = NoWork
      /\ a.instance = u.instance
      /\ a.discovery # "off" <=> LiveThen(u.active)
  <2>1. Aborted(u) \in UIs
    BY AbortedKeeps
  <2>2. Synced(Aborted(u)) \in UIs
    BY <2>1, SyncedKeeps
  <2> DEFINE s == Synced(Aborted(u))
  <2>3. /\ s.active = u.active /\ s.pending = u.pending /\ s.shown = u.shown /\ s.work = NoWork
        /\ s.instance = u.instance /\ (s.discovery # "off" <=> LiveThen(u.active))
    BY <2>1, AbortedKeeps, SyncedKeeps
  <2> HIDE DEF s
  <2>4. a = [s EXCEPT !.asked = FALSE] /\ s \in UIs
    BY <2>2 DEF s
  <2> HIDE DEF a
  <2>5. QED
    BY <2>3, <2>4 DEF UIs
<1> HIDE DEF a
<1>2. CASE model' = NoModel \/ closed'
  BY <1>2 DEF Projected
<1>3. CASE ~ (model' = NoModel \/ closed') /\ u.active \in BuiltIn
  <2> DEFINE w == [NoWork EXCEPT !.stage = "update", !.of = model']
             i == IF a.instance = NoInstance THEN [NoInstance EXCEPT !.view = u.active] ELSE a.instance
  <2>1. Projected(u) = [a EXCEPT !.work = w, !.instance = i]
    BY <1>3 DEF Projected, a
  <2>2. /\ w \in [stage : {"none", "update", "catalogue", "listed", "data", "received", "frame"},
                  of : Models, row : Rows, reply : Rows]
        /\ w.stage = "update"
    BY ViewConstants
  <2>3. i \in [view : Views \union {"none"}, row : Rows] /\ i.view \in {"none", u.active}
    <3>1. /\ [NoInstance EXCEPT !.view = u.active] \in [view : Views \union {"none"}, row : Rows]
          /\ [NoInstance EXCEPT !.view = u.active].view = u.active
      BY ViewConstants DEF UIs
    <3>2. a.instance \in [view : Views \union {"none"}, row : Rows] /\ a.instance.view \in {"none", u.active}
      BY <1>1 DEF Agreeing, UIs
    <3>3. QED
      BY <3>1, <3>2
  <2> HIDE DEF w, i
  <2>4. /\ Projected(u) \in UIs
        /\ Projected(u).work = w /\ Projected(u).instance = i /\ Projected(u).active = u.active
        /\ Projected(u).pending = u.pending /\ Projected(u).shown = u.shown
        /\ Projected(u).discovery = a.discovery
    <3> DEFINE b == [a EXCEPT !.work = w]
    <3>1. /\ b \in UIs
          /\ b.work = w /\ b.active = u.active /\ b.pending = u.pending /\ b.shown = u.shown
          /\ b.discovery = a.discovery
      BY <1>1, <2>2 DEF UIs
    <3>2. Projected(u) = [b EXCEPT !.instance = i]
      BY <1>1, <2>1 DEF UIs
    <3> HIDE DEF b
    <3>3. Projected(u) \in UIs
      BY <3>1, <3>2, <2>3 DEF UIs
    <3>4. /\ Projected(u).work = b.work /\ Projected(u).instance = i /\ Projected(u).active = b.active
          /\ Projected(u).pending = b.pending /\ Projected(u).shown = b.shown
          /\ Projected(u).discovery = b.discovery
      BY <3>1, <3>2 DEF UIs
    <3>5. QED
      BY <3>1, <3>3, <3>4
  <2>5. u.shown.view \in {"none", u.active}
    BY DEF Agreeing
  <2>6. Agreeing(Projected(u))
    BY <1>3, <2>2, <2>3, <2>4, <2>5 DEF Agreeing
  <2>7. QED
    BY <1>1, <1>3, <2>4, <2>6
<1>4. CASE ~ (model' = NoModel \/ closed') /\ u.active \notin BuiltIn /\ installed'.version = 0
  <2>1. Projected(u) = Told(Cleared(Disposed(a)))
    BY <1>4 DEF Projected, a
  <2>2. Disposed(a) \in UIs /\ Cleared(Disposed(a)) \in UIs
    BY <1>1, DisposedKeeps, ClearedKeeps
  <2>3. ~ LiveThen(u.active)
    BY <1>4 DEF LiveThen
  <2>4. QED
    BY <1>1, <1>4, <2>1, <2>2, <2>3, DisposedKeeps, ClearedKeeps, ToldKeeps, ViewConstants DEF Agreeing
<1>5. CASE ~ (model' = NoModel \/ closed') /\ u.active \notin BuiltIn /\ installed'.version # 0
  <2> DEFINE w == [NoWork EXCEPT !.stage = "catalogue", !.row = installed']
             c == Cleared(a)
  <2>1. Projected(u) = [c EXCEPT !.work = w]
    BY <1>5 DEF Projected, a
  <2>2. /\ w \in [stage : {"none", "update", "catalogue", "listed", "data", "received", "frame"},
                  of : Models, row : Rows, reply : Rows]
        /\ w.stage = "catalogue"
    BY ViewConstants
  <2>3. u.active = "extension"
    BY <1>5 DEF UIs, Views
  <2>4. /\ c \in UIs /\ c.active = u.active /\ c.pending = u.pending /\ c.shown = Nothing
        /\ c.instance = u.instance /\ c.discovery = a.discovery
    BY <1>1, ClearedKeeps
  <2> HIDE DEF w, c
  <2>5. /\ Projected(u) \in UIs
        /\ Projected(u).work = w /\ Projected(u).instance = c.instance /\ Projected(u).active = u.active
        /\ Projected(u).pending = u.pending /\ Projected(u).shown = Nothing
        /\ Projected(u).discovery = a.discovery
    BY <2>1, <2>2, <2>4 DEF UIs
  <2>6. QED
    BY <1>1, <1>5, <2>2, <2>3, <2>4, <2>5, ViewConstants DEF Agreeing
<1> QED
  BY <1>2, <1>3, <1>4, <1>5

LEMMA ChosenKeeps ==
    ASSUME NEW u \in UIs, NEW chosen \in Views, model' \in Models, installed' \in Rows
    PROVE  /\ Chosen(chosen, u) \in UIs /\ Agreeing(Chosen(chosen, u))
           /\ Chosen(chosen, u).pending = u.pending /\ Chosen(chosen, u).active = chosen
           /\ model' = NoModel \/ closed' => Chosen(chosen, u).discovery = "off"
           /\ model' = NoModel \/ closed' => Chosen(chosen, u).shown.view = "none" /\ Chosen(chosen, u).work.stage = "none"
           /\ ~ (model' = NoModel \/ closed') => (Chosen(chosen, u).discovery # "off" <=> LiveThen(chosen))
<1> DEFINE d == Disposed(Overtaken(u))
           c == Cleared([d EXCEPT !.active = chosen])
<1>1. /\ d \in UIs /\ d.pending = u.pending /\ d.work = NoWork /\ d.instance = NoInstance /\ d.discovery = "off"
  BY AbortedKeeps, DisposedKeeps
<1>2. /\ [d EXCEPT !.active = chosen] \in UIs
      /\ \A f \in {"pending", "work", "instance", "discovery"} : [d EXCEPT !.active = chosen][f] = d[f]
      /\ [d EXCEPT !.active = chosen].active = chosen
  BY <1>1 DEF UIs
<1>3. /\ c \in UIs /\ c.active = chosen /\ c.pending = u.pending /\ c.work = NoWork /\ c.instance = NoInstance
      /\ c.discovery = "off" /\ c.shown = Nothing
  BY <1>1, <1>2, ClearedKeeps
<1>4. Agreeing(c)
  BY <1>3, ViewConstants DEF Agreeing
<1>5. Chosen(chosen, u) = Projected(c)
  BY DEF Chosen
<1> HIDE DEF c, d
<1>6. QED
  BY <1>3, <1>4, <1>5, ProjectedKeeps, ViewConstants

\* fallback(), which tells why.
LEMMA FallbackKeeps ==
    ASSUME NEW u \in UIs, model' \in Models, installed' \in Rows
    PROVE  /\ Fallback(u) \in UIs /\ Agreeing(Fallback(u)) /\ Fallback(u).told
           /\ Fallback(u).pending = u.pending /\ Fallback(u).active = "code"
           /\ model' = NoModel \/ closed' => Fallback(u).discovery = "off"
           /\ model' = NoModel \/ closed' => Fallback(u).shown.view = "none" /\ Fallback(u).work.stage = "none"
           /\ ~ (model' = NoModel \/ closed') => (Fallback(u).discovery # "off" <=> LiveThen("code"))
<1>1. "code" \in Views
  BY DEF Views, BuiltIn
<1>2. QED
  BY <1>1, ChosenKeeps, ToldKeeps DEF Fallback, Agreeing

-----------------------------------------------------------------------------
(* When discovery is followed after a step. *)

\* A view of which nothing is followed may not be, or has told why not.
LEMMA OffFollows ==
    ASSUME ui'.discovery = "off", ~ Live(ui.active)' \/ (ui'.told /\ ui'.work.stage # "update")
    PROVE  Following(ui)'
BY DEF Following, Live

\* What syncs follows what may be followed.
LEMMA LiveFollows ==
    ASSUME ui'.discovery # "off" <=> LiveThen(ui'.active)
    PROVE  Following(ui)'
BY DEF Following, Live, LiveThen

\* Nothing that decides about it changes.
LEMMA FollowingKept ==
    ASSUME Following(ui), UNCHANGED <<model, fresh, selection, suspended, closed, hidden>>,
           ui'.active = ui.active, ui'.discovery = ui.discovery,
           ~ ui'.told \/ ui'.work.stage = "update" => ~ ui.told \/ ui.work.stage = "update"
    PROVE  Following(ui)'
BY DEF Following, Live

-----------------------------------------------------------------------------
(* The variables besides ui. *)

OtherTypes ==
    /\ {served, installed} \subseteq Rows
    /\ model \in Models /\ opened \in Selections \union {"nothing"} /\ selection \in Selections
    /\ granting \in [stage : {"none", "asking", "granted", "refused", "listing"}, row : Rows, grant : Grants]
    /\ announced \in Projects
    /\ {fresh, loading, suspended, closed, hidden} \subseteq BOOLEAN

LEMMA RowFields ==
    ASSUME NEW row \in Rows
    PROVE  /\ row.project \in Projects /\ row.version \in 0..2 /\ row.grant \in Grants
           /\ [row EXCEPT !.version = 2, !.grant = "none"] \in Rows
           /\ [row EXCEPT !.version = 0, !.grant = "none"] \in Rows
           /\ \A g \in Grants : [row EXCEPT !.grant = g] \in Rows
<1>1. row.project \in Projects /\ row.version \in 0..2 /\ row.grant \in Grants
  BY DEF Rows
<1>2. \A r \in Rows, g \in Grants : [r EXCEPT !.grant = g] \in Rows
  BY DEF Rows
<1>3. \A v \in 0..2 : [row EXCEPT !.version = v] \in Rows
  BY DEF Rows
<1>4. 0 \in 0..2 /\ 2 \in 0..2 /\ "none" \in Grants
  BY DEF Grants
<1>5. [[row EXCEPT !.version = 2] EXCEPT !.grant = "none"] \in Rows
  BY <1>2, <1>3, <1>4
<1>6. [[row EXCEPT !.version = 0] EXCEPT !.grant = "none"] \in Rows
  BY <1>2, <1>3, <1>4
<1>7. QED
  BY <1>1, <1>2, <1>5, <1>6

LEMMA OtherTypesKept == ViewTypeOK /\ [ViewNext]_viewVars => OtherTypes'
<1> SUFFICES ASSUME ViewTypeOK, [ViewNext]_viewVars PROVE OtherTypes'
  OBVIOUS
<1> USE DEF OtherTypes
<1>1. /\ OtherTypes /\ ui \in UIs
      /\ ui.work.reply \in Rows /\ ui.watch.reply \in Rows
  BY DEF ViewTypeOK, UIs
<1>2. CASE Update \/ UpdateFails \/ Catalogue \/ CatalogueFails \/ Data \/ DataFails \/ ReceiveData \/ FrameAnswers
           \/ FrameFails \/ WatchTimer \/ WatchServed \/ WatchFails
  BY <1>1, <1>2 DEF Update, UpdateFails, Catalogue, CatalogueFails, Data, DataFails, ReceiveData, FrameAnswers,
       FrameFails, WatchTimer, WatchServed, WatchFails, Still, modelVars, lifeVars
<1>3. CASE Review \/ WatchCompares
  BY <1>1, <1>3 DEF Review, WatchCompares, Compare, Still, modelVars, lifeVars
<1>4. CASE DiscoveryReply \/ DiscoveryTimer \/ Discover \/ Refresh \/ (\E chosen \in Views : Choose(chosen))
  BY <1>1, <1>4 DEF DiscoveryReply, DiscoveryTimer, Discover, Refresh, Choose, Still, Unmoved, modelVars, lifeVars
<1>5. CASE Deliver
  <2>1. opened \in Selections /\ served.project \in Projects
    BY <1>1, <1>5, RowFields DEF Deliver
  <2>2. [project |-> served.project, selection |-> opened] \in Models
    BY <2>1 DEF Models, Projects
  <2>3. "live" \in Selections
    BY DEF Selections
  <2>4. model' \in Models /\ selection' \in Selections /\ fresh' \in BOOLEAN /\ loading' \in BOOLEAN
    BY <1>1, <1>5, <2>2, <2>3 DEF Deliver
  <2>5. QED
    BY <1>1, <1>5, <2>4 DEF Deliver, lifeVars
<1>6. CASE OpenFails \/ SuspendViews \/ Close \/ Hide
  BY <1>1, <1>6 DEF OpenFails, SuspendViews, Close, Hide, modelVars, lifeVars
<1>7. CASE \E select \in Selections : Select(select) \/ Position(select)
  BY <1>1, <1>7 DEF Select, Position, Load, lifeVars
<1>8. CASE Retry \/ ServerSession \/ Start
  <2>1. "live" \in Selections /\ served.project \in Projects
    BY <1>1, RowFields DEF Selections
  <2>2. QED
    BY <1>1, <1>8, <2>1 DEF Retry, ServerSession, Start, Load, lifeVars
<1>9. CASE \E grant \in Grants : Grant(grant)
  BY <1>1, <1>9 DEF Grant, modelVars, lifeVars
<1>10. CASE GrantServed
  <2>1. granting.grant \in Grants /\ served \in Rows
    BY <1>1
  <2>2. [served EXCEPT !.grant = granting.grant] \in Rows
    BY <2>1, RowFields
  <2>3. served' \in Rows
    BY <1>10, <2>1, <2>2 DEF GrantServed
  <2>4. \A s \in {"granted", "refused"} : [granting EXCEPT !.stage = s]
           \in [stage : {"none", "asking", "granted", "refused", "listing"}, row : Rows, grant : Grants]
    BY <1>1
  <2>5. granting' \in [stage : {"none", "asking", "granted", "refused", "listing"}, row : Rows, grant : Grants]
    BY <1>10, <2>4 DEF GrantServed
  <2>6. QED
    BY <1>1, <1>10, <2>3, <2>5 DEF GrantServed, modelVars, lifeVars
<1>11. CASE Granted \/ Listed
  <2>1. NoGranting \in [stage : {"none", "asking", "granted", "refused", "listing"}, row : Rows, grant : Grants]
    BY ViewConstants DEF NoGranting, Grants
  <2>2. installed' \in Rows
    BY <1>1, <1>11 DEF Granted, Listed
  <2>3. QED
    BY <1>1, <1>11, <2>1, <2>2 DEF Granted, Listed, Still, modelVars, lifeVars
<1>12. CASE ServerChanges
  <2>1. [project |-> 2, version |-> 1, grant |-> "none"] \in Rows
    BY DEF Rows, Projects, Grants
  <2>2. served \in Rows
    BY <1>1
  <2>3. /\ [served EXCEPT !.version = 2, !.grant = "none"] \in Rows
        /\ [served EXCEPT !.version = 0, !.grant = "none"] \in Rows
        /\ \A g \in Grants : [served EXCEPT !.grant = g] \in Rows
    BY <2>2, RowFields
  <2>4. served' \in Rows
    <3>1. CASE served' \in {[served EXCEPT !.version = 2, !.grant = "none"], [served EXCEPT !.version = 0, !.grant = "none"]}
      BY <2>3, <3>1
    <3>2. CASE \E g \in Grants : served' = [served EXCEPT !.grant = g]
      BY <2>3, <3>2
    <3>3. QED
      BY <1>12, <2>1, <3>1, <3>2 DEF ServerChanges
  <2>5. QED
    BY <1>1, <1>12, <2>4 DEF ServerChanges, modelVars, lifeVars
<1>13. CASE UNCHANGED viewVars
  BY <1>1, <1>13 DEF viewVars, modelVars, lifeVars
<1> QED
  BY <1>2, <1>3, <1>4, <1>5, <1>6, <1>7, <1>8, <1>9, <1>10, <1>11, <1>12, <1>13
     DEF ViewNext, Projecting, Watching, Granting

-----------------------------------------------------------------------------
(* The steps on ui, one by one. *)

Good == ui \in UIs /\ Agreeing(ui) /\ Following(ui) /\ Waiting(ui)

\* Before the first model there is nothing under way, and after it nothing waits.
LEMMA AtWork ==
    ASSUME Waiting(ui), ui.work.stage # "none" \/ ui.shown.view # "none"
    PROVE  model # NoModel /\ ui.pending = "none"
BY DEF Waiting

\* An extension is under way or runs.
LEMMA NotLive ==
    ASSUME ui'.active = "extension"
    PROVE  ~ Live(ui.active)'
BY DEF Live, BuiltIn

LEMMA UpdateGood ==
    ASSUME Good, Update \/ UpdateFails
    PROVE  Good'
<1> USE DEF Good
<1>1. ui.work.stage = "update" \/ UpdateFails
  BY DEF Update
<1>2. /\ ui.work.stage = "update" /\ model # NoModel /\ ui.pending = "none"
      /\ UNCHANGED <<model, fresh, selection, suspended, closed, hidden>>
  BY AtWork DEF Update, UpdateFails, Still, modelVars, lifeVars
<1>3. CASE Update
  <2> DEFINE s == [Nothing EXCEPT !.view = ui.active, !.of = ui.work.of]
  <2>1. s \in [view : Views \union {"none"}, of : Models, row : Rows] /\ s.view = ui.active
    BY ViewConstants DEF UIs, Nothing
  <2> HIDE DEF s
  <2> DEFINE a == [ui EXCEPT !.shown = s]
             b == [a EXCEPT !.told = FALSE]
  <2>2. /\ a \in UIs /\ a.shown = s /\ a.active = ui.active /\ a.pending = ui.pending
        /\ a.instance = ui.instance /\ a.discovery = ui.discovery
    BY <2>1 DEF UIs
  <2> HIDE DEF a
  <2>3. /\ b \in UIs /\ b.shown = s /\ b.active = ui.active /\ b.pending = ui.pending
        /\ b.instance = ui.instance /\ b.discovery = ui.discovery
    BY <2>2, FlagsPut
  <2> HIDE DEF b
  <2>4. ui' = [b EXCEPT !.work = NoWork]
    BY <1>3 DEF Update, a, b, s
  <2>5. /\ ui' \in UIs /\ ui'.shown = s /\ ui'.active = ui.active /\ ui'.pending = ui.pending
        /\ ui'.instance = ui.instance /\ ui'.discovery = ui.discovery /\ ui'.work = NoWork
    BY <2>3, <2>4, WorkPut, ViewConstants DEF Works
  <2>6. Agreeing(ui)'
    BY <2>1, <2>5, ViewConstants DEF Agreeing
  <2>7. Following(ui)'
    BY <1>2, <2>5, FollowingKept
  <2>8. Waiting(ui)'
    BY <1>2, <2>5 DEF Waiting
  <2>9. QED
    BY <2>5, <2>6, <2>7, <2>8
<1>4. CASE UpdateFails
  <2>1. PICK u \in {ui, Cleared(Disposed(ui))} : ui' = Told(Aborted(u))
    BY <1>4 DEF UpdateFails
  <2>2. /\ u \in UIs /\ u.active = ui.active /\ u.pending = ui.pending
        /\ u.shown.view \in {"none", ui.shown.view} /\ u.instance.view \in {"none", ui.instance.view}
        /\ u.discovery \in {"off", ui.discovery}
    BY <2>1, DisposedKeeps, ClearedKeeps, ViewConstants
  <2>3. /\ ui' \in UIs /\ ui'.active = ui.active /\ ui'.pending = ui.pending /\ ui'.work = NoWork
        /\ ui'.shown.view \in {"none", ui.shown.view} /\ ui'.instance.view \in {"none", ui.instance.view}
        /\ ui'.discovery \in {"off", ui.discovery} /\ ui'.told
    BY <2>1, <2>2, AbortedKeeps, ToldKeeps
  <2>4. Agreeing(ui)'
    BY <2>3, ViewConstants DEF Agreeing
  <2>5. Following(ui)'
    BY <1>2, <2>3, ViewConstants DEF Following, Live
  <2>6. Waiting(ui)'
    BY <1>2, <2>3 DEF Waiting
  <2>7. QED
    BY <2>3, <2>4, <2>5, <2>6
<1>5. QED
  BY <1>3, <1>4

\* A step of the extension that leaves the choice, or stops what it draws or runs.
LEMMA ExtensionKept ==
    ASSUME Good, ui.active = "extension", UNCHANGED <<model, fresh, selection, suspended, closed, hidden>>,
           ui' \in UIs, ui'.active = ui.active, ui'.pending = ui.pending,
           ui'.shown.view \in {"none", "extension"}, ui'.instance.view \in {"none", "extension"},
           ui'.discovery \in {"off", ui.discovery}, ui'.work.stage # "update",
           model = NoModel => ui'.shown.view = "none" /\ ui'.work.stage = "none"
    PROVE  Good'
<1>1. ui.discovery = "off"
  BY DEF Good, Following, Live, BuiltIn
<1>2. Agreeing(ui)'
  BY DEF Agreeing
<1>3. Following(ui)'
  BY <1>1, NotLive, OffFollows
<1>4. Waiting(ui)'
  BY DEF Good, Waiting
<1>5. QED
  BY <1>2, <1>3, <1>4 DEF Good

\* A step that replaces nothing but the watch, a flag or what waits.
LEMMA LookKept ==
    ASSUME Good, UNCHANGED <<model, fresh, selection, suspended, closed, hidden>>,
           ui' \in UIs, ui'.active = ui.active, ui'.pending = ui.pending,
           ui'.shown = ui.shown, ui'.instance = ui.instance, ui'.work = ui.work,
           ui'.discovery = ui.discovery, ui'.told = ui.told
    PROVE  Good'
BY FollowingKept DEF Good, Agreeing, Waiting

\* The code view takes the place of an extension that has failed.
LEMMA FallbackGood ==
    ASSUME Good, model # NoModel, UNCHANGED <<model, fresh, selection, suspended, closed, hidden>>, model \in Models,
           installed' \in Rows, NEW u \in UIs, u.pending = ui.pending, ui' = Fallback(u)
    PROVE  Good'
<1>1. /\ ui' \in UIs /\ Agreeing(ui') /\ ui'.pending = ui.pending /\ ui'.active = "code"
      /\ ui'.discovery # "off" <=> LiveThen("code")
  BY FallbackKeeps DEF LiveThen
<1>2. Following(ui)'
  BY <1>1, LiveFollows
<1>3. Waiting(ui)' /\ Agreeing(ui)'
  BY <1>1 DEF Good, Waiting, Agreeing
<1>4. QED
  BY <1>1, <1>2, <1>3 DEF Good

LEMMA ExtensionGood ==
    ASSUME ViewTypeOK, Good, installed' \in Rows,
           Catalogue \/ CatalogueFails \/ Review \/ Data \/ DataFails \/ ReceiveData \/ FrameAnswers
    PROVE  Good'
<1>1. /\ ui.work.stage \in {"catalogue", "listed", "data", "received", "frame"}
      /\ UNCHANGED <<model, fresh, selection, suspended, closed, hidden>>
  BY DEF Catalogue, CatalogueFails, Review, Data, DataFails, ReceiveData, FrameAnswers, Still, modelVars, lifeVars
<1>2. /\ ui.active = "extension" /\ model # NoModel /\ ui \in UIs /\ ui.work \in Works
      /\ ui.shown.view \in {"none", "extension"} /\ ui.instance.view \in {"none", "extension"}
  BY <1>1, AtWork DEF Good, Agreeing, UIs, Works
<1>3. CASE Catalogue \/ CatalogueFails
  <2>1. PICK row \in Rows : ui' = [ui EXCEPT !.work.stage = "listed", !.work.reply = row]
    BY <1>3 DEF Catalogue, CatalogueFails, ViewTypeOK
  <2> DEFINE w == [ui.work EXCEPT !.stage = "listed", !.reply = row]
  <2>2. w \in Works /\ w.stage = "listed"
    BY <1>2 DEF Works
  <2>3. ui' = [ui EXCEPT !.work = w]
    BY <1>2, <2>1 DEF UIs
  <2> HIDE DEF w
  <2>4. QED
    BY <1>1, <1>2, <2>2, <2>3, WorkPut, ExtensionKept
<1>4. CASE FrameAnswers
  <2> DEFINE s == [view |-> ui.active, of |-> ui.work.of, row |-> ui.work.reply]
             a == [ui EXCEPT !.shown = s]
             b == [a EXCEPT !.told = FALSE]
  <2>1. s \in [view : Views \union {"none"}, of : Models, row : Rows] /\ s.view = "extension"
    BY <1>2 DEF UIs
  <2> HIDE DEF s
  <2>2. /\ a \in UIs /\ a.shown = s /\ a.active = ui.active /\ a.pending = ui.pending
        /\ a.instance = ui.instance /\ a.discovery = ui.discovery
    BY <1>2, <2>1 DEF UIs
  <2> HIDE DEF a
  <2>3. /\ b \in UIs /\ b.shown = s /\ b.active = ui.active /\ b.pending = ui.pending
        /\ b.instance = ui.instance /\ b.discovery = ui.discovery
    BY <2>2, FlagsPut
  <2> HIDE DEF b
  <2>4. ui' = [b EXCEPT !.work = NoWork]
    BY <1>4 DEF FrameAnswers, a, b, s
  <2>5. /\ ui' \in UIs /\ ui'.shown = s /\ ui'.active = ui.active /\ ui'.pending = ui.pending
        /\ ui'.instance = ui.instance /\ ui'.discovery = ui.discovery /\ ui'.work = NoWork
    BY <2>3, <2>4, WorkPut, ViewConstants DEF Works
  <2>6. QED
    BY <1>1, <1>2, <2>1, <2>5, ViewConstants, ExtensionKept
<1>5. CASE Review
  <2> DEFINE u == IF installed' = ui.work.row THEN ui ELSE Disposed(ui)
             v == Disposed(Aborted(u))
             w == [u.work EXCEPT !.stage = "data", !.row = installed']
  <2>1. /\ u \in UIs /\ u.active = ui.active /\ u.pending = ui.pending /\ u.shown = ui.shown
        /\ u.work = ui.work /\ u.instance.view \in {"none", "extension"} /\ u.discovery \in {"off", ui.discovery}
    BY <1>2, DisposedKeeps, ViewConstants
  <2>2. CASE ui' = Told(Disposed(Aborted(ui)))
    <3>1. /\ ui' \in UIs /\ ui'.active = ui.active /\ ui'.pending = ui.pending /\ ui'.shown = ui.shown
          /\ ui'.work = NoWork /\ ui'.instance = NoInstance /\ ui'.discovery = "off"
      BY <1>2, <2>2, AbortedKeeps, DisposedKeeps, ToldKeeps
    <3>2. QED
      BY <1>1, <1>2, <3>1, ViewConstants, ExtensionKept
  <2>3. CASE ui' = [v EXCEPT !.told = FALSE, !.asked = TRUE]
    <3> HIDE DEF u
    <3>1. /\ v \in UIs /\ v.active = ui.active /\ v.pending = ui.pending /\ v.shown = ui.shown
          /\ v.work = NoWork /\ v.instance = NoInstance /\ v.discovery = "off"
      BY <2>1, AbortedKeeps, DisposedKeeps
    <3> HIDE DEF v
    <3> DEFINE x == [v EXCEPT !.told = FALSE]
    <3>2. /\ x \in UIs /\ x.active = ui.active /\ x.pending = ui.pending /\ x.shown = ui.shown
          /\ x.work = NoWork /\ x.instance = NoInstance /\ x.discovery = "off"
      BY <3>1, FlagsPut
    <3>3. ui' = [x EXCEPT !.asked = TRUE]
      BY <2>3
    <3> HIDE DEF x
    <3>4. /\ ui' \in UIs /\ ui'.active = ui.active /\ ui'.pending = ui.pending /\ ui'.shown = ui.shown
          /\ ui'.work = NoWork /\ ui'.instance = NoInstance /\ ui'.discovery = "off"
      BY <3>2, <3>3, FlagsPut
    <3>5. QED
      BY <1>1, <1>2, <3>4, ViewConstants, ExtensionKept
  <2>4. CASE ui' = [u EXCEPT !.work.stage = "data", !.work.row = installed']
    <3> HIDE DEF u
    <3>1. w \in Works /\ w.stage = "data"
      BY <1>2, <2>1 DEF Works
    <3>2. ui' = [u EXCEPT !.work = w]
      BY <2>1, <2>4 DEF UIs
    <3> HIDE DEF w
    <3>3. QED
      BY <1>1, <1>2, <2>1, <3>1, <3>2, WorkPut, ExtensionKept
  <2>5. QED
    BY <1>5, <2>2, <2>3, <2>4 DEF Review
<1>6. CASE Data
  <2>1. CASE ui' = Told(Cleared(Disposed(Aborted(ui))))
    <3>1. /\ ui' \in UIs /\ ui'.active = ui.active /\ ui'.pending = ui.pending /\ ui'.shown = Nothing
          /\ ui'.work = NoWork /\ ui'.instance = NoInstance /\ ui'.discovery = "off"
      BY <1>2, <2>1, AbortedKeeps, DisposedKeeps, ClearedKeeps, ToldKeeps
    <3>2. QED
      BY <1>1, <1>2, <3>1, ViewConstants, ExtensionKept
  <2>2. CASE ui' = [ui EXCEPT !.work.stage = "received", !.work.reply = served,
                              !.work.of = [project |-> served.project, selection |-> selection]]
    <3> DEFINE m == [project |-> served.project, selection |-> selection]
               w == [ui.work EXCEPT !.stage = "received", !.reply = served, !.of = m]
    <3>1. m \in Models
      <4>1. served \in Rows /\ selection \in Selections
        BY DEF ViewTypeOK
      <4>2. served.project \in 0..2
        <5>1. served.project \in Projects
          BY <4>1, RowFields
        <5>2. QED
          BY <5>1 DEF Projects
      <4>3. QED
        BY <4>1, <4>2 DEF Models
    <3> HIDE DEF m
    <3>2. w \in Works /\ w.stage = "received"
      <4>1. [ui.work EXCEPT !.stage = "received"] \in Works
        BY <1>2 DEF Works
      <4>2. [[ui.work EXCEPT !.stage = "received"] EXCEPT !.reply = served] \in Works
        BY <4>1 DEF Works, ViewTypeOK
      <4>3. QED
        BY <1>2, <3>1, <4>2 DEF Works
    <3>3. ui' = [ui EXCEPT !.work = w]
      BY <1>2, <2>2 DEF UIs, m
    <3> HIDE DEF w
    <3>4. QED
      BY <1>1, <1>2, <3>2, <3>3, WorkPut, ExtensionKept
  <2>3. QED
    BY <1>6, <2>1, <2>2 DEF Data
<1>7. CASE DataFails
  BY <1>1, <1>2, <1>7, FallbackGood DEF DataFails, ViewTypeOK
<1>8. CASE ReceiveData
  <2> DEFINE frame == IF ui.instance = NoInstance THEN [view |-> "extension", row |-> ui.work.row] ELSE ui.instance
             a == [ui EXCEPT !.instance = frame]
             b == [NoWatch EXCEPT !.stage = "resting", !.row = a.work.row]
             u == Watched(a)
             w == [u.work EXCEPT !.stage = "frame"]
  <2>1. frame \in Instances /\ frame.view \in {"none", "extension"}
    BY <1>2 DEF Instances, UIs, Views
  <2> HIDE DEF frame
  <2>2. /\ a \in UIs /\ a.work = ui.work /\ a.active = ui.active /\ a.pending = ui.pending
        /\ a.instance = frame /\ a.shown = ui.shown /\ a.discovery = ui.discovery
    BY <1>2, <2>1, InstancePut
  <2> HIDE DEF a
  <2>3. b \in Watches
    BY <1>2, <2>2, ViewConstants DEF Watches, Works, NoWatch
  <2>4. u = a \/ u = [a EXCEPT !.watch = b]
    BY DEF Watched
  <2> HIDE DEF b, u
  <2>5. /\ u \in UIs /\ u.work = ui.work /\ u.active = ui.active /\ u.pending = ui.pending
        /\ u.instance = frame /\ u.shown = ui.shown /\ u.discovery = ui.discovery
    <3>1. CASE u = a
      BY <2>2, <3>1
    <3>2. CASE u = [a EXCEPT !.watch = b]
      BY <2>2, <2>3, <3>2, WatchPut
    <3>3. QED
      BY <2>4, <3>1, <3>2
  <2>6. ui' = [u EXCEPT !.work.stage = "frame"] \/ ui' = Fallback(u)
    BY <1>8 DEF ReceiveData, u, a, frame
  <2>7. CASE ui' = [u EXCEPT !.work.stage = "frame"]
    <3>1. w \in Works /\ w.stage = "frame"
      BY <1>2, <2>5 DEF Works
    <3>2. ui' = [u EXCEPT !.work = w]
      BY <2>5, <2>7
    <3> HIDE DEF w
    <3>3. QED
      BY <1>1, <1>2, <2>1, <2>5, <3>1, <3>2, WorkPut, ExtensionKept
  <2>8. CASE ui' = Fallback(u)
    BY <1>1, <1>2, <2>5, <2>8, FallbackGood DEF ViewTypeOK
  <2>9. QED
    BY <2>6, <2>7, <2>8
<1>9. QED
  BY <1>3, <1>4, <1>5, <1>6, <1>7, <1>8

LEMMA FrameFailsGood ==
    ASSUME ViewTypeOK, Good, FrameFails
    PROVE  Good'
<1>1. /\ ui.active = "extension" /\ ui \in UIs
      /\ UNCHANGED <<model, fresh, selection, suspended, closed, hidden>> /\ installed' = installed
  BY DEF FrameFails, Good, Agreeing, Still, modelVars, lifeVars
<1>2. CASE ui.work.stage = "frame"
  BY <1>1, <1>2, AtWork, FallbackGood DEF FrameFails, Good, ViewTypeOK
<1>3. CASE ui.work.stage # "frame"
  <2>1. /\ ui' \in UIs /\ ui'.active = ui.active /\ ui'.pending = ui.pending /\ ui'.shown = Nothing
        /\ ui'.work = ui.work /\ ui'.instance = NoInstance /\ ui'.discovery = "off"
    BY <1>1, <1>3, DisposedKeeps, ClearedKeeps, ToldKeeps DEF FrameFails
  <2>2. ui.work.stage # "update" /\ (model = NoModel => ui.work.stage = "none")
    BY <1>1 DEF Good, Agreeing, Waiting, BuiltIn
  <2>3. QED
    BY <1>1, <2>1, <2>2, ViewConstants, ExtensionKept
<1>4. QED
  BY <1>2, <1>3

LEMMA WatchGood ==
    ASSUME ViewTypeOK, Good, Watching \/ WatchFails
    PROVE  Good'
<1>1. /\ ui \in UIs /\ ui.watch \in Watches /\ served \in Rows
      /\ UNCHANGED <<model, fresh, selection, suspended, closed, hidden>>
  BY DEF Watching, WatchTimer, WatchServed, WatchCompares, WatchFails, Good, UIs, Watches, ViewTypeOK,
         Still, modelVars, lifeVars
<1>2. ASSUME NEW w \in Watches, ui' = [ui EXCEPT !.watch = w]
      PROVE  Good'
  BY <1>1, <1>2, WatchPut, LookKept
<1>3. ASSUME NEW b \in BOOLEAN, ui' = Withdrawn(ui) \/ ui' = [Withdrawn(ui) EXCEPT !.asked = b]
      PROVE  Good'
  <2> DEFINE u == Withdrawn(ui)
  <2>1. /\ u \in UIs /\ u.active = ui.active /\ u.pending = ui.pending /\ u.shown = Nothing
        /\ u.work = NoWork /\ u.instance = NoInstance /\ u.discovery = "off" /\ u.told
    BY <1>1, AbortedKeeps, DisposedKeeps, ClearedKeeps, ToldKeeps DEF Withdrawn
  <2> HIDE DEF u
  <2>2. ui' = u \/ ui' = [u EXCEPT !.asked = b]
    BY <1>3 DEF u
  <2>3. /\ ui' \in UIs /\ ui'.active = ui.active /\ ui'.pending = ui.pending /\ ui'.shown = Nothing
        /\ ui'.work = NoWork /\ ui'.instance = NoInstance /\ ui'.discovery = "off"
    <3>1. CASE ui' = u
      BY <2>1, <3>1
    <3>2. CASE ui' = [u EXCEPT !.asked = b]
      BY <2>1, <3>2, FlagsPut
    <3>3. QED
      BY <2>2, <3>1, <3>2
  <2>4. ui'.told
    BY <2>1, <2>2 DEF UIs
  <2>5. Following(ui)'
    BY <2>3, <2>4, ViewConstants, OffFollows
  <2>6. Agreeing(ui)' /\ Waiting(ui)'
    BY <1>1, <2>3, ViewConstants DEF Good, Agreeing, Waiting
  <2>7. QED
    BY <2>3, <2>5, <2>6 DEF Good
<1>4. CASE WatchTimer
  <2>1. /\ [ui.watch EXCEPT !.stage = "asking"] \in Watches
        /\ ui' = [ui EXCEPT !.watch = [ui.watch EXCEPT !.stage = "asking"]]
    BY <1>1, <1>4 DEF WatchTimer, Watches
  <2>2. QED
    BY <1>2, <2>1
<1>5. CASE WatchServed
  <2> DEFINE a == [ui.watch EXCEPT !.stage = "answered"]
             w == [a EXCEPT !.reply = served]
  <2>1. a \in Watches
    BY <1>1 DEF Watches
  <2>2. w \in Watches
    BY <1>1, <2>1 DEF Watches
  <2>3. ui' = [ui EXCEPT !.watch = w]
    BY <1>1, <1>5 DEF WatchServed, UIs
  <2>4. QED
    BY <1>2, <2>2, <2>3
<1>6. CASE WatchCompares
  <2> DEFINE a == [ui.watch EXCEPT !.stage = "resting"]
             w == [a EXCEPT !.reply = Absent]
  <2>1. a \in Watches
    BY <1>1 DEF Watches
  <2>2. w \in Watches
    BY <2>1, ViewConstants DEF Watches
  <2>3. [ui EXCEPT !.watch.stage = "resting", !.watch.reply = Absent] = [ui EXCEPT !.watch = w]
    BY <1>1 DEF UIs
  <2>4. \/ ui' = [ui EXCEPT !.watch.stage = "resting", !.watch.reply = Absent]
        \/ ui' = [Withdrawn(ui) EXCEPT !.asked = ui.watch.reply.version # 0]
    BY <1>6 DEF WatchCompares, Compare
  <2>5. (ui.watch.reply.version # 0) \in BOOLEAN
    OBVIOUS
  <2>6. QED
    BY <1>2, <1>3, <2>2, <2>3, <2>4, <2>5
<1>7. CASE WatchFails
  BY <1>3, <1>7 DEF WatchFails
<1>8. QED
  BY <1>4, <1>5, <1>6, <1>7 DEF Watching

LEMMA DiscoveryGood ==
    ASSUME Good, DiscoveryReply \/ DiscoveryTimer \/ Discover
    PROVE  Good'
<1>1. /\ ui.discovery # "off" /\ ui \in UIs
      /\ UNCHANGED <<model, fresh, selection, suspended, closed, hidden>>
  BY DEF DiscoveryReply, DiscoveryTimer, Discover, Good, Still, modelVars, lifeVars
<1>2. Live(ui.active)
  BY <1>1 DEF Good, Following
<1>3. PICK d \in {"asking", "resting", "given up"} : ui' = [ui EXCEPT !.discovery = d]
  BY <1>2 DEF DiscoveryReply, DiscoveryTimer, Discover
<1>4. /\ ui' \in UIs /\ ui'.active = ui.active /\ ui'.pending = ui.pending /\ ui'.shown = ui.shown
      /\ ui'.work = ui.work /\ ui'.instance = ui.instance /\ ui'.discovery = d
  <2>1. d \in {"off", "asking", "resting", "given up"}
    OBVIOUS
  <2>2. QED
    BY <1>1, <1>3, <2>1, DiscoveryPut
<1>5. Following(ui)'
  BY <1>1, <1>2, <1>4 DEF Following, Live
<1>6. Agreeing(ui)' /\ Waiting(ui)'
  BY <1>1, <1>4 DEF Good, Agreeing, Waiting
<1>7. QED
  BY <1>4, <1>5, <1>6 DEF Good

\* A step that syncs after it has, at most, stopped what was drawn, ran or was under way.
LEMMA SyncedGood ==
    ASSUME Good, UNCHANGED model, ui' \in UIs, ui'.active = ui.active, ui'.pending = ui.pending,
           ui'.shown = ui.shown, ui'.instance \in {NoInstance, ui.instance}, ui'.work \in {NoWork, ui.work},
           ui'.discovery # "off" <=> LiveThen(ui'.active)
    PROVE  Good'
BY ViewConstants, LiveFollows DEF Good, Agreeing, Waiting

LEMMA LoadedKeeps ==
    ASSUME NEW u \in UIs
    PROVE  /\ Loaded(u) \in UIs /\ Loaded(u).work = u.work /\ Loaded(u).active = u.active
           /\ Loaded(u).pending = u.pending /\ Loaded(u).instance = u.instance
           /\ Loaded(u).shown = u.shown /\ Loaded(u).discovery = "off"
BY DiscoveryPut DEF Loaded

LEMMA LoadGood ==
    ASSUME ViewTypeOK, Good, ServerSession \/ Start \/ Retry
                         \/ (\E select \in Selections : Select(select) \/ Position(select))
    PROVE  Good'
<1>1. ui \in UIs /\ ~ fresh' /\ model' = model /\ (\A chosen : ~ LiveThen(chosen)) /\ model \in Models
  BY DEF ServerSession, Start, Retry, Select, Position, Load, Good, LiveThen, ViewTypeOK
<1>2. CASE ServerSession
  <2> DEFINE u == Disposed(Aborted(ui))
  <2>1. /\ u \in UIs /\ u.active = ui.active /\ u.pending = ui.pending /\ u.shown = ui.shown
        /\ u.work = NoWork /\ u.instance = NoInstance
    BY <1>1, AbortedKeeps, DisposedKeeps
  <2>2. ui' = Synced(u)
    BY <1>2 DEF ServerSession
  <2> HIDE DEF u
  <2>3. QED
    BY <1>1, <2>1, <2>2, SyncedKeeps, SyncedGood
<1>3. CASE Start
  <2> DEFINE u == Loaded(ui)
  <2>1. /\ u \in UIs /\ u.active = ui.active /\ u.pending = ui.pending /\ u.shown = ui.shown
        /\ u.work = ui.work /\ u.instance = ui.instance /\ u.discovery = "off"
    BY <1>1, LoadedKeeps
  <2>2. ui' = [u EXCEPT !.listing = TRUE]
    BY <1>3 DEF Start
  <2> HIDE DEF u
  <2>3. /\ ui' \in UIs /\ ui'.active = ui.active /\ ui'.pending = ui.pending /\ ui'.shown = ui.shown
        /\ ui'.work = ui.work /\ ui'.instance = ui.instance /\ ui'.discovery = "off"
    BY <2>1, <2>2, FlagsPut
  <2>4. QED
    BY <1>1, <2>3, SyncedGood
<1>4. CASE Retry
  <2> DEFINE u == Loaded(Disposed(ui))
  <2>1. /\ u \in UIs /\ u.active = ui.active /\ u.pending = ui.pending /\ u.shown = ui.shown
        /\ u.work = ui.work /\ u.instance = NoInstance /\ u.discovery = "off"
    BY <1>1, DisposedKeeps, LoadedKeeps
  <2>2. \/ ui.work.stage = "frame" /\ ui' = Fallback(u)
        \/ ui' = u
    BY <1>4 DEF Retry
  <2> HIDE DEF u
  <2>3. CASE ui' = u
    BY <1>1, <2>1, <2>3, SyncedGood
  <2>4. CASE ui.work.stage = "frame" /\ ui' = Fallback(u)
    <3>1. installed' \in Rows
      BY <1>4 DEF Retry, ViewTypeOK
    <3>2. /\ ui' \in UIs /\ Agreeing(ui') /\ ui'.pending = ui.pending /\ ui'.active = "code"
          /\ ui'.discovery # "off" <=> LiveThen("code")
      BY <1>1, <2>1, <2>4, <3>1, FallbackKeeps
    <3>3. Following(ui)'
      BY <3>2, LiveFollows
    <3>4. Waiting(ui)' /\ Agreeing(ui)'
      BY <1>1, <2>4, <3>2, AtWork DEF Good, Waiting, Agreeing
    <3>5. QED
      BY <3>2, <3>3, <3>4 DEF Good
  <2>5. QED
    BY <2>2, <2>3, <2>4
<1>5. CASE \E select \in Selections : Position(select)
  <2>1. ui' = Loaded(ui)
    BY <1>5 DEF Position
  <2>2. QED
    BY <1>1, <2>1, LoadedKeeps, SyncedGood
<1>6. CASE \E select \in Selections : Select(select)
  <2>1. ui' = Loaded(Disposed(Overtaken(ui)))
    BY <1>6 DEF Select
  <2>2. /\ ui' \in UIs /\ ui'.active = ui.active /\ ui'.pending = ui.pending /\ ui'.shown = ui.shown
        /\ ui'.work = NoWork /\ ui'.instance = NoInstance /\ ui'.discovery = "off"
    BY <1>1, <2>1, AbortedKeeps, DisposedKeeps, LoadedKeeps
  <2>3. QED
    BY <1>1, <2>2, SyncedGood
<1>7. QED
  BY <1>2, <1>3, <1>4, <1>5, <1>6

LEMMA PageGood ==
    ASSUME Good, Hide \/ SuspendViews \/ Close \/ Listed
    PROVE  Good'
<1>1. ui \in UIs /\ model' = model
  BY DEF Hide, SuspendViews, Close, Listed, Good, Still, modelVars
<1>2. CASE Hide
  <2>1. ui' = Synced(ui)
    BY <1>2 DEF Hide
  <2>2. QED
    BY <1>1, <2>1, SyncedKeeps, SyncedGood
<1>3. CASE SuspendViews \/ Close
  <2>1. ui' = Disposed(Aborted(ui)) /\ (\A chosen : ~ LiveThen(chosen))
    BY <1>3 DEF SuspendViews, Close, LiveThen
  <2>2. /\ ui' \in UIs /\ ui'.active = ui.active /\ ui'.pending = ui.pending /\ ui'.shown = ui.shown
        /\ ui'.work = NoWork /\ ui'.instance = NoInstance /\ ui'.discovery = "off"
    BY <1>1, <2>1, AbortedKeeps, DisposedKeeps
  <2>3. QED
    BY <1>1, <2>1, <2>2, SyncedGood
<1>4. CASE Listed
  <2> DEFINE u == Synced(ui)
  <2>1. /\ u \in UIs /\ u.active = ui.active /\ u.pending = ui.pending /\ u.shown = ui.shown
        /\ u.work = ui.work /\ u.instance = ui.instance /\ (u.discovery # "off" <=> LiveThen(ui.active))
    BY <1>1, SyncedKeeps
  <2>2. ui' = [u EXCEPT !.listing = FALSE]
    BY <1>4 DEF Listed
  <2> HIDE DEF u
  <2>3. /\ ui' \in UIs /\ ui'.active = ui.active /\ ui'.pending = ui.pending /\ ui'.shown = ui.shown
        /\ ui'.work = ui.work /\ ui'.instance = ui.instance /\ ui'.discovery = u.discovery
    BY <2>1, <2>2, FlagsPut
  <2>4. QED
    BY <1>1, <2>1, <2>3, SyncedGood
<1>5. QED
  BY <1>2, <1>3, <1>4

\* What is projected is of the choice it was projected for.
LEMMA ProjectedGood ==
    ASSUME model' \in Models, installed' \in Rows, NEW u \in UIs, Agreeing(u), ui' = Projected(u),
           model' = NoModel \/ closed' => u.discovery = "off",
           model' = NoModel => u.shown.view = "none" /\ u.work.stage = "none",
           u.pending # "none" => model' = NoModel
    PROVE  Good'
<1>1. /\ ui' \in UIs /\ Agreeing(ui') /\ ui'.active = u.active /\ ui'.pending = u.pending
      /\ model' = NoModel \/ closed' => ui' = u
      /\ ~ (model' = NoModel \/ closed') => (ui'.discovery # "off" <=> LiveThen(u.active))
  BY ProjectedKeeps
<1>2. Following(ui)'
  <2>1. model' = NoModel \/ closed' => ~ LiveThen(u.active)
    BY DEF LiveThen
  <2>2. ui'.discovery # "off" <=> LiveThen(ui'.active)
    BY <1>1, <2>1
  <2>3. QED
    BY <2>2, LiveFollows
<1>3. Waiting(ui)' /\ Agreeing(ui)'
  BY <1>1 DEF Waiting, Agreeing
<1>4. QED
  BY <1>1, <1>2, <1>3 DEF Good

LEMMA DeliverGood ==
    ASSUME ViewTypeOK, Good, Deliver, OtherTypes'
    PROVE  Good'
<1> DEFINE other == model # NoModel /\ model.project # served.project
           u == IF other THEN Cleared(Disposed(ui)) ELSE ui
           d == Disposed(u)
           v == IF u.pending = "none" THEN u ELSE [d EXCEPT !.active = u.pending, !.pending = "none"]
<1>1. model' # NoModel /\ model' \in Models /\ installed' \in Rows
  <2>1. served \in Rows
    BY DEF ViewTypeOK
  <2>2. served.project # 0
    <3>1. served.project \in Projects
      BY <2>1, RowFields
    <3>2. QED
      BY <3>1 DEF Projects
  <2>3. QED
    BY <2>2 DEF Deliver, NoModel, OtherTypes
<1>2. /\ u \in UIs /\ u.active = ui.active /\ u.pending = ui.pending /\ u.work = ui.work
      /\ u.shown.view \in {"none", ui.active} /\ u.instance.view \in {"none", ui.active}
      /\ u.discovery \in {"off", ui.discovery}
      /\ model = NoModel => u = ui
  BY DisposedKeeps, ClearedKeeps, ViewConstants DEF Good, Agreeing
<1> HIDE DEF u
<1>3. Agreeing(u)
  BY <1>2 DEF Good, Agreeing
<1>4. closed' => u.discovery = "off"
  BY <1>2 DEF Good, Following, Live, Deliver, lifeVars
<1>5. v \in UIs /\ Agreeing(v) /\ v.pending = "none" /\ v.discovery \in {"off", u.discovery}
  <2>1. CASE u.pending = "none"
    BY <1>2, <1>3, <2>1
  <2>2. CASE u.pending # "none"
    <3> DEFINE e == [d EXCEPT !.active = u.pending]
    <3>1. d \in UIs /\ d.work = u.work /\ d.shown = u.shown /\ d.instance = NoInstance /\ d.discovery = "off"
      BY <1>2, DisposedKeeps
    <3>2. u.pending \in Views
      BY <1>2, <2>2 DEF UIs
    <3> HIDE DEF d
    <3>3. /\ e \in UIs /\ e.work = u.work /\ e.shown = u.shown /\ e.instance = NoInstance
          /\ e.discovery = "off"
      BY <3>1, <3>2 DEF UIs
    <3>4. v = [e EXCEPT !.pending = "none"]
      BY <2>2
    <3> HIDE DEF e, v
    <3>5. /\ v \in UIs /\ v.work = u.work /\ v.shown = u.shown /\ v.instance = NoInstance
          /\ v.discovery = "off" /\ v.pending = "none"
      BY <3>3, <3>4 DEF UIs
    <3>6. u.shown.view = "none" /\ u.work.stage = "none"
      BY <1>2, <2>2 DEF Good, Waiting
    <3>7. Agreeing(v)
      BY <3>5, <3>6, ViewConstants DEF Agreeing
    <3>8. QED
      BY <3>5, <3>7
  <2>3. QED
    BY <2>1, <2>2
<1>6. ui' = Projected(v)
  BY DEF Deliver, u
<1> HIDE DEF v
<1>7. QED
  BY <1>1, <1>4, <1>5, <1>6, ProjectedGood

LEMMA ChooseGood ==
    ASSUME ViewTypeOK, Good, NEW chosen \in Views, Choose(chosen)
    PROVE  Good'
<1>1. /\ ui \in UIs /\ model' \in Models /\ installed' \in Rows /\ UNCHANGED loading
      /\ UNCHANGED <<model, fresh, selection, suspended, closed, hidden>>
  BY DEF Choose, Good, Unmoved, modelVars, lifeVars, ViewTypeOK
<1>2. CASE model # NoModel
  <2>1. ui' = Chosen(chosen, ui)
    BY <1>2 DEF Choose
  <2>2. /\ ui' \in UIs /\ Agreeing(ui') /\ ui'.pending = ui.pending /\ ui'.active = chosen
        /\ ui'.discovery # "off" <=> LiveThen(chosen)
    BY <1>1, <2>1, ChosenKeeps DEF LiveThen
  <2>3. Following(ui)'
    BY <2>2, LiveFollows
  <2>4. Waiting(ui)' /\ Agreeing(ui)'
    BY <1>1, <1>2, <2>2 DEF Good, Waiting, Agreeing
  <2>5. QED
    BY <2>2, <2>3, <2>4 DEF Good
<1>3. CASE model = NoModel
  <2> DEFINE a == [ui EXCEPT !.pending = chosen]
  <2>1. /\ a \in UIs /\ a.active = ui.active /\ a.shown = ui.shown /\ a.instance = ui.instance
        /\ a.work = ui.work /\ a.discovery = ui.discovery
    BY <1>1 DEF UIs
  <2>2. ui' = Told(a) \/ ui' = Told(ui)
    BY <1>3 DEF Choose
  <2> HIDE DEF a
  <2>3. /\ ui' \in UIs /\ ui'.active = ui.active /\ ui'.shown = ui.shown /\ ui'.instance = ui.instance
        /\ ui'.work = ui.work /\ ui'.discovery = ui.discovery /\ ui'.told
    BY <1>1, <2>1, <2>2, ToldKeeps
  <2>4. Following(ui)'
    BY <1>1, <2>3, FollowingKept DEF Good
  <2>5. Waiting(ui)' /\ Agreeing(ui)'
    BY <1>1, <1>3, <2>3 DEF Good, Waiting, Agreeing
  <2>6. QED
    BY <2>3, <2>4, <2>5 DEF Good
<1>4. QED
  BY <1>2, <1>3

LEMMA OpenFailsGood ==
    ASSUME Good, OpenFails
    PROVE  Good'
<1> DEFINE p == IF model = NoModel THEN "none" ELSE ui.pending
           a == [ui EXCEPT !.pending = p]
<1>1. ui \in UIs /\ UNCHANGED <<model, fresh, selection, suspended, closed, hidden>>
  BY DEF OpenFails, Good, lifeVars
<1>2. p \in Views \union {"none"}
  BY <1>1 DEF UIs
<1>3. ui' = Told(a)
  BY DEF OpenFails
<1> HIDE DEF p
<1>4. /\ a \in UIs /\ a.active = ui.active /\ a.shown = ui.shown /\ a.instance = ui.instance
      /\ a.work = ui.work /\ a.discovery = ui.discovery /\ a.pending = p
  BY <1>1, <1>2 DEF UIs
<1> HIDE DEF a
<1>5. /\ ui' \in UIs /\ ui'.active = ui.active /\ ui'.shown = ui.shown /\ ui'.instance = ui.instance
      /\ ui'.work = ui.work /\ ui'.discovery = ui.discovery /\ ui'.told /\ ui'.pending = p
  BY <1>3, <1>4, ToldKeeps
<1>6. Following(ui)'
  BY <1>1, <1>5, FollowingKept DEF Good
<1>7. Waiting(ui)' /\ Agreeing(ui)'
  BY <1>1, <1>5 DEF Good, Waiting, Agreeing, p
<1>8. QED
  BY <1>5, <1>6, <1>7 DEF Good

LEMMA GrantGood ==
    ASSUME ViewTypeOK, Good, Granted \/ (\E grant \in Grants : Grant(grant))
    PROVE  Good'
<1>1. /\ ui \in UIs /\ model' \in Models /\ installed' \in Rows
      /\ UNCHANGED <<model, fresh, selection, suspended, closed, hidden>>
  BY DEF Granted, Grant, Good, modelVars, lifeVars, ViewTypeOK
<1>2. CASE \E grant \in Grants : Grant(grant)
  <2>1. ui.active = "extension" /\ ui' = Cleared(Disposed(Overtaken(ui)))
    BY <1>2 DEF Grant
  <2>2. /\ ui' \in UIs /\ ui'.active = ui.active /\ ui'.pending = ui.pending /\ ui'.shown = Nothing
        /\ ui'.work = NoWork /\ ui'.instance = NoInstance /\ ui'.discovery = "off"
    BY <1>1, <2>1, AbortedKeeps, DisposedKeeps, ClearedKeeps
  <2>3. QED
    BY <1>1, <2>1, <2>2, ViewConstants, ExtensionKept
<1>3. CASE Granted /\ ui' = Told(ui)
  <2>1. /\ ui' \in UIs /\ ui'.active = ui.active /\ ui'.shown = ui.shown /\ ui'.instance = ui.instance
        /\ ui'.work = ui.work /\ ui'.discovery = ui.discovery /\ ui'.told /\ ui'.pending = ui.pending
    BY <1>1, <1>3, ToldKeeps
  <2>2. Following(ui)'
    BY <1>1, <2>1, FollowingKept DEF Good
  <2>3. Waiting(ui)' /\ Agreeing(ui)'
    BY <1>1, <2>1 DEF Good, Waiting, Agreeing
  <2>4. QED
    BY <2>1, <2>2, <2>3 DEF Good
<1>4. CASE Granted /\ ui' \in {Projected(Synced(ui)), Told([Synced(ui) EXCEPT !.asked = FALSE])}
  <2> DEFINE u == Synced(ui)
             a == [u EXCEPT !.asked = FALSE]
  <2>1. /\ u \in UIs /\ u.active = ui.active /\ u.pending = ui.pending /\ u.shown = ui.shown
        /\ u.work = ui.work /\ u.instance = ui.instance /\ (u.discovery # "off" <=> LiveThen(ui.active))
    BY <1>1, SyncedKeeps
  <2>2. ui' = Projected(u) \/ ui' = Told(a)
    BY <1>4
  <2> HIDE DEF u
  <2>3. CASE ui' = Projected(u)
    <3>1. Agreeing(u)
      BY <2>1 DEF Good, Agreeing
    <3>2. model' = NoModel \/ closed' => u.discovery = "off"
      BY <2>1 DEF LiveThen
    <3>3. /\ model' = NoModel => u.shown.view = "none" /\ u.work.stage = "none"
          /\ u.pending # "none" => model' = NoModel
      BY <1>1, <2>1 DEF Good, Waiting
    <3>4. QED
      BY <1>1, <2>1, <2>3, <3>1, <3>2, <3>3, ProjectedGood
  <2>4. CASE ui' = Told(a)
    <3>1. /\ a \in UIs /\ a.active = ui.active /\ a.pending = ui.pending /\ a.shown = ui.shown
          /\ a.work = ui.work /\ a.instance = ui.instance /\ a.discovery = u.discovery
      BY <2>1, FlagsPut
    <3> HIDE DEF a
    <3>2. /\ ui' \in UIs /\ ui'.active = ui.active /\ ui'.pending = ui.pending /\ ui'.shown = ui.shown
          /\ ui'.work = ui.work /\ ui'.instance = ui.instance /\ ui'.discovery = u.discovery
      BY <2>4, <3>1, ToldKeeps
    <3>3. QED
      BY <1>1, <2>1, <3>2, SyncedGood
  <2>5. QED
    BY <2>2, <2>3, <2>4
<1>5. QED
  BY <1>2, <1>3, <1>4 DEF Granted

LEMMA RefreshGood ==
    ASSUME ViewTypeOK, Good, Refresh
    PROVE  Good'
<1>1. /\ ui \in UIs /\ model' \in Models /\ installed' \in Rows /\ ~ closed' /\ model' # NoModel
      /\ ui' = Projected(ui) /\ model' = model
  BY DEF Refresh, Act, Good, Unmoved, modelVars, lifeVars, ViewTypeOK
<1>2. QED
  BY <1>1, ProjectedGood DEF Good, Waiting

-----------------------------------------------------------------------------
\* TypeOK and the rest of the invariant hold in every state.
THEOREM ViewCorrect == ViewSpec => []ViewInv
<1>1. ViewInit => ViewInv
  <2> SUFFICES ASSUME ViewInit PROVE ViewInv
    OBVIOUS
  <2>1. \A g \in {"none", "history"} : [project |-> 1, version |-> 1, grant |-> g] \in Rows
    BY DEF Rows, Projects, Grants
  <2>2. served \in Rows /\ served.project \in Projects
    BY <2>1, RowFields DEF ViewInit
  <2>3. NoGranting \in [stage : {"none", "asking", "granted", "refused", "listing"}, row : Rows, grant : Grants]
    BY ViewConstants DEF NoGranting, Grants
  <2>4. /\ "code" \in Views /\ "c4" \in Views \union {"none"} /\ "live" \in Selections
    BY DEF Views, BuiltIn, Selections
  <2>5. ui \in UIs
    BY <2>4, ViewConstants DEF ViewInit, UIs
  <2>6. ViewTypeOK
    BY <2>2, <2>3, <2>4, <2>5, ViewConstants DEF ViewInit, ViewTypeOK
  <2>7. /\ ui.shown = Nothing /\ ui.work = NoWork /\ ui.instance = NoInstance /\ ui.discovery = "off"
        /\ model = NoModel
    BY DEF ViewInit
  <2>8. Agreeing(ui) /\ Following(ui) /\ Waiting(ui)
    BY <2>7, ViewConstants DEF Agreeing, Following, Waiting, Live
  <2>9. QED
    BY <2>6, <2>8 DEF ViewInv
<1>2. ViewInv /\ [ViewNext]_viewVars => ViewInv'
  <2> SUFFICES ASSUME ViewInv, [ViewNext]_viewVars PROVE ViewInv'
    OBVIOUS
  <2>1. ViewTypeOK /\ Good
    BY DEF ViewInv, Good, ViewTypeOK
  <2>2. OtherTypes'
    BY <2>1, OtherTypesKept
  <2>3. installed' \in Rows
    BY <2>2 DEF OtherTypes
  <2>4. Good'
    <3>1. CASE Projecting \/ UpdateFails \/ CatalogueFails \/ DataFails \/ FrameFails
      BY <2>1, <2>3, <3>1, UpdateGood, ExtensionGood, FrameFailsGood DEF Projecting
    <3>2. CASE Watching \/ WatchFails
      BY <2>1, <3>2, WatchGood
    <3>3. CASE DiscoveryReply \/ DiscoveryTimer \/ Discover
      BY <2>1, <3>3, DiscoveryGood
    <3>4. CASE Retry \/ ServerSession \/ Start \/ (\E select \in Selections : Select(select) \/ Position(select))
      BY <2>1, <3>4, LoadGood
    <3>5. CASE Hide \/ SuspendViews \/ Close \/ Listed
      BY <2>1, <3>5, PageGood
    <3>6. CASE Deliver \/ OpenFails \/ Refresh
      BY <2>1, <2>2, <3>6, DeliverGood, OpenFailsGood, RefreshGood
    <3>7. CASE Granted \/ (\E grant \in Grants : Grant(grant))
      BY <2>1, <3>7, GrantGood
    <3>8. CASE \E chosen \in Views : Choose(chosen)
      BY <2>1, <3>8, ChooseGood
    <3>9. CASE GrantServed \/ ServerChanges \/ UNCHANGED viewVars
      <4>1. ui' = ui /\ UNCHANGED <<model, fresh, selection, suspended, closed, hidden>>
        BY <3>9 DEF GrantServed, ServerChanges, viewVars, modelVars, lifeVars
      <4>2. QED
        BY <2>1, <4>1, LookKept DEF Good
    <3>10. QED
      BY <3>1, <3>2, <3>3, <3>4, <3>5, <3>6, <3>7, <3>8, <3>9 DEF ViewNext, Granting
  <2>5. QED
    BY <2>2, <2>4 DEF ViewInv, Good, ViewTypeOK, OtherTypes
<1>3. QED
  BY <1>1, <1>2, PTL DEF ViewSpec

(***************************************************************************)
(* Whatever is drawn or runs is of the view that is chosen, and discovery is *)
(* followed while, and only while, a built-in view shows the present, unless *)
(* a message tells why not: for any number of acts, failures and snapshots.  *)
(***************************************************************************)
THEOREM ViewIsOne == ViewSpec => []OneView
<1>1. ViewInv => OneView
  BY DEF ViewInv, Agreeing, Following, OneView
<1>2. QED
  BY <1>1, ViewCorrect, PTL
====
