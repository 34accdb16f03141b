------------------------------ MODULE BridgeRelay ------------------------------
(***************************************************************************)
(* Requests of the content script on their way through the background      *)
(* worker: BridgeClient.post (clients/browser/src/api/client.ts) over      *)
(* createBackgroundBridgeFetch (background/bridge-transport.ts), the       *)
(* worker's listener (background/message-listener.ts) and                  *)
(* relayBridgeRequest (background/bridge-relay.ts).  A caller gives up by  *)
(* a newer check, a detach or its deadline; the browser may end the worker *)
(* at any moment, and starts another for the next message.                 *)
(*                                                                         *)
(* Messages of the page reach the worker in the order sent.  Request ids   *)
(* are random and never reused.  Bodies, routes and statuses are left out. *)
(***************************************************************************)
EXTENDS Naturals, Sequences, SequencesExt

CONSTANTS
  Ids,
  MaxDeaths  \* bound on the workers that end

VARIABLE relay

Message == [type: {"BRIDGE_REQUEST", "BRIDGE_CANCEL"}, id: Ids]
Reply == [id: Ids, success: BOOLEAN]

TypeOK ==
  relay \in
    [call: [Ids -> {"idle", "waiting", "resolved", "rejected", "aborted"}],
     sent: Seq(Message),
     inFlight: SUBSET Ids,                               \* inFlightBridgeRequests
     job: [Ids -> {"none", "settings", "fetching"}],     \* the chain of promises of a request
     aborted: SUBSET Ids,                                \* controllers aborted
     replies: SUBSET Reply,
     deaths: 0..MaxDeaths]

Init ==
  relay = [call |-> [id \in Ids |-> "idle"], sent |-> <<>>, inFlight |-> {},
           job |-> [id \in Ids |-> "none"], aborted |-> {}, replies |-> {}, deaths |-> 0]

Message_(type, id) == [type |-> type, id |-> id]

-----------------------------------------------------------------------------
(* The page: sendWithCancellation.  Slip_... definitions are slips the     *)
(* definition after them could have; nothing uses them.                    *)

Send(id) ==
  /\ relay.call[id] = "idle"
  /\ relay' = [relay EXCEPT !.call[id] = "waiting",
                            !.sent = Append(@, Message_("BRIDGE_REQUEST", id))]

\* onAbort: the caller is told at once, the worker by a message.
Abort(id) ==
  /\ relay.call[id] = "waiting"
  /\ relay' = [relay EXCEPT !.call[id] = "aborted",
                            !.sent = Append(@, Message_("BRIDGE_CANCEL", id))]

\* The response, or the failure, of sendMessage: once settled, nothing counts.
Settle(reply) ==
  relay' = [relay EXCEPT
              !.replies = @ \ {reply},
              !.call[reply.id] = IF @ # "waiting" THEN @
                                 ELSE IF reply.success THEN "resolved" ELSE "rejected"]

-----------------------------------------------------------------------------
(* The worker: createBackgroundMessageListener. *)

Respond(r, id, success) == [r EXCEPT !.replies = @ \cup {[id |-> id, success |-> success]}]

Request(r, id) ==
  IF id \in r.inFlight THEN Respond(r, id, FALSE)  \* a duplicate
  ELSE [r EXCEPT !.inFlight = @ \cup {id}, !.job[id] = "settings"]

Cancel(r, id) ==
  [r EXCEPT !.aborted = IF id \in r.inFlight THEN @ \cup {id} ELSE @, !.inFlight = @ \ {id}]

Listen ==
  /\ relay.sent # <<>>
  /\ LET message == Head(relay.sent)
         r       == [relay EXCEPT !.sent = Tail(@)]
     IN  relay' = IF message.type = "BRIDGE_REQUEST" THEN Request(r, message.id)
                  ELSE Cancel(r, message.id)

Slip_ErrorUnanswered(r, id, success) ==
  LET ended == [r EXCEPT !.job[id] = "none", !.inFlight = @ \ {id}]
  IN  IF success THEN Respond(ended, id, TRUE) ELSE ended

\* The chain ends: the page is answered either way, and finally the id is free.
End(r, id, success) == Respond([r EXCEPT !.job[id] = "none", !.inFlight = @ \ {id}], id, success)

\* getSettings is back; the URL is refused, or the signal is already aborted.
SettingsRead(id) ==
  /\ relay.job[id] = "settings"
  /\ \/ relay' = End(relay, id, FALSE)
     \/ id \notin relay.aborted /\ relay' = [relay EXCEPT !.job[id] = "fetching"]

\* The bridge answers, or cannot be reached; an aborted fetch rejects.
Fetched(id) ==
  /\ relay.job[id] = "fetching"
  /\ \/ relay' = End(relay, id, FALSE)
     \/ id \notin relay.aborted /\ relay' = End(relay, id, TRUE)

\* The browser ends the worker: its fetches go, and open channels are closed.
Dies ==
  /\ relay.deaths < MaxDeaths
  /\ relay' = [relay EXCEPT
                 !.deaths = @ + 1, !.inFlight = {}, !.aborted = {},
                 !.job = [id \in Ids |-> "none"],
                 !.replies = @ \cup {[id |-> id, success |-> FALSE] :
                                       id \in {i \in Ids : relay.job[i] # "none"}}]

Next ==
  \/ \E id \in Ids : Send(id) \/ Abort(id) \/ SettingsRead(id) \/ Fetched(id)
  \/ \E reply \in relay.replies : Settle(reply)
  \/ Listen \/ Dies

Spec == Init /\ [][Next]_relay

-----------------------------------------------------------------------------
(* Safety. *)

\* No fetch is left running for a caller that gave up: it is aborted, or the
\* message that will abort it is under way; and the ids in flight are those of
\* the requests that can still be cancelled.
NoOrphanFetch ==
  \A id \in Ids :
    /\ id \in relay.inFlight <=> relay.job[id] # "none" /\ id \notin relay.aborted
    /\ relay.job[id] # "none" /\ relay.call[id] = "aborted" =>
         id \in relay.aborted \/ Message_("BRIDGE_CANCEL", id) \in Range(relay.sent)

\* No caller waits for nothing, wherever the worker ended: the request is on
\* its way, at work, or answered.
CallsAreHeard ==
  \A id \in Ids : relay.call[id] = "waiting" =>
    \/ Message_("BRIDGE_REQUEST", id) \in Range(relay.sent)
    \/ relay.job[id] # "none"
    \/ \E reply \in relay.replies : reply.id = id
=============================================================================
