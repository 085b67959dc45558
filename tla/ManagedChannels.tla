--------------------------- MODULE ManagedChannels ---------------------------
(***************************************************************************)
(* One channel that Xvond runs through the workflow plane (Instagram,      *)
(* Messenger, SMS, ...): its row in agent_channels and the routes the      *)
(* workflow registry keeps for it (api/customer_meta_channels.py,          *)
(* api/admin_channels.py, modules/channels/delivery.py and the launch of   *)
(* api/customer_employee_builder.py over scripts/workflow_registry_        *)
(* service.py).                                                            *)
(*                                                                         *)
(* The registry is a second database: a route holds the provider's         *)
(* credentials under a connection key, and the row's config is all that    *)
(* knows the key.  A request calls the registry in the middle of its       *)
(* transaction.  The call can time out while the gateway still carries it  *)
(* out, and the request can end without its commit.                        *)
(*                                                                         *)
(* The customer's endpoints read the row and then lock it, in one session: *)
(* SELECT FOR UPDATE does not refresh an object the session has loaded, so *)
(* they decide on the row as it was before they waited.  A commit writes   *)
(* the columns that differ from what was read; config is one column.       *)
(*                                                                         *)
(* Other channels are left out: a route belongs to the channel it was made *)
(* for (the registry refuses another channel's key), and nothing relates   *)
(* two rows.  Readiness besides the route (knowledge, model, limits) may   *)
(* allow or refuse at any time.                                            *)
(***************************************************************************)
EXTENDS Naturals, FiniteSets

CONSTANTS Requests,  \* concurrent HTTP requests about the channel
          ConnectionKeys,      \* connection keys; a bound on those ever made
          NoKey, NoRequest,
          Typed,     \* bound: the connections an operator's PUT may send
          MaxBegun   \* bound: requests ever begun

ASSUME ManagedAssumption ==
    /\ NoKey \notin ConnectionKeys
    /\ NoRequest \notin Requests
    /\ MaxBegun \in Nat
    /\ Typed \subseteq [state : {"requested", "connected", "cancelled"},
                        key : ConnectionKeys \cup {NoKey},
                        cleanup : {"none", "active", "pending", "complete"}]

VARIABLES row,      \* the row of agent_channels
          lock,     \* the request that holds its row lock
          registry, \* keys with a route of this channel
          wire,     \* calls still carried out though their caller gave up
          request,  \* what each request does and has read
          made,     \* history: keys ever generated or typed
          mishaps,  \* history: what went wrong that nobody recorded
          begun

vars == <<row, lock, registry, wire, request, made, mishaps, begun>>

States  == {"requested", "connected", "cancelled"}
Cleanup == {"none", "active", "pending", "complete"}
Rows == [exists : BOOLEAN, enabled : BOOLEAN, verified : BOOLEAN,
         state : States, key : ConnectionKeys \cup {NoKey}, cleanup : Cleanup]

Customer == {"connect", "activate", "settings", "disconnect"}
Operator == {"managed", "enable", "disable", "edit", "delete"}
Builder  == {"launch", "withdraw", "ask"}
Operations == Customer \cup Operator \cup Builder \cup {"send"}

\* Those whose first read is the locking one.
LockFirst == {"managed", "launch"}

Calls == [kind : {"provision", "remove"}, key : ConnectionKeys]

Unread == [exists |-> FALSE, enabled |-> FALSE, verified |-> FALSE,
           state |-> "requested", key |-> NoKey, cleanup |-> "none"]
Ended == [op |-> "none", at |-> "idle", read |-> Unread, key |-> NoKey,
          done |-> FALSE, live |-> FALSE, stale |-> FALSE]

\* The employee builder asked for the channel: a disabled row is the request.
Init ==
    /\ row = [Unread EXCEPT !.exists = TRUE]
    /\ lock = NoRequest
    /\ registry = {}
    /\ wire = {}
    /\ request = [r \in Requests |-> Ended]
    /\ made = {}
    /\ mishaps = {}
    /\ begun = 0

-----------------------------------------------------------------------------
(* Requests, transactions and the row.                                     *)

At(r, ops, where) == request[r].op \in ops /\ request[r].at = where

Goto(r, where) == request' = [request EXCEPT ![r].at = where]

Unlock(r) == lock' = IF lock = r THEN NoRequest ELSE lock

Close(r) ==
    /\ request' = [request EXCEPT ![r] = Ended]
    /\ Unlock(r)

\* The row changes: what the other requests have read is out of date.
Outdate(r) ==
    request' = [o \in Requests |->
        IF o = r THEN Ended
        ELSE IF request[o] = Ended THEN Ended
        ELSE [request[o] EXCEPT !.stale = TRUE]]

\* route_may_exist of deactivate_managed_channel_route.
MayHaveRoute(c) ==
    c.state = "connected" \/ c.cleanup \in {"active", "pending"}

Config(c) == [state |-> c.state, key |-> c.key, cleanup |-> c.cleanup]

\* What an operator's PUT did to the connection: it merges any config.
Rewriting(r, new) ==
    LET read == request[r].read
    IN  IF request[r].op # "edit" THEN {}
        ELSE (IF Config(new) # Config(read) THEN {"rewritten"} ELSE {})
             \cup (IF /\ read.enabled
                      /\ new.state # read.state \/ new.key # read.key
                   THEN {"rerouted"} ELSE {})

\* SQLAlchemy's flush and the commit: the columns that differ from the read
\* ones are written, whatever the row holds by now.
Commit(r, new, touched) ==
    LET read   == request[r].read
        config == touched \/ Config(new) # Config(read)
        writes == config \/ new.enabled # read.enabled \/ ~new.exists
        Kept(field) == IF config THEN new[field] ELSE row[field]
    IN  /\ row.exists
        /\ lock \in {r, NoRequest}
        /\ row' = [exists   |-> new.exists,
                   enabled  |-> IF new.enabled # read.enabled
                                THEN new.enabled ELSE row.enabled,
                   verified |-> new.verified \/ row.verified,
                   state    |-> Kept("state"),
                   key      |-> Kept("key"),
                   cleanup  |-> Kept("cleanup")]
        /\ mishaps' = mishaps \cup Rewriting(r, new) \cup
                        IF request[r].stale /\ (writes \/ request[r].done)
                        THEN {"overtaken"} ELSE {}
        /\ IF writes THEN Outdate(r) /\ Unlock(r) ELSE Close(r)

\* The first SELECT of the request.  One builder endpoint runs at a time: it
\* holds the lock of the employee's configuration row.
Read(r, op) ==
    /\ request[r] = Ended
    /\ begun < MaxBegun
    /\ row.exists
    /\ op \in Builder => \A o \in Requests : request[o].op \notin Builder
    /\ op \in LockFirst => lock = NoRequest
    /\ op = "managed" => ~row.enabled
    /\ op = "send" => row.enabled /\ row.state = "connected"
                                  /\ row.key # NoKey
    /\ request' = [request EXCEPT ![r] =
           [Ended EXCEPT !.op = op, !.read = row,
              !.at = CASE op \in Customer -> "lock"
                       [] op \in {"delete", "withdraw", "ask"} -> "remove"
                       [] op \in {"enable", "launch"} -> "blockers"
                       [] op = "managed" -> "key"
                       [] op = "send" -> "check"
                       [] OTHER -> "write"]]
    /\ lock' = IF op \in LockFirst THEN r ELSE lock
    /\ begun' = begun + 1
    /\ UNCHANGED <<row, registry, wire, made, mishaps>>

\* The SELECT FOR UPDATE, which leaves what was read as it is.
Lock(r) ==
    /\ At(r, Customer, "lock")
    /\ lock = NoRequest
    /\ row.exists
    /\ lock' = r
    /\ Goto(r, CASE request[r].op = "connect"    -> "key"
                 [] request[r].op = "activate"   -> "blockers"
                 [] request[r].op = "disconnect" -> "remove"
                 [] request[r].op = "settings"   -> "write")
    /\ UNCHANGED <<row, registry, wire, made, mishaps, begun>>

\* The request fails or its process dies: the transaction is rolled back, the
\* calls it made are not.
GiveUp(r) ==
    /\ request[r] # Ended
    /\ Close(r)
    /\ mishaps' = mishaps \cup
           IF ~request[r].done THEN {}
           ELSE IF request[r].op \in {"connect", "managed"}
           THEN {"unrecorded route"}
           ELSE {"unrecorded removal"}
    /\ UNCHANGED <<row, registry, wire, made, begun>>

-----------------------------------------------------------------------------
(* Connecting: complete_connect, the Instagram callback, managed-connect.  *)

\* The customer's flows keep the stored key or generate one; the operator's
\* generates one or takes the one typed in, and may only verify its route.
ChooseKey(r) ==
    /\ At(r, {"connect", "managed"}, "key")
    /\ ~request[r].read.enabled
    /\ \E key \in ConnectionKeys :
          /\ IF request[r].op = "connect" /\ request[r].read.key # NoKey
             THEN key = request[r].read.key
             ELSE key \notin made \/ request[r].op = "managed"
          /\ made' = made \cup {key}
          /\ \E where \in {"provision"} \cup
                  (IF request[r].op = "managed" THEN {"check"} ELSE {}) :
                request' = [request EXCEPT ![r].key = key, ![r].at = where]
    /\ UNCHANGED <<row, lock, registry, wire, mishaps, begun>>

\* The registry writes the route, or the caller gives up on the call first.
Provision(r) ==
    /\ At(r, {"connect", "managed"}, "provision")
    /\ \/ /\ registry' = registry \cup {request[r].key}
          /\ request' = [request EXCEPT ![r].at = "check", ![r].done = TRUE]
          /\ UNCHANGED <<wire, lock>>
       \/ /\ wire' = wire \cup
                 {[kind |-> "provision", key |-> request[r].key]}
          /\ Close(r)
          /\ UNCHANGED registry
    /\ UNCHANGED <<row, made, mishaps, begun>>

\* The key a call to the gateway names.
Named(r) == IF request[r].op \in {"connect", "managed"} THEN request[r].key
                                                      ELSE request[r].read.key

\* channel.check and channel.send: without its route the request fails
\* (GiveUp).
Check(r) ==
    /\ At(r, {"connect", "managed", "send"}, "check")
    /\ Named(r) \in registry
    /\ Goto(r, IF request[r].op = "connect" THEN "blockers" ELSE "write")
    /\ UNCHANGED <<row, lock, registry, wire, made, mishaps, begun>>

\* _activation_blockers: the channel goes live when it is ready; a connect is
\* kept without going live, the other requests fail.
Blockers(r) ==
    /\ At(r, {"connect", "activate", "enable", "launch"}, "blockers")
    /\ \E live \in BOOLEAN :
          /\ live => Named(r) \in registry
          /\ request[r].op # "connect" =>
                /\ live /\ ~request[r].read.enabled
                /\ request[r].read.state = "connected"
          /\ request' = [request EXCEPT ![r].at = "write", ![r].live = live]
    /\ UNCHANGED <<row, lock, registry, wire, made, mishaps, begun>>

Connected(r) ==
    [request[r].read EXCEPT !.enabled = request[r].live,
         !.state = "connected", !.key = request[r].key, !.cleanup = "active"]

CommitConnect(r) ==
    /\ At(r, {"connect"}, "write")
    /\ Commit(r, Connected(r), TRUE)
    /\ UNCHANGED <<registry, wire, made, begun>>

\* The operator's key replaces the stored one, whose route stays.
CommitManaged(r) ==
    /\ At(r, {"managed"}, "write")
    /\ row' = Connected(r)
    /\ mishaps' = mishaps \cup
           IF row.key \in registry \ {request[r].key}
           THEN {"replaced"} ELSE {}
    /\ Outdate(r) /\ Unlock(r)
    /\ UNCHANGED <<registry, wire, made, begun>>

\* The customer's activate, the operator's enable, the builder's launch.
CommitLive(r) ==
    /\ At(r, {"activate", "enable", "launch"}, "write")
    /\ Commit(r, [request[r].read EXCEPT !.enabled = TRUE], FALSE)
    /\ UNCHANGED <<registry, wire, made, begun>>

-----------------------------------------------------------------------------
(* Settings, the end of a channel and the traffic.                         *)

\* The wording of the channel is merged into the config that was read.
CommitSettings(r) ==
    /\ At(r, {"settings"}, "write")
    /\ Commit(r, request[r].read, TRUE)
    /\ UNCHANGED <<registry, wire, made, begun>>

\* update_channel merges whatever config the operator sends, the connection
\* included, into a channel that may be live, without a lock.  (A PUT that
\* also switches the channel is two requests here.)
CommitEdit(r) ==
    /\ At(r, {"edit"}, "write")
    /\ LET read == request[r].read
       IN  \E typed \in Typed \cup {Config(read)} :
              /\ Commit(r, [read EXCEPT !.state = typed.state,
                               !.key = typed.key, !.cleanup = typed.cleanup],
                        TRUE)
              /\ made' = made \cup ({typed.key} \ {NoKey})
    /\ UNCHANGED <<registry, wire, begun>>

CommitDisable(r) ==
    /\ At(r, {"disable"}, "write")
    /\ Commit(r, [request[r].read EXCEPT !.enabled = FALSE], FALSE)
    /\ UNCHANGED <<registry, wire, made, begun>>

\* reconcile_managed_channel_requests cleans up for a wanted channel only when
\* it asks for a cancelled one again.
MustRemove(r) ==
    /\ MayHaveRoute(request[r].read)
    /\ request[r].op = "ask" => request[r].read.state = "cancelled"

\* deactivate_managed_channel_route.  The call removes the route; its reply
\* may be lost, it may never arrive, or arrive after the caller gave up.
Remove(r) ==
    /\ At(r, {"disconnect", "delete", "withdraw", "ask"}, "remove")
    /\ LET key == request[r].read.key
           Outcome(clean, did) ==
               request' = [request EXCEPT ![r].at = "write",
                               ![r].live = clean, ![r].done = did]
           call == [kind |-> "remove", key |-> key]
       IN  \/ /\ ~MustRemove(r)
              /\ Outcome(TRUE, FALSE)
              /\ UNCHANGED <<registry, wire>>
           \/ /\ MustRemove(r) /\ key # NoKey
              /\ registry' = registry \ {key}
              /\ \E clean \in BOOLEAN : Outcome(clean, TRUE)
              /\ UNCHANGED wire
           \/ /\ MustRemove(r)
              /\ wire' \in {wire} \cup
                     (IF key = NoKey THEN {} ELSE {wire \cup {call}})
              /\ Outcome(FALSE, FALSE)
              /\ UNCHANGED registry
    /\ UNCHANGED <<row, lock, made, mishaps, begun>>

\* Only a confirmed removal: otherwise the request fails (GiveUp).
CommitDisconnect(r) ==
    /\ At(r, {"disconnect"}, "write")
    /\ request[r].live
    /\ Commit(r, [request[r].read EXCEPT !.enabled = FALSE,
           !.state = "cancelled", !.key = NoKey, !.cleanup = "complete"],
           FALSE)
    /\ UNCHANGED <<registry, wire, made, begun>>

\* Mutant: the row is deleted whether the route was removed or not.
DeleteUnconfirmed(r) ==
    /\ At(r, {"delete"}, "write")
    /\ Commit(r, [request[r].read EXCEPT !.exists = FALSE], FALSE)
    /\ UNCHANGED <<registry, wire, made, begun>>

CommitDelete(r) ==
    /\ At(r, {"delete"}, "write")
    /\ request[r].live
    /\ Commit(r, [request[r].read EXCEPT !.exists = FALSE], FALSE)
    /\ UNCHANGED <<registry, wire, made, begun>>

\* Mutant: a withdrawn channel is not disabled.
WithdrawLive(r) ==
    /\ At(r, {"withdraw"}, "write")
    /\ Commit(r, [request[r].read EXCEPT !.state = "cancelled",
           !.cleanup = IF request[r].live THEN "complete" ELSE "pending"],
           FALSE)
    /\ UNCHANGED <<registry, wire, made, begun>>

\* reconcile_managed_channel_requests for a channel the employee has lost:
\* what could not be cleaned up is left pending, with its key.
CommitWithdraw(r) ==
    /\ At(r, {"withdraw"}, "write")
    /\ Commit(r, [request[r].read EXCEPT !.enabled = FALSE,
           !.state = "cancelled",
           !.cleanup = IF request[r].live THEN "complete" ELSE "pending"],
           FALSE)
    /\ UNCHANGED <<registry, wire, made, begun>>

\* The same for a channel it has: a cancelled one is asked for again, but not
\* before its old route is gone.
CommitAsk(r) ==
    /\ At(r, {"ask"}, "write")
    /\ LET read == request[r].read
           clean == request[r].live
       IN  Commit(r,
             IF read.state # "cancelled" THEN read
             ELSE [read EXCEPT !.enabled = FALSE,
                    !.state = IF clean THEN "requested" ELSE "cancelled",
                    !.cleanup = IF ~clean THEN "pending"
                                ELSE IF MayHaveRoute(read) THEN "complete"
                                ELSE @],
             FALSE)
    /\ UNCHANGED <<registry, wire, made, begun>>

\* deactivate_self_service_employee, under the row lock.
Pause ==
    /\ row.exists /\ row.enabled
    /\ lock = NoRequest
    /\ row' = [row EXCEPT !.enabled = FALSE]
    /\ Outdate(NoRequest)
    /\ UNCHANGED <<lock, registry, wire, made, mishaps, begun>>

\* attempt_delivery, once the provider has confirmed the first message: the
\* proof is merged into the config that was read before the call.
CommitProof(r) ==
    /\ At(r, {"send"}, "write")
    /\ ~request[r].read.verified
    /\ Commit(r, [request[r].read EXCEPT !.verified = TRUE], TRUE)
    /\ UNCHANGED <<registry, wire, made, begun>>

\* The gateway carries out a call whose caller has given up.
Arrives(call) ==
    /\ wire' = wire \ {call}
    /\ registry' = IF call.kind = "provision"
                   THEN registry \cup {call.key} ELSE registry \ {call.key}
    /\ mishaps' = mishaps \cup
           IF registry' = registry THEN {}
           ELSE IF call.kind = "provision" THEN {"unrecorded route"}
           ELSE {"unrecorded removal"}
    /\ UNCHANGED <<row, lock, request, made, begun>>

Step(r) ==
    \/ Lock(r) \/ ChooseKey(r) \/ Provision(r) \/ Check(r) \/ Blockers(r)
    \/ Remove(r)
    \/ CommitConnect(r) \/ CommitManaged(r) \/ CommitLive(r)
    \/ CommitSettings(r) \/ CommitEdit(r)
    \/ CommitDisable(r) \/ CommitDisconnect(r)
    \/ CommitDelete(r) \/ CommitWithdraw(r) \/ CommitAsk(r)
    \/ CommitProof(r)

Next ==
    \/ \E r \in Requests : Step(r) \/ GiveUp(r)
    \/ \E r \in Requests, op \in Operations : Read(r, op)
    \/ \E call \in wire : Arrives(call)
    \/ Pause

Spec == Init /\ [][Next]_vars

-----------------------------------------------------------------------------
(* Properties.                                                             *)

TypeOK ==
    /\ row \in Rows
    /\ lock \in Requests \cup {NoRequest}
    /\ registry \subseteq ConnectionKeys
    /\ wire \subseteq Calls
    /\ made \subseteq ConnectionKeys
    /\ begun \in 0 .. MaxBegun
    /\ \A r \in Requests :
          /\ request[r].op \in Operations \cup {"none"}
          /\ request[r].read \in Rows
          /\ request[r].key \in ConnectionKeys \cup {NoKey}

\* The keys whose routes somebody will still remove: the row's, while it says
\* that it may have one, and those of the requests under way.
Remembered ==
    (IF row.exists /\ MayHaveRoute(row) THEN {row.key} ELSE {})
        \cup {request[r].key : r \in {o \in Requests :
                 request[o].op \in {"connect", "managed"}}}

\* No credentials stay behind unknown.  Connecting, disconnecting, deleting,
\* revising the employee and cleaning up again never leave a route in the
\* registry that the row does not lead to, unless a request overwrote a row
\* that had changed, an operator replaced the key or rewrote the connection,
\* or a provisioning was cut off before its commit.
NoForgottenRoute ==
    mishaps \subseteq {"unrecorded removal"} => registry \subseteq Remembered

\* A live channel has its route: customers reach it and it can answer.  The
\* exceptions are overwritten rows, removals cut off before their commit, and
\* an operator's PUT that rewrote the key or the state of a live channel
\* (which managed-connect refuses to do).  What a PUT does to a channel that
\* is not live is no exception.
LiveHasRoute ==
    (/\ mishaps \cap {"overtaken", "unrecorded removal", "rerouted"} = {}
     /\ row.exists /\ row.enabled)
    => \/ row.state = "connected" /\ row.key \in registry
       \/ \E r \in Requests :
             /\ request[r].op \in {"disconnect", "delete", "withdraw", "ask"}
             /\ request[r].done
=============================================================================
