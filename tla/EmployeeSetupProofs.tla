------------------------- MODULE EmployeeSetupProofs --------------------------
(***************************************************************************)
(* Proofs about setting an employee up, for every set of briefs, builds,   *)
(* routines, connected systems, requests and keys and every number of      *)
(* changes: what provisioning stores, runs and shows, and the routes of a  *)
(* managed channel.                                                        *)
(***************************************************************************)
EXTENDS ManagedChannels, EmployeeProvisioning, FiniteSetTheorems, TLAPS

-----------------------------------------------------------------------------
(* THE ROUTES OF A CHANNEL                                                 *)

-----------------------------------------------------------------------------
(* Requests and what they have read.                                       *)

Connecting == {"connect", "managed"}
Removing   == {"disconnect", "delete", "withdraw", "ask"}

\* The columns a request decides on.
Agree(c, d) ==
    c.exists = d.exists /\ c.enabled = d.enabled /\ Config(c) = Config(d)

\* Only the keys of connecting requests are on their way to the registry.
Wired ==
    \A call \in wire : call.kind = "provision" => call.key \in ConnectionKeys

\* A request has the key its call will name before it makes the call, and it
\* has made none before it has chosen.
Shape ==
    /\ registry \subseteq ConnectionKeys /\ NoKey \notin ConnectionKeys
    /\ Wired
    /\ DOMAIN request = Requests /\ DOMAIN row = DOMAIN Unread
    /\ \A r \in Requests :
          /\ DOMAIN request[r] = DOMAIN Ended
          /\ DOMAIN request[r].read = DOMAIN Unread
          /\ request[r] # Ended => request[r].read.exists
          /\ request[r].at \in {"lock", "key", "provision"}
               => ~request[r].done
          /\ request[r].op \in Connecting
               /\ request[r].at \notin {"lock", "key"} =>
                 /\ request[r].key \in ConnectionKeys
                 /\ request[r].op = "connect" /\ request[r].read.key # NoKey
                      => request[r].key = request[r].read.key

\* Whoever was not overtaken has read the row as it is.
FreshReads ==
    \A r \in Requests :
        request[r] # Ended /\ ~request[r].stale => Agree(request[r].read, row)

LEMMA ShapeInit == Init => Shape /\ FreshReads
  BY ManagedAssumption
     DEF Init, Shape, Wired, FreshReads, Ended, Unread, Connecting

\* Whether a commit writes to the row.
Writes(r, new, touched) ==
    \/ touched \/ Config(new) # Config(request[r].read)
    \/ new.enabled # request[r].read.enabled \/ ~new.exists

\* A commit leaves the row as it is, or outdates what the others have read; in
\* that case it overwrites what it has not read only as a recorded mishap.
LEMMA CommitEffect ==
    ASSUME Shape, FreshReads, NEW r \in Requests, NEW new, NEW touched,
           request[r] # Ended, Commit(r, new, touched)
    PROVE  /\ DOMAIN row' = DOMAIN Unread /\ mishaps \subseteq mishaps'
           /\ IF Writes(r, new, touched)
              THEN /\ Outdate(r) /\ Unlock(r)
                   /\ IF request[r].stale THEN "overtaken" \in mishaps'
                      ELSE Agree(row', new)
              ELSE /\ Close(r) /\ ~touched /\ Agree(row', row)
                   /\ request[r].stale /\ request[r].done
                        => "overtaken" \in mishaps'
<1>. DEFINE read == request[r].read
            config == touched \/ Config(new) # Config(read)
<1>0. DOMAIN row' = DOMAIN Unread /\ mishaps \subseteq mishaps'
  BY DEF Commit, Unread
<1>1. /\ row.exists
      /\ row'.exists = new.exists
      /\ row'.enabled = IF new.enabled # read.enabled THEN new.enabled
                                                     ELSE row.enabled
      /\ Config(row') = IF config THEN Config(new) ELSE Config(row)
  BY DEF Commit, Config
<1>2. IF Writes(r, new, touched) THEN Outdate(r) /\ Unlock(r) ELSE Close(r)
  BY DEF Commit, Writes
<1>3. CASE Writes(r, new, touched)
  <2>1. CASE request[r].stale
    BY <1>0, <1>2, <1>3, <2>1 DEF Commit, Writes
  <2>2. CASE ~request[r].stale
    <3>1. Agree(read, row)
      BY <2>2 DEF FreshReads
    <3>. QED
      BY <1>0, <1>1, <1>2, <1>3, <2>2, <3>1 DEF Agree, Writes
  <2>. QED
    BY <2>1, <2>2
<1>4. CASE ~Writes(r, new, touched)
  BY <1>0, <1>1, <1>2, <1>4 DEF Agree, Writes, Commit
<1>. QED
  BY <1>3, <1>4

\* Ending a request, with or without outdating the others.
LEMMA EndingKeepsShape ==
    ASSUME Shape, NEW r, Close(r) \/ Outdate(r),
           registry' = registry, wire' = wire,
           DOMAIN row' = DOMAIN Unread
    PROVE  Shape'
<1>1. \A o \in Requests : \/ request'[o] \in {request[o], Ended}
                          \/ /\ request[o] # Ended
                             /\ request'[o] = [request[o] EXCEPT
                                                  !.stale = TRUE]
  BY DEF Close, Outdate, Shape
<1>2. DOMAIN request' = Requests
  BY DEF Close, Outdate, Shape
<1>. QED
  BY <1>1, <1>2 DEF Shape, Ended, Unread, Connecting, Wired

LEMMA OutdateKeepsFresh == ASSUME NEW r, Outdate(r) PROVE FreshReads'
  BY DEF Outdate, FreshReads, Ended

LEMMA CloseKeepsFresh ==
    ASSUME Shape, FreshReads, NEW r, Close(r), Agree(row', row)
    PROVE  FreshReads'
  BY DEF Close, FreshReads, Shape, Agree

\* The commits, with the row each would leave and whether it writes the config
\* in any case.
Commits(r, new, touched) ==
    \/ At(r, {"connect"}, "write") /\ new = Connected(r) /\ touched = TRUE
    \/ /\ At(r, {"activate", "enable", "launch"}, "write")
       /\ new = [request[r].read EXCEPT !.enabled = TRUE] /\ touched = FALSE
    \/ /\ At(r, {"settings"}, "write")
       /\ new = request[r].read /\ touched = TRUE
    \/ /\ At(r, {"edit"}, "write") /\ touched = TRUE
       /\ \E state, key, cleanup :
             new = [request[r].read EXCEPT !.state = state, !.key = key,
                       !.cleanup = cleanup]
    \/ /\ At(r, {"disable"}, "write")
       /\ new = [request[r].read EXCEPT !.enabled = FALSE] /\ touched = FALSE
    \/ /\ At(r, {"disconnect"}, "write") /\ request[r].live
       /\ new = [request[r].read EXCEPT !.enabled = FALSE,
                   !.state = "cancelled", !.key = NoKey,
                   !.cleanup = "complete"]
       /\ touched = FALSE
    \/ /\ At(r, {"delete"}, "write") /\ request[r].live
       /\ new = [request[r].read EXCEPT !.exists = FALSE] /\ touched = FALSE
    \/ /\ At(r, {"withdraw"}, "write")
       /\ new = [request[r].read EXCEPT !.enabled = FALSE,
                   !.state = "cancelled",
                   !.cleanup = IF request[r].live THEN "complete"
                                                  ELSE "pending"]
       /\ touched = FALSE
    \/ /\ At(r, {"ask"}, "write")
       /\ new = IF request[r].read.state # "cancelled" THEN request[r].read
                ELSE [request[r].read EXCEPT !.enabled = FALSE,
                   !.state = IF request[r].live THEN "requested"
                                                ELSE "cancelled",
                   !.cleanup = IF ~request[r].live THEN "pending"
                               ELSE IF MayHaveRoute(request[r].read)
                               THEN "complete" ELSE @]
       /\ touched = FALSE
    \/ /\ At(r, {"send"}, "write")
       /\ new = [request[r].read EXCEPT !.verified = TRUE] /\ touched = TRUE

CommitStep(r) ==
    \E new, touched : Commits(r, new, touched) /\ Commit(r, new, touched)

Moves(r) == Lock(r) \/ ChooseKey(r) \/ Provision(r) \/ Check(r)
            \/ Blockers(r) \/ Remove(r)

\* The steps of a request: moves, commits, and the operator's new key.
LEMMA StepKinds ==
    ASSUME NEW r \in Requests, Step(r)
    PROVE  \/ Moves(r)
           \/ CommitStep(r) /\ UNCHANGED <<registry, wire>>
           \/ CommitManaged(r)
<1>1. CASE Lock(r) \/ ChooseKey(r) \/ Provision(r) \/ Check(r)
           \/ Blockers(r) \/ Remove(r) \/ CommitManaged(r)
  BY <1>1 DEF Moves
<1>2. CASE CommitConnect(r)
  BY <1>2 DEF CommitConnect, CommitStep, Commits
<1>3. CASE CommitLive(r)
  BY <1>3 DEF CommitLive, CommitStep, Commits
<1>4. CASE CommitSettings(r)
  BY <1>4 DEF CommitSettings, CommitStep, Commits
<1>11. CASE CommitEdit(r)
  <2>1. PICK typed \in Typed \cup {Config(request[r].read)} :
           Commit(r, [request[r].read EXCEPT !.state = typed.state,
                        !.key = typed.key, !.cleanup = typed.cleanup], TRUE)
    BY <1>11 DEF CommitEdit
  <2>. QED
    BY <1>11, <2>1 DEF CommitEdit, CommitStep, Commits
<1>5. CASE CommitDisable(r)
  BY <1>5 DEF CommitDisable, CommitStep, Commits
<1>6. CASE CommitDisconnect(r)
  BY <1>6 DEF CommitDisconnect, CommitStep, Commits
<1>7. CASE CommitDelete(r)
  BY <1>7 DEF CommitDelete, CommitStep, Commits
<1>8. CASE CommitWithdraw(r)
  BY <1>8 DEF CommitWithdraw, CommitStep, Commits
<1>9. CASE CommitAsk(r)
  BY <1>9 DEF CommitAsk, CommitStep, Commits
<1>10. CASE CommitProof(r)
  BY <1>10 DEF CommitProof, CommitStep, Commits
<1>. QED
  BY <1>1, <1>2, <1>3, <1>4, <1>5, <1>6, <1>7, <1>8, <1>9, <1>10, <1>11
     DEF Step

\* A request goes on: it keeps what it is and what it has read.
Moved(r, q) ==
    /\ request' = [request EXCEPT ![r] = q] /\ request[r] # Ended
    /\ DOMAIN q = DOMAIN Ended /\ q.op = request[r].op
    /\ q.read = request[r].read /\ q.stale = request[r].stale

LEMMA MovedKeepsShape ==
    ASSUME Shape, FreshReads, NEW r \in Requests, NEW q, Moved(r, q),
           UNCHANGED row, UNCHANGED wire \/ Wired',
           registry' \subseteq ConnectionKeys,
           q.at \in {"lock", "key", "provision"} => ~q.done,
           q.op \in Connecting /\ q.at \notin {"lock", "key"} =>
             /\ q.key \in ConnectionKeys
             /\ q.op = "connect" /\ q.read.key # NoKey => q.key = q.read.key
    PROVE  Shape' /\ FreshReads'
<1>1. \A o \in Requests : request'[o] = IF o = r THEN q ELSE request[o]
  BY DEF Moved, Shape
<1>2. DOMAIN request' = Requests
  BY DEF Moved, Shape
<1>3. Shape'
  BY <1>1, <1>2 DEF Shape, Moved, Wired
<1>4. FreshReads'
  BY <1>1 DEF FreshReads, Moved, Agree
<1>. QED
  BY <1>3, <1>4

-----------------------------------------------------------------------------
(* Whose key a route has.                                                  *)

\* A request that has made a route it has not yet recorded.
Holds(r, key) ==
    request[r].op \in Connecting /\ request[r].done /\ request[r].key = key

Held(key) == \E r \in Requests : Holds(r, key)

RowLeads(c, key) == c.exists /\ MayHaveRoute(c) /\ c.key = key

Accounted == mishaps \subseteq {"unrecorded removal"}

\* Every route is the row's or that of a request under way.
Known == \A key \in registry : RowLeads(row, key) \/ Held(key)

\* A removal that has been confirmed has removed the row's route.
Confirmed(r) ==
    /\ request[r].op \in Removing /\ request[r].at = "write"
    /\ request[r].live /\ ~request[r].stale
    /\ MustRemove(r)

Clean ==
    \A r \in Requests : Confirmed(r) => \A key \in registry : Held(key)

RouteInv == Shape /\ FreshReads /\ (Accounted => Known /\ Clean)

\* After a commit that outdates the other reads nobody is confirmed any more,
\* and what the others hold they still hold.
LEMMA OutdateHeld ==
    ASSUME Shape, NEW r, Outdate(r)
    PROVE  /\ \A o \in Requests : ~Confirmed(o)'
           /\ \A key : \A o \in Requests :
                 o # r /\ Holds(o, key) => Holds(o, key)'
  BY DEF Outdate, Shape, Confirmed, Holds, Ended, Removing

LEMMA CloseHeld ==
    ASSUME Shape, NEW r, Close(r)
    PROVE  /\ \A o \in Requests : Confirmed(o)' => Confirmed(o)
           /\ \A key : \A o \in Requests :
                 o # r /\ Holds(o, key) => Holds(o, key)'
  BY DEF Close, Shape, Confirmed, Holds, Ended, Removing, MustRemove

LEMMA MovedHeld ==
    ASSUME Shape, NEW r \in Requests, NEW q, Moved(r, q)
    PROVE  /\ \A o \in Requests : o # r => (Confirmed(o)' <=> Confirmed(o))
           /\ \A key : \A o \in Requests :
                 o # r => (Holds(o, key)' <=> Holds(o, key))
           /\ \A key : Holds(r, key)' <=>
                 q.op \in Connecting /\ q.done /\ q.key = key
  BY DEF Moved, Shape, Confirmed, Holds, MustRemove

-----------------------------------------------------------------------------
(* The moves of a request.                                                 *)

LEMMA MovedKeeps ==
    ASSUME RouteInv, NEW r \in Requests, NEW q, Moved(r, q),
           UNCHANGED <<row, mishaps>>, UNCHANGED wire \/ Wired',
           registry' \subseteq ConnectionKeys,
           q.at \in {"lock", "key", "provision"} => ~q.done,
           q.op \in Connecting /\ q.at \notin {"lock", "key"} =>
             /\ q.key \in ConnectionKeys
             /\ q.op = "connect" /\ q.read.key # NoKey => q.key = q.read.key,
           q.op \in Connecting /\ request[r].done =>
             q.done /\ q.key = request[r].key,
           \A key \in registry' :
             \/ key \in registry
             \/ q.op \in Connecting /\ q.done /\ q.key = key,
           Confirmed(r)' /\ Accounted =>
             \A key \in registry' : key \in registry /\ Held(key)
    PROVE  RouteInv'
<1>1. Shape' /\ FreshReads'
  BY MovedKeepsShape DEF RouteInv
<1>2. /\ \A o \in Requests : o # r => (Confirmed(o)' <=> Confirmed(o))
      /\ \A key : Held(key) => Held(key)'
      /\ \A key : q.op \in Connecting /\ q.done /\ q.key = key => Held(key)'
  <2>1. \A key : Holds(r, key) => Holds(r, key)'
    BY MovedHeld DEF RouteInv, Holds, Moved
  <2>. QED
    BY <2>1, MovedHeld DEF RouteInv, Held
<1>3. ASSUME Accounted PROVE Known' /\ Clean'
  <2>1. Known'
    BY <1>2, <1>3 DEF RouteInv, Known, RowLeads, MayHaveRoute
  <2>2. Clean'
    BY <1>2, <1>3 DEF RouteInv, Clean
  <2>. QED
    BY <2>1, <2>2
<1>4. Accounted' <=> Accounted
  BY DEF Accounted
<1>. QED
  BY <1>1, <1>3, <1>4 DEF RouteInv

\* The guard that all moves have.
LEMMA Begun ==
    ASSUME NEW r, NEW ops, NEW where, At(r, ops, where), where # "idle"
    PROVE  request[r] # Ended
  BY DEF At, Ended

LEMMA LockTo ==
    ASSUME NEW r \in Requests, Lock(r)
    PROVE  \E l \in {"key", "blockers", "remove", "write"} :
               /\ request' = [request EXCEPT ![r].at = l]
               /\ (l = "key" => request[r].op = "connect")
               /\ (l = "write" => request[r].op = "settings")
               /\ (request[r].op \in Connecting => l = "key")
<1>1. request[r].op \in {"connect", "activate", "disconnect", "settings"}
  BY DEF Lock, At, Customer
<1>2. CASE request[r].op = "connect"
  BY <1>2 DEF Lock, Goto
<1>3. CASE request[r].op = "activate"
  BY <1>3 DEF Lock, Goto, Connecting
<1>4. CASE request[r].op = "disconnect"
  BY <1>4 DEF Lock, Goto, Connecting
<1>5. CASE request[r].op = "settings"
  BY <1>5 DEF Lock, Goto, Connecting
<1>. QED
  BY <1>1, <1>2, <1>3, <1>4, <1>5

LEMMA LockKeeps ==
    ASSUME RouteInv, NEW r \in Requests, Lock(r) PROVE RouteInv'
<1>1. PICK l \in {"key", "blockers", "remove", "write"} :
               /\ request' = [request EXCEPT ![r].at = l]
               /\ (l = "key" => request[r].op = "connect")
               /\ (l = "write" => request[r].op \notin Removing)
               /\ (request[r].op \in Connecting => l = "key")
  BY LockTo DEF Removing
<1>. DEFINE q == [request[r] EXCEPT !.at = l]
<1>2. Moved(r, q)
  BY <1>1, Begun DEF Lock, RouteInv, Shape, Moved, Ended
<1>3. ~Confirmed(r)'
  BY <1>1 DEF RouteInv, Shape, Confirmed, Ended
<1>4. UNCHANGED <<row, wire, mishaps, registry>> /\ q.key = request[r].key
      /\ ~q.done /\ q.done = request[r].done /\ q.op = request[r].op
      /\ q.op # "managed"
  BY <1>1 DEF Lock, RouteInv, Shape, Ended, At, Customer
<1>5. q.at = l
  BY DEF RouteInv, Shape, Ended
<1>. QED
  BY <1>1, <1>2, <1>3, <1>4, <1>5, MovedKeeps
     DEF RouteInv, Shape, Connecting

LEMMA ChooseKeyKeeps ==
    ASSUME RouteInv, NEW r \in Requests, ChooseKey(r) PROVE RouteInv'
<1>1. PICK key \in ConnectionKeys, l \in {"provision", "check"} :
          /\ request' = [request EXCEPT ![r].key = key, ![r].at = l]
          /\ request[r].op = "connect" /\ request[r].read.key # NoKey
               => key = request[r].read.key
  BY DEF ChooseKey
<1>. DEFINE q == [request[r] EXCEPT !.key = key, !.at = l]
<1>2. Moved(r, q)
  BY <1>1, Begun DEF ChooseKey, RouteInv, Shape, Moved, Ended
<1>3. ~Confirmed(r)'
  BY <1>1 DEF RouteInv, Shape, Confirmed, Ended
<1>4. UNCHANGED <<row, wire, mishaps, registry>> /\ q.key = key /\ q.at = l
      /\ ~q.done /\ ~request[r].done /\ q.op = request[r].op
      /\ q.read = request[r].read
  BY <1>1 DEF ChooseKey, RouteInv, Shape, Ended, At
<1>. QED
  BY <1>1, <1>2, <1>3, <1>4, MovedKeeps DEF RouteInv, Shape

LEMMA CheckKeeps ==
    ASSUME RouteInv, NEW r \in Requests, Check(r) PROVE RouteInv'
<1>1. PICK l \in {"blockers", "write"} :
          request' = [request EXCEPT ![r].at = l]
  BY DEF Check, Goto
<1>. DEFINE q == [request[r] EXCEPT !.at = l]
<1>2. Moved(r, q)
  BY <1>1, Begun DEF Check, RouteInv, Shape, Moved, Ended
<1>3. ~Confirmed(r)'
  BY <1>1 DEF RouteInv, Shape, Confirmed, Ended, Check, At, Removing
<1>4. UNCHANGED <<row, wire, mishaps, registry>> /\ q.key = request[r].key
      /\ q.done = request[r].done /\ q.op = request[r].op /\ q.at = l
      /\ q.read = request[r].read /\ request[r].at = "check"
  BY <1>1 DEF Check, RouteInv, Shape, Ended, At
<1>. QED
  BY <1>1, <1>2, <1>3, <1>4, MovedKeeps DEF RouteInv, Shape

LEMMA BlockersKeeps ==
    ASSUME RouteInv, NEW r \in Requests, Blockers(r) PROVE RouteInv'
<1>1. PICK goes : request' = [request EXCEPT ![r].at = "write",
                                             ![r].live = goes]
  BY DEF Blockers
<1>. DEFINE q == [request[r] EXCEPT !.at = "write", !.live = goes]
<1>2. Moved(r, q)
  BY <1>1, Begun DEF Blockers, RouteInv, Shape, Moved, Ended
<1>3. ~Confirmed(r)'
  BY <1>1 DEF RouteInv, Shape, Confirmed, Ended, Blockers, At, Removing
<1>4. UNCHANGED <<row, wire, mishaps, registry>> /\ q.key = request[r].key
      /\ q.done = request[r].done /\ q.op = request[r].op /\ q.at = "write"
      /\ q.read = request[r].read /\ request[r].at = "blockers"
  BY <1>1 DEF Blockers, RouteInv, Shape, Ended, At
<1>. QED
  BY <1>1, <1>2, <1>3, <1>4, MovedKeeps DEF RouteInv, Shape

\* A request ends and leaves the row as it is.
LEMMA CloseKeeps ==
    ASSUME RouteInv, NEW r \in Requests, Close(r),
           UNCHANGED <<registry, wire>>, mishaps \subseteq mishaps',
           DOMAIN row' = DOMAIN Unread, Agree(row', row),
           Accounted' => ~(request[r].op \in Connecting /\ request[r].done)
    PROVE  RouteInv'
<1>1. Shape' /\ FreshReads'
  BY EndingKeepsShape, CloseKeepsFresh DEF RouteInv
<1>2. ASSUME Accounted' PROVE Known' /\ Clean'
  <2>1. Accounted
    BY <1>2 DEF Accounted
  <2>2. \A key : Held(key) => Held(key)'
    BY <1>2, CloseHeld DEF RouteInv, Held, Holds
  <2>3. \A key : RowLeads(row, key) => RowLeads(row', key)
    BY DEF RowLeads, MayHaveRoute, Agree, Config
  <2>4. Known'
    BY <2>1, <2>2, <2>3 DEF RouteInv, Known
  <2>5. Clean'
    BY <2>1, <2>2, CloseHeld DEF RouteInv, Clean
  <2>. QED
    BY <2>4, <2>5
<1>. QED
  BY <1>1, <1>2 DEF RouteInv

LEMMA GiveUpKeeps ==
    ASSUME RouteInv, NEW r \in Requests, GiveUp(r) PROVE RouteInv'
<1>1. /\ Close(r) /\ UNCHANGED <<row, registry, wire>>
      /\ mishaps \subseteq mishaps'
  BY DEF GiveUp
<1>2. Agree(row', row) /\ DOMAIN row' = DOMAIN Unread
  BY <1>1 DEF Agree, RouteInv, Shape
<1>3. Accounted' => ~(request[r].op \in Connecting /\ request[r].done)
  BY DEF GiveUp, Accounted, Connecting
<1>. QED
  BY <1>1, <1>2, <1>3, CloseKeeps

LEMMA ProvisionKeeps ==
    ASSUME RouteInv, NEW r \in Requests, Provision(r) PROVE RouteInv'
<1>1. UNCHANGED <<row, mishaps>> /\ request[r].at = "provision"
      /\ request[r].op \in Connecting
  BY DEF Provision, At, Connecting
<1>2. ~request[r].done /\ request[r].key \in ConnectionKeys
  BY <1>1 DEF RouteInv, Shape
<1>3. CASE /\ registry' = registry \cup {request[r].key}
           /\ request' = [request EXCEPT ![r].at = "check", ![r].done = TRUE]
           /\ UNCHANGED <<wire, lock>>
  <2>. DEFINE q == [request[r] EXCEPT !.at = "check", !.done = TRUE]
  <2>1. Moved(r, q)
    BY <1>1, <1>3 DEF RouteInv, Shape, Moved, Ended
  <2>2. ~Confirmed(r)'
    BY <1>3 DEF RouteInv, Shape, Confirmed, Ended
  <2>3. q.key = request[r].key /\ q.done /\ q.op = request[r].op
        /\ q.at = "check" /\ q.read = request[r].read
    BY DEF RouteInv, Shape, Ended
  <2>4. registry' \subseteq ConnectionKeys
        /\ (q.op = "connect" /\ q.read.key # NoKey => q.key = q.read.key)
    BY <1>1, <1>2, <1>3, <2>3 DEF RouteInv, Shape
  <2>. HIDE DEF q
  <2>. QED
    BY <1>1, <1>2, <1>3, <2>1, <2>2, <2>3, <2>4, MovedKeeps
<1>4. CASE /\ wire' = wire \cup {[kind |-> "provision",
                                  key |-> request[r].key]}
           /\ Close(r)
           /\ UNCHANGED registry
  <2>1. Shape'
    <3>1. \A o \in Requests : request'[o] \in {request[o], Ended}
      BY <1>4 DEF Close, RouteInv, Shape
    <3>2. DOMAIN request' = Requests
      BY <1>4 DEF Close, RouteInv, Shape
    <3>3. Wired'
      BY <1>2, <1>4 DEF RouteInv, Shape, Wired
    <3>. QED
      BY <1>1, <1>4, <3>1, <3>2, <3>3
         DEF RouteInv, Shape, Ended, Unread, Connecting
  <2>2. FreshReads'
    BY <1>1, <1>4, CloseKeepsFresh DEF RouteInv, Agree
  <2>3. ASSUME Accounted PROVE Known' /\ Clean'
    <3>1. \A key : Held(key) => Held(key)'
      BY <1>2, <1>4, CloseHeld DEF RouteInv, Held, Holds
    <3>2. Known'
      BY <1>1, <1>4, <2>3, <3>1 DEF RouteInv, Known
    <3>3. Clean'
      BY <1>4, <2>3, <3>1, CloseHeld DEF RouteInv, Clean
    <3>. QED
      BY <3>2, <3>3
  <2>. QED
    BY <1>1, <2>1, <2>2, <2>3 DEF RouteInv, Accounted
<1>. QED
  BY <1>3, <1>4 DEF Provision

\* A confirmed removal leaves no route but those of requests under way.
LEMMA RemoveKeeps ==
    ASSUME RouteInv, NEW r \in Requests, Remove(r) PROVE RouteInv'
<1>1. UNCHANGED <<row, mishaps>> /\ request[r].at = "remove"
      /\ request[r].op \in Removing /\ request[r] # Ended
      /\ request[r].op \notin Connecting
  BY Begun DEF Remove, At, Removing, Ended, Connecting
<1>2. PICK goes, did :
         /\ request' = [request EXCEPT ![r].at = "write", ![r].live = goes,
                                       ![r].done = did]
         /\ registry' \subseteq registry
         /\ goes /\ MustRemove(r) =>
               registry' = registry \ {request[r].read.key}
  BY DEF Remove
<1>. DEFINE q == [request[r] EXCEPT !.at = "write", !.live = goes,
                                    !.done = did]
<1>3. Moved(r, q)
  BY <1>1, <1>2 DEF RouteInv, Shape, Moved, Ended
<1>4. q.at = "write" /\ q.op = request[r].op /\ q.read = request[r].read
      /\ q.stale = request[r].stale /\ q.live = goes
  BY <1>1 DEF RouteInv, Shape, Ended
<1>5. UNCHANGED wire \/ Wired'
  <2>. DEFINE call == [kind |-> "remove", key |-> request[r].read.key]
  <2>1. wire' = wire \/ wire' = wire \cup {call}
    BY DEF Remove
  <2>2. call.kind # "provision"
    OBVIOUS
  <2>. HIDE DEF call
  <2>. QED
    BY <2>1, <2>2 DEF RouteInv, Shape, Wired
<1>6. ASSUME Confirmed(r)', Accounted
      PROVE  \A key \in registry' : key \in registry /\ Held(key)
  <2>1. goes /\ MustRemove(r) /\ ~request[r].stale
    BY <1>2, <1>4, <1>6 DEF Confirmed, MustRemove, RouteInv, Shape
  <2>2. Agree(request[r].read, row)
    BY <1>1, <2>1 DEF RouteInv, FreshReads
  <2>3. registry' = registry \ {row.key}
    BY <1>2, <2>1, <2>2 DEF Agree, Config
  <2>. QED
    BY <1>6, <2>3 DEF RouteInv, Known, RowLeads
<1>7. registry' \subseteq ConnectionKeys /\ q.op \notin Connecting
  BY <1>1, <1>2, <1>4 DEF RouteInv, Shape
<1>. HIDE DEF q
<1>. QED
  BY <1>1, <1>2, <1>3, <1>4, <1>5, <1>6, <1>7, MovedKeeps

-----------------------------------------------------------------------------
(* Requests that begin, commit and call; the calls that arrive late.       *)

LEMMA ReadKeeps ==
    ASSUME RouteInv, NEW r \in Requests, NEW op, Read(r, op)
    PROVE  RouteInv'
<1>1. PICK at : /\ request' = [request EXCEPT ![r] =
                     [Ended EXCEPT !.op = op, !.read = row, !.at = at]]
                /\ (at = "write" => op \notin Removing)
                /\ (op \in Connecting => at \in {"lock", "key"})
  <2>1. CASE op \in Customer
    BY <2>1 DEF Read, Customer
  <2>2. CASE op \in {"delete", "withdraw", "ask"}
    <3>1. request' = [request EXCEPT ![r] =
             [Ended EXCEPT !.op = op, !.read = row, !.at = "remove"]]
      BY <2>2 DEF Read, Customer
    <3>2. op \notin Connecting
      BY <2>2 DEF Connecting
    <3>. WITNESS "remove"
    <3>. QED
      BY <3>1, <3>2
  <2>3. CASE op = "managed"
    BY <2>3 DEF Read, Customer
  <2>4. CASE op \notin Customer \cup {"delete", "withdraw", "ask", "managed"}
    BY <2>4 DEF Read, Customer, Removing, Connecting
  <2>. QED
    BY <2>1, <2>2, <2>3, <2>4
<1>. DEFINE q == [Ended EXCEPT !.op = op, !.read = row, !.at = at]
<1>2. /\ DOMAIN q = DOMAIN Ended /\ q.op = op /\ q.read = row /\ q.at = at
      /\ q.done = FALSE
  BY DEF Ended
<1>. HIDE DEF q
<1>3. \A o \in Requests : request'[o] = IF o = r THEN q ELSE request[o]
  BY <1>1 DEF RouteInv, Shape, q
<1>4. UNCHANGED <<row, registry, wire, mishaps>> /\ row.exists
      /\ request[r] = Ended /\ DOMAIN request' = Requests
  BY <1>1 DEF Read, RouteInv, Shape
<1>5. Shape'
  BY <1>1, <1>2, <1>3, <1>4 DEF RouteInv, Shape, Wired
<1>6. FreshReads'
  BY <1>2, <1>3, <1>4 DEF RouteInv, FreshReads, Agree
<1>7. ASSUME Accounted PROVE Known' /\ Clean'
  <2>1. \A key : Held(key) => Held(key)'
    BY <1>3, <1>4 DEF Held, Holds, Ended
  <2>2. Known'
    BY <1>4, <1>7, <2>1 DEF RouteInv, Known
  <2>3. \A o \in Requests : Confirmed(o)' => o # r /\ Confirmed(o)
    BY <1>1, <1>2, <1>3 DEF Confirmed, MustRemove
  <2>4. Clean'
    BY <1>4, <1>7, <2>1, <2>3 DEF RouteInv, Clean
  <2>. QED
    BY <2>2, <2>4
<1>. QED
  BY <1>4, <1>5, <1>6, <1>7 DEF RouteInv, Accounted

LEMMA ArrivesKeeps ==
    ASSUME RouteInv, NEW call \in wire, Arrives(call) PROVE RouteInv'
<1>1. UNCHANGED <<row, request>> /\ wire' \subseteq wire
      /\ mishaps \subseteq mishaps'
  BY DEF Arrives
<1>2. registry' \subseteq ConnectionKeys
  BY DEF Arrives, RouteInv, Shape, Wired
<1>3. Shape' /\ FreshReads'
  BY <1>1, <1>2 DEF RouteInv, Shape, FreshReads, Wired
<1>4. ASSUME Accounted' PROVE Accounted /\ registry' \subseteq registry
  BY <1>1, <1>4 DEF Accounted, Arrives
<1>5. \A key : Held(key) => Held(key)'
  BY <1>1 DEF Held, Holds
<1>6. \A o \in Requests : Confirmed(o)' <=> Confirmed(o)
  BY <1>1 DEF Confirmed, MustRemove
<1>. QED
  BY <1>1, <1>3, <1>4, <1>5, <1>6 DEF RouteInv, Known, Clean

LEMMA PauseKeeps == ASSUME RouteInv, Pause PROVE RouteInv'
<1>1. UNCHANGED <<registry, wire, mishaps>> /\ Outdate(NoRequest)
  BY DEF Pause
<1>2. /\ DOMAIN row' = DOMAIN Unread
      /\ row'.exists = row.exists /\ Config(row') = Config(row)
  BY DEF Pause, RouteInv, Shape, Config, Unread
<1>3. Shape' /\ FreshReads'
  BY <1>1, <1>2, EndingKeepsShape, OutdateKeepsFresh DEF RouteInv
<1>4. \A key : Held(key) => Held(key)'
  BY <1>1, OutdateHeld, ManagedAssumption DEF RouteInv, Held
<1>5. \A key : RowLeads(row, key) => RowLeads(row', key)
  BY <1>2 DEF RowLeads, MayHaveRoute, Config
<1>6. \A o \in Requests : ~Confirmed(o)'
  BY <1>1, OutdateHeld DEF RouteInv
<1>. QED
  BY <1>1, <1>3, <1>4, <1>5, <1>6 DEF RouteInv, Known, Clean, Accounted

\* A commit that outdates the other reads, if its row leads to the routes that
\* no other request holds.
LEMMA OutdatingKeeps ==
    ASSUME RouteInv, NEW r \in Requests, Outdate(r),
           UNCHANGED <<registry, wire>>, mishaps \subseteq mishaps',
           DOMAIN row' = DOMAIN Unread,
           Accounted' => \A key \in registry :
              RowLeads(row', key) \/ \E o \in Requests \ {r} : Holds(o, key)
    PROVE  RouteInv'
<1>1. Shape' /\ FreshReads'
  BY EndingKeepsShape, OutdateKeepsFresh DEF RouteInv
<1>2. /\ \A o \in Requests : ~Confirmed(o)'
      /\ \A key : \A o \in Requests \ {r} : Holds(o, key) => Held(key)'
  BY OutdateHeld DEF RouteInv, Held
<1>. QED
  BY <1>1, <1>2 DEF RouteInv, Known, Clean

\* What a request that was not overtaken would commit leads to every route
\* that no other request holds.
LEMMA CommitLeads ==
    ASSUME RouteInv, Accounted, NEW r \in Requests, ~request[r].stale,
           request[r] # Ended, NEW new, NEW touched, Commits(r, new, touched),
           "rewritten" \notin Rewriting(r, new), NEW key \in registry
    PROVE  RowLeads(new, key) \/ \E o \in Requests \ {r} : Holds(o, key)
<1>. DEFINE read == request[r].read
<1>0. DOMAIN read = DOMAIN Unread /\ read.exists
  BY DEF RouteInv, Shape
<1>1. Agree(read, row)
  BY DEF RouteInv, FreshReads
<1>2. RowLeads(read, key) \/ Held(key)
  BY <1>1 DEF RouteInv, Known, RowLeads, Agree, MayHaveRoute, Config
<1>3. CASE At(r, {"connect"}, "write") /\ new = Connected(r)
  <2>1. /\ request[r].key \in ConnectionKeys
        /\ read.key # NoKey => request[r].key = read.key
    BY <1>3 DEF RouteInv, Shape, At, Connecting
  <2>2. RowLeads(new, request[r].key)
    BY <1>0, <1>3 DEF Connected, RowLeads, MayHaveRoute, Unread
  <2>3. key \in ConnectionKeys
    BY DEF RouteInv, Shape
  <2>4. CASE RowLeads(read, key)
    BY <2>1, <2>2, <2>3, <2>4, ManagedAssumption DEF RowLeads
  <2>5. CASE Held(key)
    BY <2>2, <2>5 DEF Held, Holds
  <2>. QED
    BY <1>2, <2>4, <2>5
<1>4. CASE request[r].op \notin Connecting
  <2>1. ~Holds(r, key)
    BY <1>4 DEF Holds
  <2>2. RowLeads(read, key) \/ \E o \in Requests \ {r} : Holds(o, key)
    BY <1>2, <2>1 DEF Held
  <2>3. CASE /\ request[r].op \in Removing /\ request[r].at = "write"
             /\ request[r].live /\ MustRemove(r)
    <3>1. Confirmed(r)
      BY <2>3 DEF Confirmed
    <3>. QED
      BY <2>1, <3>1 DEF RouteInv, Clean, Held
  <2>4. CASE /\ request[r].op \in Removing \ {"ask"}
             /\ request[r].live /\ ~MustRemove(r)
    <3>1. ~RowLeads(read, key)
      BY <2>4 DEF MustRemove, RowLeads
    <3>. QED
      BY <2>2, <3>1
  <2>5. CASE Config(new) = Config(read) /\ new.exists = read.exists
    BY <2>2, <2>5 DEF RowLeads, Config, MayHaveRoute
  <2>6. CASE /\ new.exists = read.exists /\ new.key = read.key
             /\ new.cleanup = "pending"
    BY <2>2, <2>6 DEF RowLeads, MayHaveRoute
  <2>7. CASE At(r, {"ask"}, "write") /\ ~MustRemove(r)
             /\ request[r].read.state = "cancelled"
    <3>1. ~RowLeads(read, key)
      BY <2>7 DEF MustRemove, RowLeads, At
    <3>. QED
      BY <2>2, <3>1
  <2>8. \/ At(r, {"disconnect", "delete", "withdraw", "ask"}, "write")
        \/ Config(new) = Config(read) /\ new.exists = read.exists
    <3>1. CASE At(r, {"edit"}, "write")
      <4>1. Config(new) = Config(read)
        BY <3>1 DEF Rewriting, At
      <4>2. new.exists = read.exists
        BY <1>0, <3>1 DEF Commits, Unread, At
      <4>. QED
        BY <4>1, <4>2
    <3>2. CASE ~At(r, {"edit"}, "write")
      BY <1>0, <1>4, <3>2 DEF Commits, Config, Unread, At, Connecting
    <3>. QED
      BY <3>1, <3>2
  <2>9. CASE At(r, {"disconnect", "delete"}, "write")
    <3>1. request[r].live /\ request[r].op \in Removing \ {"ask"}
          /\ request[r].at = "write"
      BY <2>9 DEF Commits, At, Removing
    <3>. QED
      BY <2>3, <2>4, <3>1
  <2>10. CASE At(r, {"withdraw"}, "write")
    <3>1. CASE request[r].live
      <4>1. request[r].op \in Removing \ {"ask"} /\ request[r].at = "write"
        BY <2>10 DEF At, Removing
      <4>. QED
        BY <2>3, <2>4, <3>1, <4>1
    <3>2. CASE ~request[r].live
      <4>1. new.exists = read.exists /\ new.key = read.key
            /\ new.cleanup = "pending"
        BY <1>0, <2>10, <3>2 DEF Commits, At, Unread
      <4>. QED
        BY <2>6, <4>1
    <3>. QED
      BY <3>1, <3>2
  <2>11. CASE At(r, {"ask"}, "write")
    <3>0. request[r].op \in Removing /\ request[r].at = "write"
      BY <2>11 DEF At, Removing
    <3>1. CASE read.state # "cancelled"
      <4>1. new = read
        BY <2>11, <3>1 DEF Commits, At
      <4>. QED
        BY <2>5, <4>1
    <3>2. CASE read.state = "cancelled" /\ ~request[r].live
      <4>1. new.exists = read.exists /\ new.key = read.key
            /\ new.cleanup = "pending"
        BY <1>0, <2>11, <3>2 DEF Commits, At, Unread
      <4>. QED
        BY <2>6, <4>1
    <3>3. CASE read.state = "cancelled" /\ request[r].live
      BY <2>3, <2>7, <2>11, <3>0, <3>3
    <3>. QED
      BY <3>1, <3>2, <3>3
  <2>12. At(r, {"disconnect", "delete", "withdraw", "ask"}, "write")
           => \/ At(r, {"disconnect", "delete"}, "write")
              \/ At(r, {"withdraw"}, "write") \/ At(r, {"ask"}, "write")
    BY DEF At
  <2>. QED
    BY <2>5, <2>8, <2>9, <2>10, <2>11, <2>12
<1>. QED
  BY <1>3, <1>4 DEF Commits, At, Connecting

LEMMA CommitKeeps ==
    ASSUME RouteInv, NEW r \in Requests, CommitStep(r),
           UNCHANGED <<registry, wire>>
    PROVE  RouteInv'
<1>1. PICK new, touched : Commits(r, new, touched) /\ Commit(r, new, touched)
  BY DEF CommitStep
<1>2. request[r] # Ended
  <2>1. request[r].at = "write"
    BY <1>1 DEF Commits, At
  <2>. QED
    BY <2>1 DEF Ended
<1>3. /\ DOMAIN row' = DOMAIN Unread
      /\ \/ ~touched /\ Agree(row', row) /\ Close(r)
         \/ /\ Outdate(r)
            /\ IF request[r].stale THEN "overtaken" \in mishaps'
               ELSE Agree(row', new)
  BY <1>1, <1>2, CommitEffect DEF RouteInv
<1>4. mishaps \subseteq mishaps'
  BY <1>1 DEF Commit
<1>5. CASE ~touched /\ Agree(row', row) /\ Close(r)
  <2>1. request[r].op \notin Connecting
    BY <1>1, <1>5 DEF Commits, At, Connecting
  <2>. QED
    BY <1>3, <1>4, <1>5, <2>1, CloseKeeps
<1>6. CASE /\ Outdate(r)
           /\ IF request[r].stale THEN "overtaken" \in mishaps'
              ELSE Agree(row', new)
  <2>1. ASSUME Accounted', NEW key \in registry
        PROVE  RowLeads(row', key) \/ \E o \in Requests \ {r} : Holds(o, key)
    <3>1. ~request[r].stale /\ Agree(row', new) /\ Accounted
      BY <1>4, <1>6, <2>1 DEF Accounted
    <3>3. "rewritten" \notin Rewriting(r, new)
      BY <1>1, <2>1 DEF Commit, Accounted
    <3>2. RowLeads(new, key) => RowLeads(row', key)
      BY <3>1 DEF RowLeads, Agree, MayHaveRoute, Config
    <3>. QED
      BY <1>1, <1>2, <3>1, <3>2, <3>3, CommitLeads
  <2>. QED
    BY <1>3, <1>4, <1>6, <2>1, OutdatingKeeps
<1>. QED
  BY <1>3, <1>5, <1>6

LEMMA ManagedKeeps ==
    ASSUME RouteInv, NEW r \in Requests, CommitManaged(r) PROVE RouteInv'
<1>1. /\ Outdate(r) /\ UNCHANGED <<registry, wire>>
      /\ mishaps \subseteq mishaps' /\ row' = Connected(r)
  BY DEF CommitManaged
<1>2. /\ request[r].read.exists
      /\ DOMAIN request[r].read = DOMAIN Unread
  BY Begun DEF CommitManaged, RouteInv, Shape
<1>3. DOMAIN row' = DOMAIN Unread /\ RowLeads(row', request[r].key)
  BY <1>1, <1>2 DEF Connected, RowLeads, MayHaveRoute, Unread
<1>4. ASSUME Accounted', NEW key \in registry
      PROVE  RowLeads(row', key) \/ \E o \in Requests \ {r} : Holds(o, key)
  <2>1. RowLeads(row, key) \/ Held(key)
    BY <1>1, <1>4 DEF RouteInv, Known, Accounted
  <2>2. RowLeads(row, key) => key = request[r].key
    BY <1>4 DEF CommitManaged, Accounted, RowLeads
  <2>. QED
    BY <1>3, <2>1, <2>2 DEF Held, Holds
<1>. QED
  BY <1>1, <1>3, <1>4, OutdatingKeeps

-----------------------------------------------------------------------------
(* The theorem.                                                            *)

LEMMA RouteStep == RouteInv /\ [Next]_vars => RouteInv'
<1>. SUFFICES ASSUME RouteInv, [Next]_vars PROVE RouteInv'
  OBVIOUS
<1>1. ASSUME NEW r \in Requests, Step(r) PROVE RouteInv'
  <2>1. CASE Moves(r)
    BY <2>1, LockKeeps, ChooseKeyKeeps, ProvisionKeeps, CheckKeeps,
       BlockersKeeps, RemoveKeeps DEF Moves
  <2>2. CASE CommitStep(r) /\ UNCHANGED <<registry, wire>>
    BY <2>2, CommitKeeps
  <2>3. CASE CommitManaged(r)
    BY <2>3, ManagedKeeps
  <2>. QED
    BY <1>1, <2>1, <2>2, <2>3, StepKinds
<1>2. ASSUME NEW r \in Requests, GiveUp(r) PROVE RouteInv'
  BY <1>2, GiveUpKeeps
<1>3. ASSUME NEW r \in Requests, NEW op, Read(r, op) PROVE RouteInv'
  BY <1>3, ReadKeeps
<1>4. ASSUME NEW call \in wire, Arrives(call) PROVE RouteInv'
  BY <1>4, ArrivesKeeps
<1>5. CASE Pause
  BY <1>5, PauseKeeps
<1>6. CASE UNCHANGED vars
  <2>1. UNCHANGED <<row, registry, wire, request, mishaps>>
    BY <1>6 DEF vars
  <2>2. Shape' /\ FreshReads'
    BY <2>1 DEF RouteInv, Shape, FreshReads, Wired
  <2>3. /\ Accounted' <=> Accounted
        /\ \A key : Held(key)' <=> Held(key)
        /\ \A r \in Requests : Confirmed(r)' <=> Confirmed(r)
    BY <2>1 DEF Accounted, Held, Holds, Confirmed, MustRemove
  <2>. QED
    BY <2>1, <2>2, <2>3 DEF RouteInv, Known, Clean
<1>. QED
  BY <1>1, <1>2, <1>3, <1>4, <1>5, <1>6 DEF Next

\* No credentials stay behind unknown (NoForgottenRoute): whatever requests
\* overlap, time out, die or are carried out late, every route of the registry
\* is the row's or that of a request under way, unless a request overwrote a
\* row that had changed, an operator replaced the key or rewrote the
\* connection, or a provisioning was cut off before its commit.
THEOREM EveryRouteIsRemembered == Spec => []NoForgottenRoute
<1>1. Init => RouteInv
  <2>1. Init => Known /\ Clean
    BY DEF Init, Known, Clean
  <2>. QED
    BY <2>1, ShapeInit DEF RouteInv
<1>2. RouteInv => NoForgottenRoute
  <2>1. \A key : Held(key) => key \in Remembered
    BY DEF Held, Holds, Remembered, Connecting
  <2>2. \A key : RowLeads(row, key) => key \in Remembered
    BY DEF RowLeads, Remembered
  <2>. QED
    BY <2>1, <2>2 DEF RouteInv, Known, Accounted, NoForgottenRoute
<1>. QED
  BY <1>1, <1>2, RouteStep, PTL DEF Spec

-----------------------------------------------------------------------------
(* A live channel has its route.                                           *)

\* A request that has removed a route.
Taken(r) == request[r].op \in Removing /\ request[r].done

Gone == \E r \in Requests : Taken(r)

\* A request about to put the channel live.
GoesLive(r) ==
    /\ request[r].op \in {"connect", "activate", "enable", "launch"}
    /\ request[r].live

Sound == mishaps \cap {"overtaken", "unrecorded removal", "rerouted"} = {}

\* What a request's progress says of what it read; a connecting customer holds
\* the row lock from its locking read on.
Marks ==
    \A r \in Requests :
        /\ request[r].op = "managed" => ~request[r].live
        /\ Taken(r) => request[r].at = "write" /\ MustRemove(r)
        /\ GoesLive(r) => /\ request[r].at = "write"
                          /\ \/ request[r].op = "connect"
                             \/ request[r].read.state = "connected"
        /\ /\ request[r].op \in {"activate", "enable", "launch"}
           /\ request[r].at = "write"
           => request[r].live
        /\ request[r].op = "connect" /\ request[r].at # "lock" => lock = r

LiveRoute ==
    row.exists /\ row.enabled =>
        (row.state = "connected" /\ row.key \in registry) \/ Gone

ReadyRoute ==
    \A r \in Requests :
        GoesLive(r) /\ ~request[r].stale => Named(r) \in registry \/ Gone

LiveInv == Shape /\ FreshReads /\ Marks /\ (Sound => LiveRoute /\ ReadyRoute)

\* A record that a request may have.
GoodMarks(r, q) ==
    /\ q.op = "managed" => ~q.live
    /\ q.op \in Removing /\ q.done =>
          /\ q.at = "write" /\ MayHaveRoute(q.read)
          /\ q.op = "ask" => q.read.state = "cancelled"
    /\ q.op \in {"connect", "activate", "enable", "launch"} /\ q.live =>
          /\ q.at = "write"
          /\ q.op = "connect" \/ q.read.state = "connected"
    /\ q.op \in {"activate", "enable", "launch"} /\ q.at = "write" => q.live
    /\ q.op = "connect" /\ q.at # "lock" => lock' = r

\* A lock that another request holds stays with it.
KeepsLock(r) == \A o \in Requests \ {r} : lock = o => lock' = o

LEMMA MovedMarks ==
    ASSUME LiveInv, NEW r \in Requests, NEW q, Moved(r, q), KeepsLock(r),
           GoodMarks(r, q), UNCHANGED <<row, mishaps>>, Shape', FreshReads',
           Taken(r) => q.op \in Removing /\ q.done,
           registry \subseteq registry' \/ (q.op \in Removing /\ q.done),
           q.op \in {"connect", "activate", "enable", "launch"}
             /\ q.live /\ ~q.stale => Named(r)' \in registry' \/ Gone
    PROVE  LiveInv'
<1>1. \A o \in Requests : request'[o] = IF o = r THEN q ELSE request[o]
  BY DEF Moved, LiveInv, Shape
<1>2. Marks'
  <2>1. ASSUME NEW o \in Requests, o # r
        PROVE  /\ (Taken(o)' <=> Taken(o)) /\ (GoesLive(o)' <=> GoesLive(o))
               /\ (MustRemove(o)' <=> MustRemove(o))
               /\ (lock = o => lock' = o)
    BY <1>1, <2>1 DEF Taken, GoesLive, MustRemove, KeepsLock
  <2>. QED
    BY <1>1, <2>1 DEF LiveInv, Marks, GoodMarks, Taken, GoesLive, MustRemove
<1>3. (Gone => Gone') /\ (q.op \in Removing /\ q.done => Gone')
  BY <1>1 DEF Gone, Taken
<1>4. ASSUME Sound PROVE LiveRoute' /\ ReadyRoute'
  <2>1. LiveRoute'
    BY <1>3, <1>4 DEF LiveInv, LiveRoute
  <2>2. ReadyRoute'
    BY <1>1, <1>3, <1>4 DEF LiveInv, ReadyRoute, GoesLive, Named
  <2>. QED
    BY <2>1, <2>2
<1>. QED
  BY <1>2, <1>4 DEF LiveInv, Sound

\* A request that ends.  If it had removed a route, the row is not live and
\* nobody is about to put it live.
LEMMA CloseMarks ==
    ASSUME LiveInv, NEW r \in Requests, Close(r), Agree(row', row),
           registry' = registry, mishaps \subseteq mishaps',
           Shape', FreshReads',
           Sound' /\ Taken(r) =>
             /\ ~(row.exists /\ row.enabled)
             /\ \A o \in Requests \ {r} : ~(GoesLive(o) /\ ~request[o].stale)
    PROVE  LiveInv'
<1>1. \A o \in Requests : request'[o] = IF o = r THEN Ended ELSE request[o]
  BY DEF Close, LiveInv, Shape
<1>2. \A o \in Requests \ {r} : lock = o => lock' = o
  BY DEF Close, Unlock
<1>3. Marks'
  BY <1>1, <1>2 DEF LiveInv, Marks, Taken, GoesLive, MustRemove, Ended,
                    Removing
<1>4. ~Taken(r) /\ Gone => Gone'
  BY <1>1 DEF Gone, Taken
<1>5. ASSUME Sound' PROVE LiveRoute' /\ ReadyRoute'
  <2>1. Sound
    BY <1>5 DEF Sound
  <2>2. LiveRoute'
    BY <1>4, <1>5, <2>1 DEF LiveInv, LiveRoute, Agree, Config
  <2>3. \A o \in Requests : GoesLive(o)' =>
           o # r /\ GoesLive(o) /\ Named(o)' = Named(o)
           /\ request'[o].stale = request[o].stale
    BY <1>1 DEF GoesLive, Named, Ended
  <2>4. ReadyRoute'
    BY <1>4, <1>5, <2>1, <2>3 DEF LiveInv, ReadyRoute
  <2>. QED
    BY <2>2, <2>4
<1>. QED
  BY <1>3, <1>5 DEF LiveInv

LEMMA OutdateMarks ==
    ASSUME LiveInv, NEW r, Outdate(r), \A o \in Requests : o # r /\ lock = o
                                          => lock' = o,
           registry' = registry, mishaps \subseteq mishaps',
           Shape', FreshReads',
           Sound' /\ row'.exists /\ row'.enabled =>
             \/ row'.state = "connected" /\ row'.key \in registry
             \/ \E o \in Requests : o # r /\ Taken(o)
    PROVE  LiveInv'
<1>1. \A o \in Requests : request'[o] =
         IF o = r \/ request[o] = Ended THEN Ended
         ELSE [request[o] EXCEPT !.stale = TRUE]
  BY DEF Outdate
<1>2. ASSUME NEW o \in Requests
      PROVE  /\ ~(GoesLive(o)' /\ ~request'[o].stale)
             /\ Taken(o) /\ o # r => Taken(o)'
  BY <1>1 DEF GoesLive, Taken, Ended, LiveInv, Shape, Removing
<1>3. Marks'
  <2>1. ASSUME NEW o \in Requests, request'[o] # Ended
        PROVE  /\ o # r /\ request'[o].op = request[o].op
               /\ request'[o].at = request[o].at
               /\ request'[o].live = request[o].live
               /\ request'[o].done = request[o].done
               /\ request'[o].read = request[o].read
    BY <1>1, <2>1 DEF LiveInv, Shape, Ended
  <2>2. ASSUME NEW o \in Requests, request'[o] = Ended
        PROVE  request'[o].op = "none"
    BY <2>2 DEF Ended
  <2>. QED
    BY <2>1, <2>2 DEF LiveInv, Marks, Taken, GoesLive, MustRemove, Removing
<1>. QED
  BY <1>2, <1>3 DEF LiveInv, LiveRoute, ReadyRoute, Gone

\* The moves.
LEMMA LockMarks ==
    ASSUME LiveInv, Shape', FreshReads', NEW r \in Requests, Lock(r)
    PROVE  LiveInv'
<1>1. PICK l : /\ request' = [request EXCEPT ![r].at = l]
               /\ (l = "write" => request[r].op = "settings")
  BY LockTo
<1>. DEFINE q == [request[r] EXCEPT !.at = l]
<1>2. Moved(r, q)
  BY <1>1, Begun DEF Lock, LiveInv, Shape, Moved, Ended
<1>3. /\ UNCHANGED <<row, mishaps, registry>> /\ lock' = r
      /\ lock = NoRequest /\ request[r].at = "lock"
  BY DEF Lock, At
<1>4. /\ q.op = request[r].op /\ q.live = request[r].live
      /\ q.done = request[r].done /\ q.at = l
  BY DEF LiveInv, Shape, Ended
<1>5. ~Taken(r) /\ ~GoesLive(r)
  BY <1>3 DEF LiveInv, Marks
<1>6. GoodMarks(r, q)
  BY <1>1, <1>3, <1>4, <1>5 DEF GoodMarks, LiveInv, Marks, Taken, GoesLive
<1>7. KeepsLock(r)
  BY <1>3, ManagedAssumption DEF KeepsLock
<1>. HIDE DEF q
<1>. QED
  BY <1>2, <1>3, <1>4, <1>5, <1>6, <1>7, MovedMarks DEF Taken, GoesLive

LEMMA ChooseKeyMarks ==
    ASSUME LiveInv, Shape', FreshReads', NEW r \in Requests, ChooseKey(r)
    PROVE  LiveInv'
<1>1. PICK key, l :
         request' = [request EXCEPT ![r].key = key, ![r].at = l]
  BY DEF ChooseKey
<1>. DEFINE q == [request[r] EXCEPT !.key = key, !.at = l]
<1>2. Moved(r, q)
  BY <1>1, Begun DEF ChooseKey, LiveInv, Shape, Moved, Ended
<1>3. UNCHANGED <<row, mishaps, registry, lock>> /\ request[r].at = "key"
      /\ request[r].op \in Connecting
  BY DEF ChooseKey, At, Connecting
<1>4. /\ q.op = request[r].op /\ q.live = request[r].live
      /\ q.done = request[r].done
  BY DEF LiveInv, Shape, Ended
<1>5. ~Taken(r) /\ ~GoesLive(r)
  BY <1>3 DEF LiveInv, Marks
<1>6. GoodMarks(r, q)
  BY <1>3, <1>4, <1>5 DEF GoodMarks, LiveInv, Marks, Taken, GoesLive,
                                   Connecting
<1>7. KeepsLock(r)
  BY <1>3 DEF KeepsLock
<1>. HIDE DEF q
<1>. QED
  BY <1>2, <1>3, <1>4, <1>5, <1>6, <1>7, MovedMarks DEF Taken, GoesLive

LEMMA CheckMarks ==
    ASSUME LiveInv, Shape', FreshReads', NEW r \in Requests, Check(r)
    PROVE  LiveInv'
<1>1. PICK l : request' = [request EXCEPT ![r].at = l]
  BY DEF Check, Goto
<1>. DEFINE q == [request[r] EXCEPT !.at = l]
<1>2. Moved(r, q)
  BY <1>1, Begun DEF Check, LiveInv, Shape, Moved, Ended
<1>3. UNCHANGED <<row, mishaps, registry, lock>> /\ request[r].at = "check"
      /\ request[r].op \in {"connect", "managed", "send"}
  BY DEF Check, At
<1>4. /\ q.op = request[r].op /\ q.live = request[r].live
      /\ q.done = request[r].done
  BY DEF LiveInv, Shape, Ended
<1>5. ~Taken(r) /\ ~GoesLive(r)
  BY <1>3 DEF LiveInv, Marks
<1>6. GoodMarks(r, q)
  BY <1>3, <1>4, <1>5 DEF GoodMarks, LiveInv, Marks, Taken, GoesLive
<1>7. KeepsLock(r)
  BY <1>3 DEF KeepsLock
<1>. HIDE DEF q
<1>. QED
  BY <1>2, <1>3, <1>4, <1>5, <1>6, <1>7, MovedMarks DEF Taken, GoesLive

LEMMA BlockersMarks ==
    ASSUME LiveInv, Shape', FreshReads', NEW r \in Requests, Blockers(r)
    PROVE  LiveInv'
<1>1. PICK goes \in BOOLEAN :
        /\ goes => Named(r) \in registry
        /\ request[r].op # "connect" =>
              goes /\ request[r].read.state = "connected"
        /\ request' = [request EXCEPT ![r].at = "write", ![r].live = goes]
  BY DEF Blockers
<1>. DEFINE q == [request[r] EXCEPT !.at = "write", !.live = goes]
<1>2. Moved(r, q)
  BY <1>1, Begun DEF Blockers, LiveInv, Shape, Moved, Ended
<1>3. /\ UNCHANGED <<row, mishaps, registry, lock>>
      /\ request[r].at = "blockers"
      /\ request[r].op \notin Removing /\ request[r].op # "managed"
  BY DEF Blockers, At, Removing
<1>4. /\ q.op = request[r].op /\ q.live = goes /\ q.at = "write"
      /\ q.done = request[r].done /\ q.read = request[r].read
  BY DEF LiveInv, Shape, Ended
<1>5. ~Taken(r)
  BY <1>3 DEF Taken
<1>6. GoodMarks(r, q)
  BY <1>1, <1>3, <1>4, <1>5 DEF GoodMarks, LiveInv, Marks, Taken
<1>7. KeepsLock(r) /\ Named(r)' = Named(r)
  BY <1>1, <1>3 DEF KeepsLock, Named, LiveInv, Shape, Ended
<1>. HIDE DEF q
<1>. QED
  BY <1>1, <1>2, <1>3, <1>4, <1>5, <1>6, <1>7, MovedMarks

LEMMA RemoveMarks ==
    ASSUME LiveInv, Shape', FreshReads', NEW r \in Requests, Remove(r)
    PROVE  LiveInv'
<1>1. PICK goes, did :
         /\ request' = [request EXCEPT ![r].at = "write", ![r].live = goes,
                                       ![r].done = did]
         /\ did => MustRemove(r)
         /\ did \/ registry' = registry
  BY DEF Remove
<1>. DEFINE q == [request[r] EXCEPT !.at = "write", !.live = goes,
                                    !.done = did]
<1>0. request[r] # Ended
  BY Begun DEF Remove
<1>2. Moved(r, q)
  BY <1>0, <1>1 DEF LiveInv, Shape, Moved, Ended
<1>3. /\ UNCHANGED <<row, mishaps, lock>> /\ request[r].at = "remove"
      /\ request[r].op \in Removing
  BY DEF Remove, At, Removing
<1>4. /\ q.op = request[r].op /\ q.live = goes /\ q.at = "write"
      /\ q.done = did /\ q.read = request[r].read
  BY DEF LiveInv, Shape, Ended
<1>5. ~Taken(r)
  BY <1>3 DEF LiveInv, Marks
<1>6. GoodMarks(r, q)
  BY <1>1, <1>3, <1>4 DEF GoodMarks, MustRemove, Removing
<1>7. KeepsLock(r)
  BY <1>3 DEF KeepsLock
<1>8. request[r].op \notin {"connect", "activate", "enable", "launch"}
  BY <1>3 DEF Removing
<1>. HIDE DEF q
<1>. QED
  BY <1>1, <1>2, <1>3, <1>4, <1>5, <1>6, <1>7, <1>8, MovedMarks

LEMMA ProvisionMarks ==
    ASSUME LiveInv, Shape', FreshReads', NEW r \in Requests, Provision(r)
    PROVE  LiveInv'
<1>1. /\ UNCHANGED <<row, mishaps>> /\ request[r].at = "provision"
      /\ request[r].op \in Connecting /\ request[r].op \notin Removing
  BY DEF Provision, At, Connecting, Removing
<1>2. ~Taken(r) /\ ~GoesLive(r)
  BY <1>1 DEF LiveInv, Marks, Taken
<1>3. CASE /\ registry' = registry \cup {request[r].key}
           /\ request' = [request EXCEPT ![r].at = "check", ![r].done = TRUE]
           /\ UNCHANGED <<wire, lock>>
  <2>. DEFINE q == [request[r] EXCEPT !.at = "check", !.done = TRUE]
  <2>1. Moved(r, q)
    BY <1>1, <1>3 DEF LiveInv, Shape, Moved, Ended
  <2>2. /\ q.op = request[r].op /\ q.live = request[r].live
        /\ q.at = "check"
    BY DEF LiveInv, Shape, Ended
  <2>3. GoodMarks(r, q)
    BY <1>1, <1>2, <1>3, <2>2 DEF GoodMarks, LiveInv, Marks, GoesLive
  <2>4. KeepsLock(r)
    BY <1>3 DEF KeepsLock
  <2>. HIDE DEF q
  <2>. QED
    BY <1>1, <1>2, <1>3, <2>1, <2>2, <2>3, <2>4, MovedMarks DEF GoesLive
<1>4. CASE Close(r) /\ UNCHANGED registry
  <2>1. Agree(row', row)
    BY <1>1 DEF Agree
  <2>. QED
    BY <1>1, <1>2, <1>4, <2>1, CloseMarks
<1>. QED
  BY <1>3, <1>4 DEF Provision

LEMMA GiveUpMarks ==
    ASSUME LiveInv, Shape', FreshReads', NEW r \in Requests, GiveUp(r)
    PROVE  LiveInv'
<1>1. /\ Close(r) /\ UNCHANGED <<row, registry>>
      /\ mishaps \subseteq mishaps'
  BY DEF GiveUp
<1>2. Sound' => ~Taken(r)
  BY DEF GiveUp, Taken, Removing, Sound
<1>. QED
  BY <1>1, <1>2, CloseMarks DEF Agree

LEMMA ReadMarks ==
    ASSUME LiveInv, Shape', FreshReads', NEW r \in Requests, NEW op,
           Read(r, op)
    PROVE  LiveInv'
<1>1. PICK at : /\ request' = [request EXCEPT ![r] =
                     [Ended EXCEPT !.op = op, !.read = row, !.at = at]]
                /\ (op = "connect" => at = "lock")
                /\ (at = "write" =>
                       op \notin {"activate", "enable", "launch"})
  <2>1. CASE op \in Customer
    <3>1. request' = [request EXCEPT ![r] =
             [Ended EXCEPT !.op = op, !.read = row, !.at = "lock"]]
      BY <2>1 DEF Read, Customer
    <3>. WITNESS "lock"
    <3>. QED
      BY <3>1
  <2>2. CASE op \notin Customer
    <3>1. op # "connect"
      BY <2>2 DEF Customer
    <3>. DEFINE at == CASE op \in Customer -> "lock"
                       [] op \in {"delete", "withdraw", "ask"} -> "remove"
                       [] op \in {"enable", "launch"} -> "blockers"
                       [] op = "managed" -> "key"
                       [] op = "send" -> "check"
                       [] OTHER -> "write"
    <3>2. request' = [request EXCEPT ![r] =
             [Ended EXCEPT !.op = op, !.read = row, !.at = at]]
      BY DEF Read
    <3>3. at = "write" => op \notin {"activate", "enable", "launch"}
      <4>1. op # "activate"
        BY <2>2 DEF Customer
      <4>2. ASSUME op = "enable" \/ op = "launch" PROVE at = "blockers"
        BY <2>2, <4>2
      <4>. QED
        BY <4>1, <4>2
    <3>. HIDE DEF at
    <3>. WITNESS at
    <3>. QED
      BY <3>1, <3>2, <3>3
  <2>. QED
    BY <2>1, <2>2
<1>. DEFINE q == [Ended EXCEPT !.op = op, !.read = row, !.at = at]
<1>2. /\ q.op = op /\ q.at = at /\ q.stale = FALSE
      /\ q.done = FALSE /\ q.live = FALSE
  BY DEF Ended
<1>. HIDE DEF q
<1>3. \A o \in Requests : request'[o] = IF o = r THEN q ELSE request[o]
  BY <1>1 DEF LiveInv, Shape, q
<1>4. /\ UNCHANGED <<row, registry, mishaps>> /\ request[r] = Ended
      /\ (lock # NoRequest => lock' = lock)
  BY ManagedAssumption DEF Read, LiveInv, Shape
<1>5. \A o \in Requests \ {r} :
        /\ (Taken(o)' <=> Taken(o)) /\ (GoesLive(o)' <=> GoesLive(o))
        /\ (MustRemove(o)' <=> MustRemove(o)) /\ Named(o)' = Named(o)
  BY <1>3 DEF Taken, GoesLive, MustRemove, Named
<1>6. ~Taken(r) /\ ~Taken(r)' /\ ~GoesLive(r)' /\ request'[r].live = FALSE
  BY <1>2, <1>3, <1>4 DEF Taken, GoesLive, Ended
<1>7. Marks'
  BY <1>1, <1>2, <1>3, <1>4, <1>5, <1>6, ManagedAssumption
     DEF LiveInv, Marks
<1>8. Gone => Gone'
  BY <1>5, <1>6 DEF Gone
<1>9. ASSUME Sound PROVE LiveRoute' /\ ReadyRoute'
  BY <1>3, <1>4, <1>5, <1>6, <1>8, <1>9 DEF LiveInv, LiveRoute, ReadyRoute
<1>. QED
  BY <1>4, <1>7, <1>9 DEF LiveInv, Sound

LEMMA ArrivesMarks ==
    ASSUME LiveInv, Shape', FreshReads', NEW call \in wire, Arrives(call)
    PROVE  LiveInv'
<1>1. UNCHANGED <<row, request, lock>> /\ mishaps \subseteq mishaps'
  BY DEF Arrives
<1>2. ASSUME Sound' PROVE Sound /\ registry \subseteq registry'
  BY <1>1, <1>2 DEF Sound, Arrives
<1>3. Marks' /\ (Gone' <=> Gone)
  BY <1>1 DEF LiveInv, Marks, Gone, Taken, GoesLive, MustRemove
<1>. QED
  BY <1>1, <1>2, <1>3 DEF LiveInv, LiveRoute, ReadyRoute, GoesLive, Named

LEMMA PauseMarks ==
    ASSUME LiveInv, Shape', FreshReads', Pause PROVE LiveInv'
<1>1. /\ UNCHANGED <<registry, mishaps, lock>> /\ Outdate(NoRequest)
      /\ row'.enabled = FALSE
  BY DEF Pause, LiveInv, Shape, Unread
<1>. QED
  BY <1>1, OutdateMarks

LEMMA ManagedMarks ==
    ASSUME LiveInv, Shape', FreshReads', NEW r \in Requests,
           CommitManaged(r)
    PROVE  LiveInv'
<1>1. /\ UNCHANGED registry /\ mishaps \subseteq mishaps' /\ Outdate(r)
      /\ Unlock(r) /\ row' = Connected(r)
  BY DEF CommitManaged
<1>2. ~request[r].live /\ row'.enabled = request[r].live
  BY <1>1 DEF CommitManaged, At, LiveInv, Marks, Shape, Connected, Unread
<1>3. \A o \in Requests : o # r /\ lock = o => lock' = o
  BY <1>1 DEF Unlock
<1>. QED
  BY <1>1, <1>2, <1>3, OutdateMarks

\* What a request that was not overtaken would commit is not live, or is live
\* with its route.
LEMMA CommitIsLive ==
    ASSUME LiveInv, Sound, NEW r \in Requests, ~request[r].stale,
           request[r] # Ended, NEW new, NEW touched, Commits(r, new, touched),
           new.exists, new.enabled, "rerouted" \notin Rewriting(r, new)
    PROVE  \/ new.state = "connected" /\ new.key \in registry
           \/ \E o \in Requests : o # r /\ Taken(o)
<1>. DEFINE read == request[r].read
<1>0. DOMAIN read = DOMAIN Unread /\ read.exists
  BY DEF LiveInv, Shape
<1>1. Agree(read, row)
  BY DEF LiveInv, FreshReads
<1>2. read.enabled => (read.state = "connected" /\ read.key \in registry)
                      \/ Gone
  BY <1>0, <1>1 DEF LiveInv, LiveRoute, Agree, Config
<1>3. CASE At(r, {"connect"}, "write") /\ new = Connected(r)
  <2>1. /\ GoesLive(r) /\ new.state = "connected" /\ new.key = Named(r)
        /\ ~Taken(r)
    BY <1>0, <1>3 DEF Connected, GoesLive, At, Named, Unread, Taken, Removing
  <2>. QED
    BY <2>1 DEF LiveInv, ReadyRoute, Gone
<1>4. CASE /\ At(r, {"activate", "enable", "launch"}, "write")
           /\ new = [read EXCEPT !.enabled = TRUE]
  <2>1. GoesLive(r) /\ request[r].op # "connect" /\ ~Taken(r)
    BY <1>4 DEF LiveInv, Marks, GoesLive, At, Taken, Removing
  <2>2. read.state = "connected" /\ Named(r) = read.key
    BY <1>4, <2>1 DEF LiveInv, Marks, Named, At
  <2>3. new.state = read.state /\ new.key = read.key
    BY <1>0, <1>4 DEF Unread
  <2>. QED
    BY <2>1, <2>2, <2>3 DEF LiveInv, ReadyRoute, Gone
<1>5. CASE /\ Config(new) = Config(read) /\ new.enabled = read.enabled
           /\ ~Taken(r)
  BY <1>2, <1>5 DEF Config, Gone
<1>9. CASE At(r, {"edit"}, "write")
  <2>1. new.enabled = read.enabled
    BY <1>0, <1>9 DEF Commits, At, Unread
  <2>2. new.state = read.state /\ new.key = read.key
    BY <1>9, <2>1 DEF Rewriting, At
  <2>3. ~Taken(r)
    BY <1>9 DEF Taken, Removing, At
  <2>. QED
    BY <1>2, <2>1, <2>2, <2>3 DEF Gone
<1>6. CASE \/ At(r, {"settings"}, "write") /\ new = read
           \/ /\ At(r, {"send"}, "write")
              /\ new = [read EXCEPT !.verified = TRUE]
  <2>1. Config(new) = Config(read) /\ new.enabled = read.enabled
    BY <1>0, <1>6 DEF Config, Unread
  <2>2. ~Taken(r)
    BY <1>6 DEF Taken, Removing, At
  <2>. QED
    BY <1>5, <2>1, <2>2
<1>7. CASE At(r, {"ask"}, "write")
  <2>1. CASE read.state # "cancelled"
    <3>1. new = read
      BY <1>7, <2>1 DEF Commits, At
    <3>2. ~Taken(r)
      BY <1>7, <2>1 DEF LiveInv, Marks, MustRemove, At
    <3>. QED
      BY <1>5, <3>1, <3>2
  <2>2. CASE read.state = "cancelled"
    <3>1. ~new.enabled
      BY <1>0, <1>7, <2>2 DEF Commits, At, Unread
    <3>. QED
      BY <3>1
  <2>. QED
    BY <2>1, <2>2
<1>8. CASE At(r, {"disable", "disconnect", "delete", "withdraw"}, "write")
  <2>1. ~new.enabled \/ ~new.exists
    BY <1>0, <1>8 DEF Commits, At, Unread
  <2>. QED
    BY <2>1
<1>. QED
  BY <1>3, <1>4, <1>6, <1>7, <1>8, <1>9 DEF Commits, At

\* A removal whose commit changes nothing had read a cancelled row.
LEMMA IdleRemoval ==
    ASSUME LiveInv, NEW r \in Requests, request[r] # Ended, Taken(r),
           NEW new, NEW touched, Commits(r, new, touched),
           ~Writes(r, new, touched)
    PROVE  request[r].read.state = "cancelled" /\ ~request[r].read.enabled
<1>. DEFINE read == request[r].read
<1>0. DOMAIN read = DOMAIN Unread /\ read.exists
  BY DEF LiveInv, Shape
<1>1. /\ Config(new) = Config(read) /\ new.enabled = read.enabled
      /\ new.exists
  BY DEF Writes
<1>2. /\ request[r].op \in {"disconnect", "delete", "withdraw", "ask"}
      /\ MustRemove(r)
  BY DEF LiveInv, Marks, Taken, Removing
<1>3. CASE request[r].op = "delete"
  <2>1. ~new.exists
    BY <1>0, <1>3 DEF Commits, At, Unread
  <2>. QED
    BY <1>1, <2>1
<1>4. CASE request[r].op \in {"disconnect", "withdraw"}
  <2>1. new.state = "cancelled" /\ new.enabled = FALSE
    BY <1>0, <1>4 DEF Commits, At, Unread
  <2>. QED
    BY <1>1, <2>1 DEF Config
<1>5. CASE request[r].op = "ask"
  <2>1. read.state = "cancelled"
    BY <1>2, <1>5 DEF MustRemove
  <2>2. new.enabled = FALSE
    BY <1>0, <1>5, <2>1 DEF Commits, At, Unread
  <2>. QED
    BY <1>1, <2>1, <2>2
<1>. QED
  BY <1>2, <1>3, <1>4, <1>5

LEMMA CommitMarks ==
    ASSUME LiveInv, Shape', FreshReads', NEW r \in Requests, CommitStep(r),
           UNCHANGED registry
    PROVE  LiveInv'
<1>1. PICK new, touched : Commits(r, new, touched) /\ Commit(r, new, touched)
  BY DEF CommitStep
<1>2. request[r] # Ended
  <2>1. request[r].at = "write"
    BY <1>1 DEF Commits, At
  <2>. QED
    BY <2>1 DEF Ended
<1>3. /\ mishaps \subseteq mishaps'
      /\ IF Writes(r, new, touched)
         THEN /\ Outdate(r) /\ Unlock(r)
              /\ IF request[r].stale THEN "overtaken" \in mishaps'
                 ELSE Agree(row', new)
         ELSE /\ Close(r) /\ ~touched /\ Agree(row', row)
              /\ request[r].stale /\ request[r].done
                   => "overtaken" \in mishaps'
  BY <1>1, <1>2, CommitEffect DEF LiveInv
<1>4. CASE Writes(r, new, touched)
  <2>1. ASSUME Sound', row'.exists, row'.enabled
        PROVE  \/ row'.state = "connected" /\ row'.key \in registry
               \/ \E o \in Requests : o # r /\ Taken(o)
    <3>1. Sound /\ ~request[r].stale /\ Agree(row', new)
      BY <1>3, <1>4, <2>1 DEF Sound
    <3>3. "rerouted" \notin Rewriting(r, new)
      BY <1>1, <2>1 DEF Commit, Sound
    <3>2. \/ new.state = "connected" /\ new.key \in registry
          \/ \E o \in Requests : o # r /\ Taken(o)
      BY <1>1, <1>2, <2>1, <3>1, <3>3, CommitIsLive DEF Agree
    <3>. QED
      BY <3>1, <3>2 DEF Agree, Config
  <2>2. \A o \in Requests : o # r /\ lock = o => lock' = o
    BY <1>3, <1>4 DEF Unlock
  <2>. QED
    BY <1>3, <1>4, <2>1, <2>2, OutdateMarks
<1>5. CASE ~Writes(r, new, touched)
  <2>1. ASSUME Sound', Taken(r)
        PROVE  /\ ~(row.exists /\ row.enabled)
               /\ \A o \in Requests \ {r} :
                     ~(GoesLive(o) /\ ~request[o].stale)
    <3>1. ~request[r].stale
      BY <1>3, <1>5, <2>1 DEF Sound, Taken
    <3>2. row.state = "cancelled" /\ ~row.enabled
      BY <1>1, <1>2, <1>5, <2>1, <3>1, IdleRemoval
         DEF LiveInv, FreshReads, Agree, Config
    <3>3. ASSUME NEW o \in Requests \ {r}, GoesLive(o), ~request[o].stale
          PROVE  FALSE
      <4>1. request[o] # Ended
        BY <3>3 DEF GoesLive, Ended
      <4>2. request[o].read.state = "cancelled"
        BY <3>2, <3>3, <4>1 DEF LiveInv, FreshReads, Agree, Config
      <4>3. request[o].op = "connect" /\ request[o].at = "write"
        BY <3>3, <4>2 DEF LiveInv, Marks
      <4>4. lock = o
        BY <4>3 DEF LiveInv, Marks
      <4>. QED
        BY <1>1, <4>4, ManagedAssumption DEF Commit
    <3>. QED
      BY <3>2, <3>3
  <2>. QED
    BY <1>3, <1>5, <2>1, CloseMarks
<1>. QED
  BY <1>4, <1>5

LEMMA LiveStep == RouteInv /\ LiveInv /\ [Next]_vars => LiveInv'
<1>. SUFFICES ASSUME RouteInv, LiveInv, [Next]_vars PROVE LiveInv'
  OBVIOUS
<1>0. Shape' /\ FreshReads'
  BY RouteStep DEF RouteInv
<1>1. ASSUME NEW r \in Requests, Step(r) PROVE LiveInv'
  <2>1. CASE Moves(r)
    BY <1>0, <2>1, LockMarks, ChooseKeyMarks, ProvisionMarks, CheckMarks,
       BlockersMarks, RemoveMarks DEF Moves
  <2>2. CASE CommitStep(r) /\ UNCHANGED <<registry, wire>>
    BY <1>0, <2>2, CommitMarks
  <2>3. CASE CommitManaged(r)
    BY <1>0, <2>3, ManagedMarks
  <2>. QED
    BY <1>1, <2>1, <2>2, <2>3, StepKinds
<1>2. ASSUME NEW r \in Requests, GiveUp(r) PROVE LiveInv'
  BY <1>0, <1>2, GiveUpMarks
<1>3. ASSUME NEW r \in Requests, NEW op, Read(r, op) PROVE LiveInv'
  BY <1>0, <1>3, ReadMarks
<1>4. ASSUME NEW call \in wire, Arrives(call) PROVE LiveInv'
  BY <1>0, <1>4, ArrivesMarks
<1>5. CASE Pause
  BY <1>0, <1>5, PauseMarks
<1>6. CASE UNCHANGED vars
  <2>1. UNCHANGED <<row, lock, registry, request, mishaps>>
    BY <1>6 DEF vars
  <2>2. Marks' /\ (Gone' <=> Gone) /\ (Sound' <=> Sound)
    BY <2>1 DEF LiveInv, Marks, Gone, Taken, GoesLive, MustRemove, Sound
  <2>. QED
    BY <1>0, <2>1, <2>2 DEF LiveInv, LiveRoute, ReadyRoute, GoesLive, Named
<1>. QED
  BY <1>1, <1>2, <1>3, <1>4, <1>5, <1>6 DEF Next

\* A live channel has its route (LiveHasRoute): a row that is enabled is
\* connected and its key is in the registry, or a request under way has just
\* removed the route, unless a request overwrote a row that had changed, a
\* removal was cut off before its commit, or an operator's PUT rewrote the key
\* or the state of a live channel.
THEOREM LiveChannelsAreReachable == Spec => []LiveHasRoute
<1>1. Init => RouteInv /\ LiveInv
  <2>1. Init => Known /\ Clean
    BY DEF Init, Known, Clean
  <2>2. Init => Marks /\ LiveRoute /\ ReadyRoute
    BY DEF Init, Marks, LiveRoute, ReadyRoute, Taken, GoesLive, Ended, Unread,
           Removing
  <2>. QED
    BY <2>1, <2>2, ShapeInit DEF RouteInv, LiveInv
<1>2. RouteInv /\ LiveInv /\ [Next]_vars => (RouteInv /\ LiveInv)'
  BY RouteStep, LiveStep
<1>3. LiveInv => LiveHasRoute
  <2>1. Gone => \E r \in Requests :
             /\ request[r].op \in {"disconnect", "delete", "withdraw", "ask"}
             /\ request[r].done
    BY DEF Gone, Taken, Removing
  <2>. QED
    BY <2>1 DEF LiveInv, LiveRoute, Sound, LiveHasRoute
<1>. QED
  BY <1>1, <1>2, <1>3, PTL DEF Spec

-----------------------------------------------------------------------------
(* PROVISIONING                                                            *)

-----------------------------------------------------------------------------
(* What is stored fits together.                                           *)

\* A requirement waits for what its kind can wait for; one that was asked for
\* has its answer in the build.
Made(s) ==
    /\ s \in Specs
    /\ \A k \in Keys :
          /\ s.need[k] = "off" <=> Kind[s.brief][k] = "off"
          /\ s.need[k] = "input" => Kind[s.brief][k] = "input"
          /\ s.need[k] = "connection" => Kind[s.brief][k] = "external"
          /\ s.need[k] \in {"build", "managed"} /\ Kind[s.brief][k] = "input"
                => s.inputs[k] # "none"

\* What the build was told is what the owner answered.
Told(s, given) ==
    \A k \in Keys : s.inputs[k] # "none" => s.inputs[k] = given[k]

Kept(s, given) ==
    IF s = NoSpec THEN given = NoAnswers ELSE Made(s) /\ Told(s, given)

\* A requirement that waits for an answer given to another build is of no
\* routine: otherwise the build would not have been applied.
Asked(s, given) ==
    s # NoSpec => \A k \in Keys :
        s.need[k] = "input" /\ given[k] # "none" =>
            \A r \in Routines : k \notin Uses[s.brief][r]

Builds ==
    /\ Kept(spec, answers) /\ Kept(version.spec, version.answers)
    /\ pending # NoRevision => Kept(pending.spec, pending.answers)
    /\ ~operated => /\ Asked(spec, answers)
                    /\ Asked(version.spec, version.answers)

\* The rows there are belong to build s.
Belongs(s, had) ==
    /\ \A k \in Keys :
          /\ had.timers[k] # NoRow =>
                had.timers[k] = s.brief /\ k \in OwnTimed(s.brief)
          /\ had.actions[k] # NoRow /\ had.actions[k].by = "xvond" =>
                s.need[k] \notin {"off", "input"}
    /\ \A r \in Routines : had.rows[r] # NoRow => had.rows[r].brief = s.brief

\* No operator has changed them.
Own(s, had) ==
    /\ had.tool # "off"
    /\ \A k \in Keys : had.actions[k] # NoRow =>
          /\ had.actions[k].by = "xvond" /\ had.actions[k].on
          /\ had.actions[k].to # 0 => k \in External(s.brief)
          /\ had.actions[k].set = SetUp(s, k)

\* What is stored of a build.
Current == [spec |-> spec, plan |-> plan, actions |-> actions, tool |-> tool,
            timers |-> timers, rows |-> rows]

\* Actions that are not waiting have the owner's permission.
Granted(b, o) ==
    \A k \in Keys :
        b.actions[k] # NoRow /\ b.actions[k].by = "xvond"
            /\ b.spec.need[k] = "managed" => b.actions[k].mode = Mode(o, k)

\* The plan tells which routines run.
Shown(b) ==
    \A r \in Routines : Uses[b.spec.brief][r] # {} =>
        /\ b.plan.trig[r] # "none"
        /\ b.plan.trig[r] = "ready" => b.rows[r] # NoRow /\ b.rows[r].on

\* The plan tells why a requirement does not run.
Works(b) ==
    \A k \in Keys : b.spec.need[k] = "managed" =>
        /\ b.actions[k] # NoRow /\ b.tool = "on"
        /\ b.plan.exec[k] \notin {"none", "disabled"}
        /\ b.plan.exec[k] = "permission_denied" => b.actions[k].mode = "never"
        /\ b.plan.exec[k] = "setup_required" =>
              b.actions[k].set = "no" \/ b.actions[k].to # 0
        /\ b.plan.exec[k] = "ready" /\ k \in OwnTimed(b.spec.brief) =>
              b.timers[k] # NoRow

\* A routine that cannot run has a step that cannot.
Blocked(b) ==
    \A r \in Routines : b.plan.trig[r] = "setup_required" =>
        \E k \in Uses[b.spec.brief][r] :
            \/ b.spec.need[k] # "managed"
            \/ b.actions[k].mode # "never" /\ b.plan.exec[k] # "ready"

Fits(b, o, op) ==
    /\ b.plan # NoPlan
    /\ \A k \in Keys : b.spec.need[k] # "build"
    /\ Belongs(b.spec, b) /\ Granted(b, o) /\ Shown(b)
    /\ ~op => Own(b.spec, b) /\ Works(b) /\ Blocked(b)

\* Nothing is built.
Blank(b, op) ==
    /\ b.plan = NoPlan
    /\ \A k \in Keys : b.timers[k] = NoRow
    /\ \A k \in Keys : b.actions[k] # NoRow => b.actions[k].by = "operator"
    /\ \A r \in Routines : b.rows[r] = NoRow
    /\ ~op => b.tool # "off" /\ \A k \in Keys : b.actions[k] = NoRow

\* A live employee has a build all of whose systems are connected.
LiveConnected == live => spec # NoSpec /\ Unconnected(spec) = {}

Whole == IF spec = NoSpec THEN Blank(Current, operated)
         ELSE Fits(Current, owner, operated)

ProvisioningInv == ProvisioningTypeOK /\ Builds /\ LiveConnected /\ Whole

-----------------------------------------------------------------------------
(* Provisioning.                                                           *)

Shelf == [actions : [Keys -> Actions \cup {NoRow}],
          tool : {"none", "on", "off"},
          timers : [Keys -> Briefs \cup {NoRow}],
          rows : [Routines -> Workflows \cup {NoRow}],
          valid : SUBSET Conns]
Results == [spec : Specs, plan : Plans,
            actions : [Keys -> Actions \cup {NoRow}],
            tool : {"none", "on", "off"},
            timers : [Keys -> Briefs \cup {NoRow}],
            rows : [Routines -> Workflows \cup {NoRow}]]

LEMMA KindsAre ==
    /\ \A b \in Briefs : Kind[b] \in [Keys -> Kinds]
    /\ \A b \in Briefs : Uses[b] \in [Routines -> SUBSET Keys]
  BY ProvisioningAssumption

LEMMA ActionTyped ==
    ASSUME NEW s \in Specs, NEW o \in Grants, NEW had \in Shelf,
           NEW k \in Keys
    PROVE  /\ Action(s, o, had, k) \in Actions \cup {NoRow}
           /\ k \in Built(s) => Action(s, o, had, k) \in Actions
<1>1. /\ had.actions[k] \in Actions \cup {NoRow}
      /\ s.link \in {0} \cup Conns
      /\ Mode(o, k) \in Modes
  BY DEF Shelf, Specs, Grants, Mode, Modes
<1>2. NewAction(s, o, k) \in Actions
  BY <1>1 DEF NewAction, Actions, Destination, SetUp
<1>3. ASSUME had.actions[k] # NoRow
      PROVE  [had.actions[k] EXCEPT !.mode = Mode(o, k)] \in Actions
  BY <1>1, <1>3 DEF Actions
<1> QED
  BY <1>1, <1>2, <1>3 DEF Action

LEMMA StatusTyped ==
    ASSUME NEW s, NEW fresh, NEW had, NEW k
    PROVE  ExecStatus(s, fresh, had, k) \in Exec
  BY DEF ExecStatus, Status, Exec

LEMMA TriggerTyped ==
    ASSUME NEW s, NEW acts, NEW exec, NEW had, NEW r
    PROVE  TriggerStatus(s, acts, exec, had, r)
              \in {"none", "ready", "setup_required", "disabled"}
  BY DEF TriggerStatus

\* The parts of what provisioning returns.
Parts(b, s, o, had) ==
    /\ b \in Results
    /\ b.spec.brief = s.brief /\ b.spec.link = s.link
    /\ b.spec.inputs = s.inputs /\ b.spec.found = s.found
    /\ b.tool = IF had.tool = "none" /\ Built(s) # {} THEN "on" ELSE had.tool
    /\ \A k \in Keys :
          /\ b.spec.need[k] = IF k \in Built(s) THEN "managed" ELSE s.need[k]
          /\ b.actions[k] = Action(s, o, had, k)
          /\ b.plan.exec[k] = ExecStatus(s, b.actions[k], had, k)
    /\ \A k \in Keys :
          b.timers[k] = IF b.plan.exec[k] = "ready"
                           /\ Scheduled(s, b.actions[k], k)
                           /\ had.timers[k] = NoRow
                        THEN s.brief ELSE had.timers[k]
    /\ \A r \in Routines :
          /\ b.plan.trig[r] =
                TriggerStatus(s, b.actions, b.plan.exec, had, r)
          /\ b.rows[r] = IF b.plan.trig[r] = "ready" /\ had.rows[r] = NoRow
                         THEN [on |-> TRUE, brief |-> s.brief]
                         ELSE had.rows[r]

LEMMA ProvisionedParts ==
    ASSUME NEW s \in Specs, NEW o \in Grants, NEW had \in Shelf,
           NEW b, b = Provisioned(s, o, had)
    PROVE  Parts(b, s, o, had)
<1> DEFINE acts == [k \in Keys |-> Action(s, o, had, k)]
           set == IF had.tool = "none" /\ Built(s) # {} THEN "on"
                                                        ELSE had.tool
           exec == [k \in Keys |-> ExecStatus(s, acts[k], had, k)]
           trig == [r \in Routines |->
                       TriggerStatus(s, acts, exec, had, r)]
           need == [k \in Keys |-> IF k \in Built(s) THEN "managed"
                                                     ELSE s.need[k]]
           times == [k \in Keys |->
                       IF exec[k] = "ready" /\ Scheduled(s, acts[k], k)
                          /\ had.timers[k] = NoRow
                       THEN s.brief ELSE had.timers[k]]
           flows == [r \in Routines |->
                       IF trig[r] = "ready" /\ had.rows[r] = NoRow
                       THEN [on |-> TRUE, brief |-> s.brief] ELSE had.rows[r]]
<1>1. b = [spec |-> [s EXCEPT !.need = need],
           plan |-> [exec |-> exec, trig |-> trig],
           actions |-> acts, tool |-> set, timers |-> times, rows |-> flows]
  BY Zenon DEF Provisioned
<1>2. acts \in [Keys -> Actions \cup {NoRow}]
  BY ActionTyped
<1>3. exec \in [Keys -> Exec]
  BY StatusTyped
<1>4. trig \in [Routines -> {"none", "ready", "setup_required", "disabled"}]
  BY TriggerTyped
<1>5. need \in [Keys -> Needs]
  BY DEF Specs, Needs
<1>6. [s EXCEPT !.need = need] \in Specs
  BY <1>5 DEF Specs
<1>7. times \in [Keys -> Briefs \cup {NoRow}]
  BY DEF Specs, Shelf
<1>8. flows \in [Routines -> Workflows \cup {NoRow}]
  BY DEF Specs, Shelf, Workflows
<1>9. set \in {"none", "on", "off"}
  BY DEF Shelf
<1> HIDE DEF acts, set, exec, trig, need, times, flows
<1>10. b \in Results
  <2>1. [exec |-> exec, trig |-> trig] \in Plans
    BY <1>3, <1>4 DEF Plans
  <2> QED
    BY <1>1, <1>2, <1>6, <1>7, <1>8, <1>9, <2>1 DEF Results
<1>11. /\ b.spec = [s EXCEPT !.need = need] /\ b.plan.exec = exec
       /\ b.plan.trig = trig /\ b.actions = acts /\ b.tool = set
       /\ b.timers = times /\ b.rows = flows
  BY <1>1
<1>12. /\ b.spec.brief = s.brief /\ b.spec.link = s.link
       /\ b.spec.inputs = s.inputs /\ b.spec.found = s.found
       /\ b.spec.need = need
  BY <1>11 DEF Specs
<1>13. \A k \in Keys :
          /\ b.spec.need[k] = IF k \in Built(s) THEN "managed" ELSE s.need[k]
          /\ b.actions[k] = Action(s, o, had, k)
          /\ b.plan.exec[k] = ExecStatus(s, b.actions[k], had, k)
  BY <1>11, <1>12 DEF need, acts, exec
<1>14. \A k \in Keys :
          b.timers[k] = IF b.plan.exec[k] = "ready"
                           /\ Scheduled(s, b.actions[k], k)
                           /\ had.timers[k] = NoRow
                        THEN s.brief ELSE had.timers[k]
  BY <1>11 DEF times
<1>15. \A r \in Routines :
          /\ b.plan.trig[r] =
                TriggerStatus(s, b.actions, b.plan.exec, had, r)
          /\ b.rows[r] = IF b.plan.trig[r] = "ready" /\ had.rows[r] = NoRow
                         THEN [on |-> TRUE, brief |-> s.brief]
                         ELSE had.rows[r]
  BY <1>11 DEF trig, flows
<1>16. b.tool = IF had.tool = "none" /\ Built(s) # {} THEN "on" ELSE had.tool
  BY <1>11 DEF set
<1> QED
  BY <1>10, <1>12, <1>13, <1>14, <1>15, <1>16 DEF Parts

LEMMA ProvisionedFits ==
    ASSUME NEW s, Made(s), NEW o \in Grants, NEW had \in Shelf,
           NEW op \in BOOLEAN, Belongs(s, had), op \/ Own(s, had)
    PROVE  /\ Fits(Provisioned(s, o, had), o, op)
           /\ Made(Provisioned(s, o, had).spec)
<1> DEFINE b == Provisioned(s, o, had)
<1> HIDE DEF b
<1>b. b = Provisioned(s, o, had)
  BY DEF b
<1>s. s \in Specs
  BY DEF Made
<1>o. Parts(b, s, o, had)
  BY <1>b, <1>s, ProvisionedParts
<1>0. /\ b \in Results
      /\ b.spec.brief = s.brief /\ b.spec.link = s.link
      /\ b.spec.inputs = s.inputs /\ b.spec.found = s.found
      /\ b.tool = IF had.tool = "none" /\ Built(s) # {}
                  THEN "on" ELSE had.tool
  BY <1>o DEF Parts
<1>1. \A k \in Keys :
          /\ b.spec.need[k] = IF k \in Built(s) THEN "managed" ELSE s.need[k]
          /\ b.actions[k] = Action(s, o, had, k)
          /\ b.plan.exec[k] = ExecStatus(s, b.actions[k], had, k)
  BY <1>o DEF Parts
<1>2. \A k \in Keys :
          b.timers[k] = IF b.plan.exec[k] = "ready"
                           /\ Scheduled(s, b.actions[k], k)
                           /\ had.timers[k] = NoRow
                        THEN s.brief ELSE had.timers[k]
  BY <1>o DEF Parts
<1>r. \A r \in Routines :
          /\ b.plan.trig[r] =
                TriggerStatus(s, b.actions, b.plan.exec, had, r)
          /\ b.rows[r] = IF b.plan.trig[r] = "ready" /\ had.rows[r] = NoRow
                         THEN [on |-> TRUE, brief |-> s.brief]
                         ELSE had.rows[r]
  BY <1>o DEF Parts
<1>n. /\ s.brief \in Briefs /\ NoRow \notin Briefs
      /\ [on |-> TRUE, brief |-> s.brief] # NoRow
  <2>1. s.brief \in Briefs
    BY <1>s DEF Specs
  <2>2. [on |-> TRUE, brief |-> s.brief] \in Workflows
    BY <2>1 DEF Workflows
  <2> QED
    BY <2>1, <2>2, NoneAssumption
<1>t. \A k \in Keys : k \in Built(s) => /\ b.actions[k] \in Actions
                                        /\ b.actions[k] # NoRow
  BY <1>s, <1>1, ActionTyped, NoneAssumption
<1>p. b.plan # NoPlan
  BY <1>0, NoneAssumption DEF Results
<1>w. b.spec \in Specs
  BY <1>0 DEF Results
<1>3. Made(b.spec)
  BY <1>0, <1>1, <1>w DEF Made, Built
<1>4. \A k \in Keys : b.spec.need[k] # "build"
  BY <1>1 DEF Built
<1>5. Belongs(b.spec, b)
  <2>1. ASSUME NEW k \in Keys, b.timers[k] # NoRow
        PROVE  b.timers[k] = b.spec.brief /\ k \in OwnTimed(b.spec.brief)
    BY <1>0, <1>2, <2>1 DEF Belongs, Scheduled
  <2>2. ASSUME NEW k \in Keys, b.actions[k] # NoRow,
               b.actions[k].by = "xvond"
        PROVE  b.spec.need[k] \notin {"off", "input"}
    BY <1>1, <2>2 DEF Belongs, Action
  <2>3. ASSUME NEW r \in Routines, b.rows[r] # NoRow
        PROVE  b.rows[r].brief = b.spec.brief
    BY <1>0, <1>r, <2>3 DEF Belongs
  <2> QED
    BY <2>1, <2>2, <2>3 DEF Belongs
<1>6. Granted(b, o)
  <2> SUFFICES ASSUME NEW k \in Keys, b.actions[k] # NoRow,
                      b.actions[k].by = "xvond", b.spec.need[k] = "managed"
               PROVE  b.actions[k].mode = Mode(o, k)
    BY DEF Granted
  <2>1. k \in Built(s)
    BY <1>1 DEF Built
  <2>2. CASE had.actions[k] = NoRow
    <3>1. b.actions[k] = NewAction(s, o, k)
      BY <1>1, <2>1, <2>2 DEF Action
    <3> QED
      BY <3>1 DEF NewAction
  <2>3. CASE had.actions[k] # NoRow
    <3>1. had.actions[k] \in Actions
      BY <2>3 DEF Shelf
    <3>2. b.actions[k] = IF had.actions[k].by = "xvond"
                         THEN [had.actions[k] EXCEPT !.mode = Mode(o, k)]
                         ELSE had.actions[k]
      BY <1>1, <2>1, <2>3 DEF Action
    <3> QED
      BY <3>1, <3>2 DEF Actions
  <2> QED
    BY <2>2, <2>3
<1>7. Shown(b)
  <2> SUFFICES ASSUME NEW r \in Routines, Uses[s.brief][r] # {}
               PROVE  /\ b.plan.trig[r] # "none"
                      /\ b.plan.trig[r] = "ready" => /\ b.rows[r] # NoRow
                                                     /\ b.rows[r].on
    BY <1>0 DEF Shown
  <2> QED
    BY <1>r, <1>n DEF TriggerStatus
<1>8. ASSUME ~op PROVE Own(b.spec, b)
  <2>1. Own(s, had)
    BY <1>8
  <2>2. b.tool # "off"
    BY <1>0, <2>1 DEF Own
  <2> SUFFICES ASSUME NEW k \in Keys, b.actions[k] # NoRow
               PROVE  /\ b.actions[k].by = "xvond" /\ b.actions[k].on
                      /\ b.actions[k].to # 0 => k \in External(s.brief)
                      /\ b.actions[k].set = SetUp(s, k)
    BY <1>0, <2>2 DEF Own, SetUp
  <2>3. CASE had.actions[k] = NoRow
    <3>1. b.actions[k] = NewAction(s, o, k)
      BY <1>1, <2>3 DEF Action
    <3>2. /\ b.actions[k].by = "xvond" /\ b.actions[k].on = TRUE
          /\ b.actions[k].to = Destination(s, k)
          /\ b.actions[k].set = SetUp(s, k)
      BY <3>1 DEF NewAction
    <3> QED
      BY <3>2 DEF Destination
  <2>4. CASE had.actions[k] # NoRow
    <3>1. had.actions[k] \in Actions
      BY <2>4 DEF Shelf
    <3>2. b.actions[k] \in {had.actions[k],
                            [had.actions[k] EXCEPT !.mode = Mode(o, k)]}
      BY <1>1, <2>4 DEF Action
    <3>3. /\ b.actions[k].by = had.actions[k].by
          /\ b.actions[k].on = had.actions[k].on
          /\ b.actions[k].to = had.actions[k].to
          /\ b.actions[k].set = had.actions[k].set
      BY <3>1, <3>2 DEF Actions
    <3> QED
      BY <2>1, <2>4, <3>3 DEF Own
  <2> QED
    BY <2>3, <2>4
<1>9. ASSUME ~op PROVE Works(b)
  <2> SUFFICES ASSUME NEW k \in Keys, k \in Built(s)
               PROVE  /\ b.tool = "on"
                      /\ b.plan.exec[k] \notin {"none", "disabled"}
                      /\ b.plan.exec[k] = "permission_denied" =>
                            b.actions[k].mode = "never"
                      /\ b.plan.exec[k] = "setup_required" =>
                            b.actions[k].set = "no" \/ b.actions[k].to # 0
                      /\ b.plan.exec[k] = "ready" /\ k \in OwnTimed(s.brief)
                            => b.timers[k] # NoRow
    BY <1>0, <1>1, <1>t DEF Works, Built
  <2>1. b.actions[k].by = "xvond" /\ b.actions[k].on
    BY <1>8, <1>9, <1>t DEF Own
  <2>2. had.tool # "off" /\ b.tool = "on"
    BY <1>0, <1>9 DEF Own, Shelf
  <2>3. b.plan.exec[k] = ExecStatus(s, b.actions[k], had, k)
    BY <1>1
  <2>4. /\ b.plan.exec[k] \notin {"none", "disabled"}
        /\ b.plan.exec[k] = "permission_denied" => b.actions[k].mode = "never"
        /\ b.plan.exec[k] = "setup_required" =>
              b.actions[k].set = "no" \/ b.actions[k].to # 0
    BY <2>1, <2>2, <2>3 DEF ExecStatus, Status
  <2>5. ASSUME b.plan.exec[k] = "ready", k \in OwnTimed(s.brief)
        PROVE  b.timers[k] # NoRow
    <3>1. Scheduled(s, b.actions[k], k)
      BY <2>3, <2>5 DEF ExecStatus, Scheduled, Unscheduled
    <3> QED
      BY <1>2, <1>n, <2>5, <3>1
  <2> QED
    BY <2>2, <2>4, <2>5
<1>10. ASSUME ~op PROVE Blocked(b)
  <2> SUFFICES ASSUME NEW r \in Routines, b.plan.trig[r] = "setup_required"
               PROVE  \E k \in Uses[s.brief][r] :
                          \/ b.spec.need[k] # "managed"
                          \/ b.actions[k].mode # "never"
                             /\ b.plan.exec[k] # "ready"
    BY <1>0 DEF Blocked
  <2>1. ~Runnable(s, b.actions, b.plan.exec, r)
    BY <1>r DEF TriggerStatus
  <2>2. PICK k \in Uses[s.brief][r] :
            \/ b.actions[k] = NoRow
            \/ /\ b.plan.exec[k] # "ready"
               /\ b.actions[k].by # "xvond" \/ b.actions[k].mode # "never"
    BY <2>1 DEF Runnable
  <2>3. k \in Keys
    BY <1>s, KindsAre DEF Specs
  <2>4. CASE k \notin Built(s)
    <3>1. b.spec.need[k] # "managed"
      BY <1>1, <2>3, <2>4 DEF Built
    <3> QED
      BY <3>1
  <2>5. CASE k \in Built(s)
    <3>1. b.actions[k].by = "xvond"
      BY <1>8, <1>10, <1>t, <2>3, <2>5 DEF Own
    <3>2. b.actions[k].mode # "never" /\ b.plan.exec[k] # "ready"
      BY <1>t, <2>2, <2>3, <2>5, <3>1
    <3> QED
      BY <3>2
  <2> QED
    BY <2>4, <2>5
<1> QED
  BY <1>b, <1>p, <1>3, <1>4, <1>5, <1>6, <1>7, <1>8, <1>9, <1>10 DEF Fits

-----------------------------------------------------------------------------
(* Changes of a build before it is provisioned.                            *)

\* Only what waits for a connected system is changed.
Alike(s, t) ==
    /\ t \in Specs /\ t.brief = s.brief /\ t.inputs = s.inputs
    /\ \A k \in Keys : \/ t.need[k] = s.need[k]
                       \/ /\ k \in External(s.brief)
                          /\ t.need[k] \in {"build", "connection"}

LEMMA AlikeIsMade ==
    ASSUME NEW s, Made(s), NEW t, Alike(s, t)
    PROVE  Made(t)
  BY DEF Made, Alike, External

LEMMA AlikeBelongs ==
    ASSUME NEW s, Made(s), NEW t, Alike(s, t), NEW had, Belongs(s, had)
    PROVE  Belongs(t, had)
<1>1. t.brief = s.brief
  BY DEF Alike
<1>2. \A k \in Keys : t.need[k] \in {"off", "input"} => t.need[k] = s.need[k]
  BY DEF Alike
<1> QED
  BY <1>1, <1>2 DEF Belongs

LEMMA AlikeOwn ==
    ASSUME NEW s, NEW t, Alike(s, t), NEW had, Own(s, had)
    PROVE  Own(t, had)
  BY DEF Alike, Own, SetUp

LEMMA AlikeTold ==
    ASSUME NEW s, NEW t, Alike(s, t), NEW given, Told(s, given)
    PROVE  Told(t, given)
  BY DEF Alike, Told

LEMMA AlikeAsked ==
    ASSUME NEW s \in Specs, NEW t, Alike(s, t), NEW given, Asked(s, given)
    PROVE  Asked(t, given)
  BY NoneAssumption DEF Alike, Asked

LEMMA FoundAlike ==
    ASSUME NEW s, NEW t, Alike(s, t), NEW f \in Found
    PROVE  Alike(s, [t EXCEPT !.found = f])
<1>1. [t EXCEPT !.found = f] \in Specs
  BY DEF Alike, Specs
<1> QED
  BY <1>1 DEF Alike, Specs

LEMMA LinkAlike ==
    ASSUME NEW s, NEW t, Alike(s, t), NEW c \in {0} \cup Conns
    PROVE  Alike(s, [t EXCEPT !.link = c])
<1>1. [t EXCEPT !.link = c] \in Specs
  BY DEF Alike, Specs
<1> QED
  BY <1>1 DEF Alike, Specs

LEMMA WaitingAlike ==
    ASSUME NEW s \in Specs, NEW need \in {"build", "connection"}
    PROVE  Alike(s, Waiting(s, need))
<1> DEFINE n == [k \in Keys |-> IF k \in External(s.brief)
                                THEN need ELSE s.need[k]]
<1>1. n \in [Keys -> Needs]
  BY DEF Specs, Needs
<1>2. Waiting(s, need) = [s EXCEPT !.need = n]
  BY DEF Waiting
<1>3. \A k \in Keys : n[k] = IF k \in External(s.brief)
                             THEN need ELSE s.need[k]
  OBVIOUS
<1> HIDE DEF n
<1>4. /\ Waiting(s, need) \in Specs
      /\ Waiting(s, need).brief = s.brief
      /\ Waiting(s, need).inputs = s.inputs
      /\ Waiting(s, need).need = n
  BY <1>1, <1>2 DEF Specs
<1> QED
  BY <1>3, <1>4 DEF Alike

LEMMA LinkedAlike ==
    ASSUME NEW s \in Specs, NEW c \in Conns
    PROVE  Alike(s, Linked(s, c))
  BY WaitingAlike, LinkAlike DEF Linked

\* At most the waiting requirements of a connected system are built.
LEMMA AutoBoundAlike ==
    ASSUME NEW s \in Specs, NEW usable \in SUBSET Conns
    PROVE  /\ Alike(s, AutoBound(s, usable))
           /\ \A k \in Keys :
                 AutoBound(s, usable).need[k] = "connection"
                    => s.need[k] = "connection"
<1> DEFINE waits == {k \in External(s.brief) : s.need[k] = "connection"}
           found == CHOOSE c \in usable : TRUE
           n == [k \in Keys |-> IF k \in waits THEN "build" ELSE s.need[k]]
           t == [s EXCEPT !.link = found, !.need = n]
<1>1. CASE AutoBound(s, usable) = s
  BY <1>1 DEF Alike
<1>2. CASE waits # {} /\ s.link = 0 /\ Cardinality(usable) = 1
  <2>1. found \in Conns
    <3>1. usable # {}
      BY <1>2, FS_EmptySet
    <3> QED
      BY <3>1
  <2>2. n \in [Keys -> Needs]
    BY DEF Specs, Needs
  <2>3. AutoBound(s, usable) = t
    BY <1>2 DEF AutoBound
  <2>4. \A k \in Keys : n[k] = IF k \in waits THEN "build" ELSE s.need[k]
    OBVIOUS
  <2>5. waits \subseteq External(s.brief)
    OBVIOUS
  <2> HIDE DEF waits, found, n
  <2>6. /\ t \in Specs /\ t.brief = s.brief /\ t.inputs = s.inputs
        /\ t.need = n
    BY <2>1, <2>2 DEF Specs
  <2> QED
    BY <2>3, <2>4, <2>5, <2>6 DEF Alike
<1> QED
  BY <1>1, <1>2 DEF AutoBound

\* A build just compiled is not told anything yet.
LEMMA OutcomesAreMade ==
    ASSUME NEW b \in Briefs, NEW s \in Outcomes(b)
    PROVE  /\ Made(s) /\ s.brief = b /\ s.inputs = NoAnswers
           /\ s.link \in {0} \cup Conns
<1>1. ASSUME NEW f \in Found, NEW c \in {0} \cup Conns
      PROVE  /\ Made(Fresh(b, f, c)) /\ Fresh(b, f, c).brief = b
             /\ Fresh(b, f, c).inputs = NoAnswers /\ Fresh(b, f, c).link = c
  <2> DEFINE n == [k \in Keys |-> Need(b, k, c)]
             t == Fresh(b, f, c)
  <2>1. \A k \in Keys : Kind[b][k] \in Kinds
    BY KindsAre
  <2>2. \A k \in Keys : n[k] = Need(b, k, c)
    OBVIOUS
  <2>3. \A k \in Keys :
            /\ n[k] \in Needs
            /\ n[k] = "off" <=> Kind[b][k] = "off"
            /\ n[k] = "input" <=> Kind[b][k] = "input"
            /\ n[k] = "connection" => Kind[b][k] = "external"
    BY <2>1, <2>2 DEF Need, Needs, Kinds
  <2>4. n \in [Keys -> Needs] /\ NoAnswers \in Given
    BY <2>3 DEF NoAnswers, Given
  <2>5. t = [brief |-> b, link |-> c, found |-> f, inputs |-> NoAnswers,
             need |-> n]
    BY DEF Fresh
  <2> HIDE DEF n, t
  <2>6. t \in Specs
    BY <2>4, <2>5 DEF Specs
  <2>7. t.brief = b /\ t.inputs = NoAnswers /\ t.need = n /\ t.link = c
    BY <2>5
  <2>8. Made(t)
    BY <2>3, <2>6, <2>7 DEF Made
  <2> QED
    BY <2>7, <2>8 DEF t
<1>2. PICK f \in Found, c \in {0} \cup Conns : s = Fresh(b, f, c)
  BY DEF Outcomes, Found, Unused
<1> QED
  BY <1>1, <1>2

\* What the build before was told is carried over, and no more.
LEMMA CarriedIsMade ==
    ASSUME NEW s, Made(s), s.inputs = NoAnswers, NEW prev \in Specs,
           NEW given, Told(prev, given)
    PROVE  Made(Carried(s, prev)) /\ Told(Carried(s, prev), given)
<1> DEFINE bound == s.link = 0 /\ prev.link # 0 /\ External(s.brief) # {}
                    /\ External(s.brief) = External(prev.brief)
           told == {k \in Keys : Kind[s.brief][k] # "off"
                                   /\ prev.inputs[k] # "none"}
           link == IF bound THEN prev.link ELSE s.link
           need == [k \in Keys |->
                      IF \/ bound /\ s.need[k] = "connection"
                         \/ k \in told /\ s.need[k] = "input"
                      THEN "build" ELSE s.need[k]]
           ins == [k \in Keys |-> IF k \in told THEN prev.inputs[k]
                                                ELSE s.inputs[k]]
           t == [s EXCEPT !.link = link, !.need = need, !.inputs = ins]
<1>1. Carried(s, prev) = t
  <2>1. s \in Specs /\ prev # NoSpec
    BY NoneAssumption DEF Made
  <2> QED
    BY <2>1 DEF Carried, Specs
<1>2. s \in Specs
  BY DEF Made
<1>3. link \in {0} \cup Conns
  BY <1>2 DEF Specs
<1>4. /\ need \in [Keys -> Needs] /\ ins \in Given
  BY <1>2 DEF Specs, Needs, Given
<1>5. \A k \in Keys :
          /\ need[k] \in {s.need[k], "build"}
          /\ need[k] = "build" =>
                \/ s.need[k] \in {"build", "connection"}
                \/ s.need[k] = "input" /\ prev.inputs[k] # "none"
                                       /\ Kind[s.brief][k] # "off"
          /\ ins[k] = IF prev.inputs[k] # "none" /\ Kind[s.brief][k] # "off"
                      THEN prev.inputs[k] ELSE "none"
  BY DEF NoAnswers
<1> HIDE DEF need, ins, link
<1>6. /\ t \in Specs /\ t.brief = s.brief /\ t.need = need
      /\ t.inputs = ins
  BY <1>2, <1>3, <1>4 DEF Specs
<1> HIDE DEF t
<1>7. Told(t, given)
  BY <1>5, <1>6 DEF Told
<1>8. Made(t)
  BY <1>5, <1>6 DEF Made, NoAnswers
<1> QED
  BY <1>1, <1>7, <1>8

\* What waits in t waits in s.
Kin(s, t) ==
    /\ t.brief = s.brief
    /\ \A k \in Keys :
          /\ t.need[k] = "input" <=> s.need[k] = "input"
          /\ t.need[k] = "connection" => s.need[k] = "connection"

LEMMA KinAsked ==
    ASSUME NEW s \in Specs, NEW t, Kin(s, t), NEW given, Asked(s, given)
    PROVE  Asked(t, given)
  BY NoneAssumption DEF Kin, Asked

LEMMA AutoBoundKin ==
    ASSUME NEW s, Made(s), NEW usable \in SUBSET Conns
    PROVE  Kin(s, AutoBound(s, usable))
<1>1. /\ Alike(s, AutoBound(s, usable))
      /\ \A k \in Keys : AutoBound(s, usable).need[k] = "connection"
                            => s.need[k] = "connection"
  BY AutoBoundAlike DEF Made
<1> QED
  BY <1>1 DEF Kin, Alike, Made, External

LEMMA ProvisionedKin ==
    ASSUME NEW s \in Specs, NEW o \in Grants, NEW had \in Shelf
    PROVE  /\ Provisioned(s, o, had) \in Results
           /\ Kin(s, Provisioned(s, o, had).spec)
           /\ Provisioned(s, o, had).spec.inputs = s.inputs
<1> DEFINE b == Provisioned(s, o, had)
<1> HIDE DEF b
<1>1. Parts(b, s, o, had)
  BY ProvisionedParts DEF b
<1>2. b \in Results /\ b.spec.brief = s.brief /\ b.spec.inputs = s.inputs
  BY <1>1 DEF Parts
<1>3. \A k \in Keys :
          b.spec.need[k] = IF k \in Built(s) THEN "managed" ELSE s.need[k]
  BY <1>1 DEF Parts
<1>4. Kin(s, b.spec)
  BY <1>2, <1>3 DEF Kin, Built
<1> QED
  BY <1>2, <1>4 DEF b

Answered(b, given) == [b EXCEPT !.spec.inputs = given]

\* Keeping all answers in the build changes none of those it was set up with.
LEMMA AnswersFit ==
    ASSUME NEW b \in Results, NEW o, NEW op \in BOOLEAN, Fits(b, o, op),
           Made(b.spec), NEW given \in Given, Told(b.spec, given),
           NEW c, c = Answered(b, given)
    PROVE  /\ c \in Results /\ Fits(c, o, op) /\ Made(c.spec)
           /\ Told(c.spec, given) /\ Kin(b.spec, c.spec)
<1>1. b.spec \in Specs
  BY DEF Results
<1>2. c.spec = [b.spec EXCEPT !.inputs = given]
  BY DEF Results, Answered
<1>3. /\ c.spec \in Specs /\ c.spec.brief = b.spec.brief
      /\ c.spec.need = b.spec.need /\ c.spec.inputs = given
  BY <1>1, <1>2 DEF Specs
<1>4. /\ c \in Results /\ c.plan = b.plan /\ c.actions = b.actions
      /\ c.tool = b.tool /\ c.timers = b.timers /\ c.rows = b.rows
  BY <1>3 DEF Results, Answered
<1>5. Told(c.spec, given) /\ Kin(b.spec, c.spec)
  BY <1>3 DEF Told, Kin
<1>6. Made(c.spec)
  BY <1>3 DEF Made, Told
<1>7. /\ Belongs(c.spec, c) /\ Granted(c, o) /\ Shown(c)
      /\ c.plan # NoPlan /\ \A k \in Keys : c.spec.need[k] # "build"
  BY <1>3, <1>4 DEF Fits, Belongs, Granted, Shown
<1>8. ASSUME ~op PROVE Works(c) /\ Blocked(c)
  BY <1>3, <1>4, <1>8 DEF Fits, Works, Blocked
<1>9. ASSUME ~op PROVE Own(c.spec, c)
  <2>1. Own(b.spec, b) /\ Belongs(b.spec, b)
    BY <1>9 DEF Fits
  <2>2. ASSUME NEW k \in Keys, b.actions[k] # NoRow
        PROVE  SetUp(c.spec, k) = SetUp(b.spec, k)
    <3>1. b.spec.need[k] \notin {"off", "input", "build"}
      BY <2>1, <2>2 DEF Own, Belongs, Fits
    <3>2. b.spec.need[k] \in Needs
      BY <1>1 DEF Specs
    <3>3. CASE Kind[b.spec.brief][k] = "input"
      <4>1. b.spec.need[k] = "managed"
        BY <3>1, <3>2, <3>3 DEF Needs, Made
      <4>2. b.spec.inputs[k] # "none"
        BY <3>3, <4>1 DEF Made
      <4>3. b.spec.inputs[k] = given[k]
        BY <4>2 DEF Told
      <4> QED
        BY <1>3, <4>3 DEF SetUp
    <3> QED
      BY <1>3, <3>3 DEF SetUp
  <2> QED
    BY <1>3, <1>4, <2>1, <2>2 DEF Own
<1> QED
  BY <1>4, <1>5, <1>6, <1>7, <1>8, <1>9 DEF Fits

\* What is stored of a build fits together.
LEMMA StoredFits ==
    ASSUME NEW s, Made(s), NEW o \in Grants, NEW had \in Shelf,
           NEW op \in BOOLEAN, Belongs(s, had), op \/ Own(s, had),
           NEW given \in Given, Told(s, given),
           NEW b, b = Stored(s, o, given, had)
    PROVE  /\ b \in Results /\ Fits(b, o, op) /\ Made(b.spec)
           /\ Told(b.spec, given) /\ Kin(s, b.spec)
<1> DEFINE t == AutoBound(s, Valid)
           p == Provisioned(t, o, had)
<1>1. s \in Specs /\ Valid \in SUBSET Conns
  BY DEF Made, Valid
<1>2. Alike(s, t) /\ Kin(s, t)
  BY <1>1, AutoBoundAlike, AutoBoundKin
<1> HIDE DEF t
<1>3. Made(t) /\ Belongs(t, had) /\ (op \/ Own(t, had)) /\ Told(t, given)
  BY <1>2, AlikeIsMade, AlikeBelongs, AlikeOwn, AlikeTold
<1>4. /\ p \in Results /\ Kin(t, p.spec) /\ p.spec.inputs = t.inputs
  BY <1>3, ProvisionedKin DEF Made
<1>5. Fits(p, o, op) /\ Made(p.spec)
  BY <1>3, ProvisionedFits
<1>6. b = IF given = NoAnswers THEN p ELSE Answered(p, given)
  BY DEF Stored, Answered, t
<1> HIDE DEF p
<1>7. Told(p.spec, given)
  BY <1>3, <1>4 DEF Told
<1>8. Kin(s, p.spec)
  BY <1>2, <1>4 DEF Kin
<1>9. CASE given = NoAnswers
  BY <1>4, <1>5, <1>6, <1>7, <1>8, <1>9
<1>10. CASE given # NoAnswers
  <2>1. b = Answered(p, given)
    BY <1>6, <1>10
  <2>2. /\ b \in Results /\ Fits(b, o, op) /\ Made(b.spec)
        /\ Told(b.spec, given) /\ Kin(p.spec, b.spec)
    BY <1>4, <1>5, <1>7, <2>1, AnswersFit
  <2> QED
    BY <1>8, <2>2 DEF Kin
<1> QED
  BY <1>9, <1>10

-----------------------------------------------------------------------------
(* What is there.                                                          *)

IsHad(h) == /\ h \in Shelf /\ h.actions = actions /\ h.tool = tool
            /\ h.timers = timers /\ h.rows = rows

LEMMA HadIs ==
    ASSUME ProvisioningTypeOK
    PROVE  /\ IsHad(Had)
           /\ \A c \in {0} \cup Conns : IsHad(With(c, Had))
<1>1. Had \in Shelf
  BY DEF Had, Shelf, ProvisioningTypeOK, Valid
<1>2. IsHad(Had)
  BY <1>1 DEF Had, IsHad
<1>3. ASSUME NEW c \in {0} \cup Conns
      PROVE  IsHad(With(c, Had))
  <2> DEFINE valid == Valid \cup ({c} \ {0})
  <2>1. valid \in SUBSET Conns
    BY DEF Valid
  <2>2. With(c, Had) = [Had EXCEPT !.valid = valid]
    BY DEF With, Had
  <2> HIDE DEF valid
  <2>3. With(c, Had) = [actions |-> actions, tool |-> tool,
                        timers |-> timers, rows |-> rows, valid |-> valid]
    BY <2>2 DEF Had
  <2> QED
    BY <2>1, <2>3 DEF IsHad, Shelf, ProvisioningTypeOK
<1> QED
  BY <1>2, <1>3

LEMMA ClearedIs ==
    ASSUME ProvisioningTypeOK
    PROVE  /\ Cleared \in Shelf /\ Cleared.tool = tool
           /\ \A k \in Keys :
                 /\ Cleared.timers[k] = NoRow
                 /\ Cleared.actions[k] =
                       IF actions[k] # NoRow /\ actions[k].by = "operator"
                       THEN actions[k] ELSE NoRow
           /\ \A r \in Routines : Cleared.rows[r] = NoRow
<1> DEFINE a == [k \in Keys |->
                    IF actions[k] # NoRow /\ actions[k].by = "operator"
                    THEN actions[k] ELSE NoRow]
           t == [k \in Keys |-> NoRow]
           w == [r \in Routines |-> NoRow]
<1>1. /\ a \in [Keys -> Actions \cup {NoRow}]
      /\ t \in [Keys -> Briefs \cup {NoRow}]
      /\ w \in [Routines -> Workflows \cup {NoRow}]
  BY DEF ProvisioningTypeOK
<1>2. Cleared = [actions |-> a, tool |-> tool, timers |-> t, rows |-> w,
                 valid |-> Valid]
  BY DEF Cleared
<1>3. /\ \A k \in Keys : t[k] = NoRow
      /\ \A r \in Routines : w[r] = NoRow
      /\ \A k \in Keys : a[k] =
            IF actions[k] # NoRow /\ actions[k].by = "operator"
            THEN actions[k] ELSE NoRow
  OBVIOUS
<1>4. Valid \in SUBSET Conns /\ tool \in {"none", "on", "off"}
  BY DEF Valid, ProvisioningTypeOK
<1> HIDE DEF a, t, w
<1>5. Cleared \in Shelf
  BY <1>1, <1>2, <1>4 DEF Shelf
<1> QED
  BY <1>2, <1>3, <1>5

\* What is there belongs to the stored build.
LEMMA HadBelongs ==
    ASSUME ProvisioningInv, spec # NoSpec, NEW h, IsHad(h)
    PROVE  Belongs(spec, h) /\ (operated \/ Own(spec, h))
<1>1. /\ Belongs(spec, Current)
      /\ operated \/ Own(spec, Current)
  BY DEF ProvisioningInv, Whole, Fits, Current
<1>2. /\ h.actions = Current.actions /\ h.tool = Current.tool
      /\ h.timers = Current.timers /\ h.rows = Current.rows
  BY DEF IsHad, Current
<1> HIDE DEF Current
<1> QED
  BY <1>1, <1>2 DEF Belongs, Own

\* Before the first build there is nothing that belongs to another.
LEMMA BlankBelongs ==
    ASSUME ProvisioningInv, spec = NoSpec, NEW h, IsHad(h), NEW s
    PROVE  Belongs(s, h) /\ (operated \/ Own(s, h))
<1>1. Blank(Current, operated)
  BY DEF ProvisioningInv, Whole
<1> QED
  BY <1>1 DEF Blank, Current, IsHad, Belongs, Own

\* Nor is there when what was there is cleared.
LEMMA ClearedBelongs ==
    ASSUME ProvisioningInv, NEW s
    PROVE  Belongs(s, Cleared) /\ (operated \/ Own(s, Cleared))
<1>1. /\ Cleared.tool = tool
      /\ \A k \in Keys :
            /\ Cleared.timers[k] = NoRow
            /\ Cleared.actions[k] =
                  IF actions[k] # NoRow /\ actions[k].by = "operator"
                  THEN actions[k] ELSE NoRow
      /\ \A r \in Routines : Cleared.rows[r] = NoRow
  BY ClearedIs DEF ProvisioningInv
<1>2. Belongs(s, Cleared)
  BY <1>1 DEF Belongs
<1>3. ASSUME ~operated
      PROVE  /\ tool # "off"
             /\ \A k \in Keys : actions[k] # NoRow => actions[k].by = "xvond"
  BY <1>3 DEF ProvisioningInv, Whole, Fits, Blank, Own, Current
<1>4. ASSUME ~operated PROVE Own(s, Cleared)
  BY <1>1, <1>3, <1>4 DEF Own
<1> QED
  BY <1>2, <1>4

LEMMA StoreKeeps ==
    ASSUME NEW b \in Results, Store(b), NEW o, owner' = o,
           NEW op \in BOOLEAN, operated' = op, Fits(b, o, op)
    PROVE  /\ Whole' /\ spec' = b.spec /\ spec' \in Specs
           /\ plan' \in Plans
           /\ actions' \in [Keys -> Actions \cup {NoRow}]
           /\ tool' \in {"none", "on", "off"}
           /\ timers' \in [Keys -> Briefs \cup {NoRow}]
           /\ rows' \in [Routines -> Workflows \cup {NoRow}]
<1>1. /\ spec' = b.spec /\ plan' = b.plan /\ actions' = b.actions
      /\ tool' = b.tool /\ timers' = b.timers /\ rows' = b.rows
  BY DEF Store
<1>2. spec' \in Specs /\ spec' # NoSpec
  BY <1>1, NoneAssumption DEF Results
<1>3. Fits(Current, owner, operated)'
  BY <1>1 DEF Fits, Belongs, Granted, Shown, Own, Works, Blocked, Current
<1> QED
  BY <1>1, <1>2, <1>3 DEF Whole, Results

-----------------------------------------------------------------------------
(* The draft.                                                              *)

LEMMA InitWhole == ProvisioningInit => ProvisioningInv
<1> SUFFICES ASSUME ProvisioningInit PROVE ProvisioningInv
  OBVIOUS
<1>1. NoAnswers \in Given /\ Unset \in Grants
  BY DEF NoAnswers, Given, Unset, Grants
<1>2. ProvisioningTypeOK
  <2>1. version \in [spec : Specs \cup {NoSpec}, answers : Given,
                     owner : Grants]
    BY <1>1 DEF ProvisioningInit
  <2>2. changes \in 0 .. MaxChanges
    BY ProvisioningAssumption DEF ProvisioningInit
  <2>3. /\ actions \in [Keys -> Actions \cup {NoRow}]
        /\ timers \in [Keys -> Briefs \cup {NoRow}]
        /\ rows \in [Routines -> Workflows \cup {NoRow}]
        /\ conn \in [Conns -> {"none", "valid", "stale"}]
    BY DEF ProvisioningInit
  <2>4. /\ live \in BOOLEAN /\ operated \in BOOLEAN
        /\ spec \in Specs \cup {NoSpec} /\ plan \in Plans \cup {NoPlan}
        /\ owner \in Grants /\ answers \in Given
        /\ pending \in Revisions \cup {NoRevision}
        /\ tool \in {"none", "on", "off"}
    BY <1>1 DEF ProvisioningInit
  <2> QED
    BY <2>1, <2>2, <2>3, <2>4 DEF ProvisioningTypeOK
<1>3. Builds
  BY DEF ProvisioningInit, Builds, Kept, Asked
<1>4. LiveConnected /\ Whole
  BY DEF ProvisioningInit, LiveConnected, Whole, Blank, Current
<1> QED
  BY <1>2, <1>3, <1>4 DEF ProvisioningInv

LEMMA ConnectTyped ==
    ASSUME ProvisioningTypeOK, NEW c, Connect(c)
    PROVE  conn' \in [Conns -> {"none", "valid", "stale"}]
  BY DEF ProvisioningTypeOK, Connect

LEMMA ChangeTyped ==
    ASSUME ProvisioningTypeOK, Change
    PROVE  changes' \in 0 .. MaxChanges
  BY ProvisioningAssumption DEF ProvisioningTypeOK, Change

LEMMA RebaseKeeps ==
    ASSUME ProvisioningTypeOK, Rebase
    PROVE  /\ pending' \in Revisions \cup {NoRevision}
           /\ pending' # NoRevision =>
                 /\ pending # NoRevision
                 /\ pending'.spec = pending.spec
                 /\ pending'.answers = pending.answers
<1>1. CASE pending = NoRevision
  BY <1>1 DEF Rebase
<1>2. CASE pending # NoRevision
  <2>1. pending \in Revisions
    BY <1>2 DEF ProvisioningTypeOK
  <2>2. pending' = [pending EXCEPT !.onBase = FALSE]
    BY <1>2 DEF Rebase
  <2> QED
    BY <1>2, <2>1, <2>2 DEF Revisions
<1> QED
  BY <1>1, <1>2

LEMMA SnapshotKeeps ==
    ASSUME ProvisioningTypeOK, Snapshot
    PROVE  /\ version' \in [spec : Specs \cup {NoSpec}, answers : Given,
                            owner : Grants]
           /\ version'.spec = spec /\ version'.answers = answers
  BY DEF ProvisioningTypeOK, Snapshot

LEMMA CompileKeeps ==
    ASSUME ProvisioningInv, Compile
    PROVE  ProvisioningInv'
<1>0. /\ ProvisioningTypeOK /\ owner \in Grants /\ answers \in Given
      /\ operated \in BOOLEAN
      /\ UNCHANGED <<live, answers, owner, pending, version, counts>>
  BY DEF ProvisioningInv, ProvisioningTypeOK, Compile
<1>u. owner' = owner /\ operated' = operated
  BY <1>0 DEF counts
<1>1. ASSUME spec = NoSpec, NEW b \in Briefs, NEW s \in Outcomes(b),
             Connect(s.link),
             Store(Stored(s, owner, answers, With(s.link, Had)))
      PROVE  ProvisioningInv'
  <2> DEFINE h == With(s.link, Had)
             r == Stored(s, owner, answers, h)
  <2>1. /\ Made(s) /\ s.inputs = NoAnswers /\ s.link \in {0} \cup Conns
    BY OutcomesAreMade
  <2>2. Told(s, answers)
    BY <2>1 DEF Told, NoAnswers
  <2>3. IsHad(h)
    BY <1>0, <2>1, HadIs
  <2> HIDE DEF h
  <2>4. h \in Shelf /\ Belongs(s, h) /\ (operated \/ Own(s, h))
    BY <1>1, <2>3, BlankBelongs DEF IsHad
  <2>5. Store(r)
    BY <1>1 DEF h
  <2> HIDE DEF r
  <2>6. /\ r \in Results /\ Fits(r, owner, operated) /\ Made(r.spec)
        /\ Told(r.spec, answers)
    BY <1>0, <2>1, <2>2, <2>4, StoredFits DEF r
  <2>7. /\ Whole' /\ spec' = r.spec /\ spec' \in Specs
        /\ plan' \in Plans
        /\ actions' \in [Keys -> Actions \cup {NoRow}]
        /\ tool' \in {"none", "on", "off"}
        /\ timers' \in [Keys -> Briefs \cup {NoRow}]
        /\ rows' \in [Routines -> Workflows \cup {NoRow}]
    BY <1>0, <1>u, <2>5, <2>6, StoreKeeps
  <2>8. ProvisioningTypeOK'
    BY <1>0, <1>1, <2>7, ConnectTyped DEF ProvisioningTypeOK, counts
  <2>9. answers = NoAnswers /\ ~live
    BY <1>1 DEF ProvisioningInv, Builds, Kept, LiveConnected
  <2>10. Asked(spec, answers)'
    BY <1>0, <2>9 DEF Asked, NoAnswers
  <2>11. Builds'
    BY <1>0, <1>u, <2>6, <2>7, <2>10, NoneAssumption
       DEF ProvisioningInv, Builds, Kept, Made, Told, Asked
  <2>12. LiveConnected'
    BY <1>0, <2>9 DEF LiveConnected
  <2> QED
    BY <2>7, <2>8, <2>11, <2>12 DEF ProvisioningInv
<1>2. ASSUME spec # NoSpec, Store(Stored(spec, owner, answers, Had)),
             UNCHANGED conn
      PROVE  ProvisioningInv'
  <2> DEFINE r == Stored(spec, owner, answers, Had)
  <2>1. Made(spec) /\ Told(spec, answers)
    BY <1>2 DEF ProvisioningInv, Builds, Kept
  <2>2. IsHad(Had)
    BY <1>0, HadIs
  <2>3. Had \in Shelf /\ Belongs(spec, Had) /\ (operated \/ Own(spec, Had))
    BY <1>2, <2>2, HadBelongs DEF IsHad
  <2>4. Store(r)
    BY <1>2
  <2> HIDE DEF r
  <2>5. /\ r \in Results /\ Fits(r, owner, operated) /\ Made(r.spec)
        /\ Told(r.spec, answers) /\ Kin(spec, r.spec)
    BY <1>0, <2>1, <2>3, StoredFits DEF r
  <2>6. /\ Whole' /\ spec' = r.spec /\ spec' \in Specs
        /\ plan' \in Plans
        /\ actions' \in [Keys -> Actions \cup {NoRow}]
        /\ tool' \in {"none", "on", "off"}
        /\ timers' \in [Keys -> Briefs \cup {NoRow}]
        /\ rows' \in [Routines -> Workflows \cup {NoRow}]
    BY <1>0, <1>u, <2>4, <2>5, StoreKeeps
  <2>7. ProvisioningTypeOK'
    BY <1>0, <1>2, <2>6 DEF ProvisioningTypeOK, counts
  <2>8. ~operated => Asked(r.spec, answers)
    BY <2>1, <2>5, KinAsked DEF ProvisioningInv, Builds, Made
  <2>9. Builds'
    BY <1>0, <1>u, <2>5, <2>6, <2>8, NoneAssumption
       DEF ProvisioningInv, Builds, Kept, Made, Told, Asked
  <2>10. LiveConnected'
    BY <1>0, <2>5, <2>6, NoneAssumption
       DEF ProvisioningInv, LiveConnected, Unconnected, Kin
  <2> QED
    BY <2>6, <2>7, <2>9, <2>10 DEF ProvisioningInv
<1> QED
  BY <1>1, <1>2 DEF Compile

\* Nothing is left of the build but what an operator changed.
LEMMA UnbuildKeeps ==
    ASSUME ProvisioningInv, Unbuild(Cleared), operated' = operated
    PROVE  /\ Whole' /\ spec' = NoSpec /\ plan' = NoPlan
           /\ actions' \in [Keys -> Actions \cup {NoRow}]
           /\ tool' \in {"none", "on", "off"}
           /\ timers' \in [Keys -> Briefs \cup {NoRow}]
           /\ rows' \in [Routines -> Workflows \cup {NoRow}]
<1> DEFINE h == Cleared
<1>1. /\ h \in Shelf /\ h.tool = tool
      /\ \A k \in Keys :
            /\ h.timers[k] = NoRow
            /\ h.actions[k] = IF actions[k] # NoRow
                                 /\ actions[k].by = "operator"
                              THEN actions[k] ELSE NoRow
      /\ \A r \in Routines : h.rows[r] = NoRow
  BY ClearedIs DEF ProvisioningInv
<1>2. operated \/ Own(spec, h)
  BY ClearedBelongs
<1> HIDE DEF h
<1>3. /\ spec' = NoSpec /\ plan' = NoPlan /\ actions' = h.actions
      /\ tool' = h.tool /\ timers' = h.timers /\ rows' = h.rows
  BY DEF Unbuild, h
<1>4. Blank(Current, operated)'
  BY <1>1, <1>2, <1>3 DEF Blank, Current, Own
<1> QED
  BY <1>1, <1>3, <1>4 DEF Whole, Shelf

LEMMA ReviseKeeps ==
    ASSUME ProvisioningInv, Revise
    PROVE  ProvisioningInv'
<1>0. /\ ProvisioningTypeOK /\ operated' = operated /\ ~live /\ live' = live
      /\ answers' = NoAnswers /\ owner' = Unset /\ conn' = conn
      /\ Change /\ Snapshot /\ Rebase /\ Unbuild(Cleared)
  BY DEF ProvisioningInv, Revise
<1>1. /\ Whole' /\ spec' = NoSpec /\ plan' = NoPlan
      /\ actions' \in [Keys -> Actions \cup {NoRow}]
      /\ tool' \in {"none", "on", "off"}
      /\ timers' \in [Keys -> Briefs \cup {NoRow}]
      /\ rows' \in [Routines -> Workflows \cup {NoRow}]
  BY <1>0, UnbuildKeeps
<1>2. NoAnswers \in Given /\ Unset \in Grants
  BY DEF NoAnswers, Given, Unset, Grants
<1>3. ProvisioningTypeOK'
  BY <1>0, <1>1, <1>2, RebaseKeeps, SnapshotKeeps, ChangeTyped
     DEF ProvisioningTypeOK
<1>4. /\ Kept(spec, answers)' /\ Asked(spec, answers)'
      /\ Kept(version.spec, version.answers)'
      /\ ~operated' => Asked(version.spec, version.answers)'
  <2>1. version'.spec = spec /\ version'.answers = answers
    BY <1>0, SnapshotKeeps
  <2> QED
    BY <1>0, <1>1, <2>1
       DEF ProvisioningInv, Builds, Kept, Made, Told, Asked
<1>5. pending' # NoRevision => Kept(pending.spec, pending.answers)'
  BY <1>0, RebaseKeeps DEF ProvisioningInv, Builds, Kept, Made, Told
<1>6. Builds' /\ LiveConnected'
  BY <1>0, <1>4, <1>5 DEF Builds, LiveConnected
<1> QED
  BY <1>1, <1>3, <1>6 DEF ProvisioningInv

LEMMA RestoreKeeps ==
    ASSUME ProvisioningInv, Restore
    PROVE  ProvisioningInv'
<1>0. /\ ProvisioningTypeOK /\ operated' = operated /\ ~live /\ live' = live
      /\ answers' = version.answers /\ conn' = conn
      /\ Change /\ Snapshot /\ Rebase
  BY DEF ProvisioningInv, Restore
<1>1. Kept(version.spec, version.answers)
  BY DEF ProvisioningInv, Builds
<1>2. /\ Kept(version.spec, version.answers)'
      /\ ~operated' => Asked(version.spec, version.answers)'
  <2>1. version'.spec = spec /\ version'.answers = answers
    BY <1>0, SnapshotKeeps
  <2> QED
    BY <1>0, <2>1 DEF ProvisioningInv, Builds, Kept, Made, Told, Asked
<1>3. pending' # NoRevision => Kept(pending.spec, pending.answers)'
  BY <1>0, RebaseKeeps DEF ProvisioningInv, Builds, Kept, Made, Told
<1>4. CASE version.spec = NoSpec
  <2>1. Unbuild(Cleared) /\ owner' = Unset
    BY <1>4 DEF Restore
  <2>2. /\ Whole' /\ spec' = NoSpec /\ plan' = NoPlan
        /\ actions' \in [Keys -> Actions \cup {NoRow}]
        /\ tool' \in {"none", "on", "off"}
        /\ timers' \in [Keys -> Briefs \cup {NoRow}]
        /\ rows' \in [Routines -> Workflows \cup {NoRow}]
    BY <1>0, <2>1, UnbuildKeeps
  <2>3. Unset \in Grants
    BY DEF Unset, Grants
  <2>4. ProvisioningTypeOK'
    BY <1>0, <2>1, <2>2, <2>3, RebaseKeeps, SnapshotKeeps, ChangeTyped
       DEF ProvisioningTypeOK
  <2>5. Kept(spec, answers)' /\ Asked(spec, answers)'
    BY <1>0, <1>1, <1>4, <2>2 DEF Kept, Asked
  <2>6. Builds' /\ LiveConnected'
    BY <1>0, <1>2, <1>3, <2>5 DEF Builds, LiveConnected
  <2> QED
    BY <2>2, <2>4, <2>6 DEF ProvisioningInv
<1>5. CASE version.spec # NoSpec
  <2> DEFINE s == version.spec
             o == version.owner
             r == Provisioned(s, o, Cleared)
  <2>1. Store(r) /\ owner' = o
    BY <1>5 DEF Restore
  <2>2. Made(s) /\ Told(s, version.answers)
    BY <1>1, <1>5 DEF Kept
  <2>3. o \in Grants /\ operated \in BOOLEAN
    BY <1>0 DEF ProvisioningTypeOK
  <2>4. ~operated => Asked(s, version.answers)
    BY DEF ProvisioningInv, Builds
  <2>5. Cleared \in Shelf
    BY <1>0, ClearedIs
  <2>6. Belongs(s, Cleared) /\ (operated \/ Own(s, Cleared))
    BY ClearedBelongs
  <2>7. /\ r \in Results /\ Kin(s, r.spec) /\ r.spec.inputs = s.inputs
        /\ Fits(r, o, operated) /\ Made(r.spec)
    BY <2>2, <2>3, <2>5, <2>6, ProvisionedKin, ProvisionedFits DEF Made
  <2> HIDE DEF r
  <2>8. /\ Whole' /\ spec' = r.spec /\ spec' \in Specs
        /\ plan' \in Plans
        /\ actions' \in [Keys -> Actions \cup {NoRow}]
        /\ tool' \in {"none", "on", "off"}
        /\ timers' \in [Keys -> Briefs \cup {NoRow}]
        /\ rows' \in [Routines -> Workflows \cup {NoRow}]
    BY <1>0, <2>1, <2>3, <2>7, StoreKeeps
  <2>9. ProvisioningTypeOK'
    BY <1>0, <2>1, <2>3, <2>8, RebaseKeeps, SnapshotKeeps, ChangeTyped
       DEF ProvisioningTypeOK
  <2>10. Told(r.spec, version.answers)
    BY <2>2, <2>7 DEF Told
  <2>11. ~operated => Asked(r.spec, version.answers)
    BY <2>2, <2>4, <2>7, KinAsked DEF Made
  <2> HIDE DEF s, o
  <2>12. /\ Kept(spec, answers)'
         /\ ~operated' => Asked(spec, answers)'
    BY <1>0, <2>7, <2>8, <2>10, <2>11, NoneAssumption
       DEF Kept, Made, Told, Asked
  <2>13. Builds' /\ LiveConnected'
    BY <1>0, <1>2, <1>3, <2>12 DEF Builds, LiveConnected
  <2> QED
    BY <2>8, <2>9, <2>13 DEF ProvisioningInv
<1> QED
  BY <1>4, <1>5

LEMMA SetPermissionKeeps ==
    ASSUME ProvisioningInv, NEW k \in Keys, NEW mode \in Modes,
           SetPermission(k, mode)
    PROVE  ProvisioningInv'
<1> DEFINE o == [owner EXCEPT ![k] = mode]
           r == Stored(spec, o, answers, Had)
<1>0. /\ ProvisioningTypeOK /\ operated' = operated /\ live' = live
      /\ answers' = answers /\ conn' = conn /\ spec # NoSpec
      /\ Change /\ Snapshot /\ Rebase
      /\ operated \in BOOLEAN /\ answers \in Given
  BY DEF ProvisioningInv, SetPermission, ProvisioningTypeOK
<1>1. owner' = o /\ Store(r)
  BY DEF SetPermission
<1>2. o \in Grants
  BY <1>0 DEF ProvisioningTypeOK, Grants
<1>3. Made(spec) /\ Told(spec, answers)
  BY <1>0 DEF ProvisioningInv, Builds, Kept
<1>4. IsHad(Had)
  BY <1>0, HadIs
<1>5. Had \in Shelf /\ Belongs(spec, Had) /\ (operated \/ Own(spec, Had))
  BY <1>0, <1>4, HadBelongs DEF IsHad
<1> HIDE DEF o, r
<1>6. /\ r \in Results /\ Fits(r, o, operated) /\ Made(r.spec)
      /\ Told(r.spec, answers) /\ Kin(spec, r.spec)
  BY <1>0, <1>2, <1>3, <1>5, StoredFits DEF r
<1>7. /\ Whole' /\ spec' = r.spec /\ spec' \in Specs
      /\ plan' \in Plans
      /\ actions' \in [Keys -> Actions \cup {NoRow}]
      /\ tool' \in {"none", "on", "off"}
      /\ timers' \in [Keys -> Briefs \cup {NoRow}]
      /\ rows' \in [Routines -> Workflows \cup {NoRow}]
  BY <1>0, <1>1, <1>6, StoreKeeps
<1>8. ProvisioningTypeOK'
  BY <1>0, <1>1, <1>2, <1>7, RebaseKeeps, SnapshotKeeps, ChangeTyped
     DEF ProvisioningTypeOK
<1>9. ~operated => Asked(r.spec, answers)
  BY <1>3, <1>6, KinAsked DEF ProvisioningInv, Builds, Made
<1>10. /\ Kept(spec, answers)'
       /\ ~operated' => Asked(spec, answers)'
  BY <1>0, <1>6, <1>7, <1>9, NoneAssumption DEF Kept, Made, Told, Asked
<1>11. /\ Kept(version.spec, version.answers)'
       /\ ~operated' => Asked(version.spec, version.answers)'
  <2>1. version'.spec = spec /\ version'.answers = answers
    BY <1>0, SnapshotKeeps
  <2> QED
    BY <1>0, <2>1 DEF ProvisioningInv, Builds, Kept, Made, Told, Asked
<1>12. pending' # NoRevision => Kept(pending.spec, pending.answers)'
  BY <1>0, RebaseKeeps DEF ProvisioningInv, Builds, Kept, Made, Told
<1>13. LiveConnected'
  BY <1>0, <1>6, <1>7, NoneAssumption
     DEF ProvisioningInv, LiveConnected, Unconnected, Kin
<1> QED
  BY <1>7, <1>8, <1>10, <1>11, <1>12, <1>13 DEF ProvisioningInv, Builds

-----------------------------------------------------------------------------
(* The live employee and its revision.                                     *)

LEMMA QuietKeeps ==
    ASSUME Whole, UNCHANGED <<spec, plan, runtime, owner, operated>>
    PROVE  Whole'
<1>1. /\ spec' = spec /\ plan' = plan /\ actions' = actions
      /\ tool' = tool /\ timers' = timers /\ rows' = rows
      /\ owner' = owner /\ operated' = operated
  BY DEF runtime
<1>2. ASSUME spec = NoSpec PROVE Blank(Current, operated)'
  BY <1>1, <1>2 DEF Whole, Blank, Current
<1>3. ASSUME spec # NoSpec PROVE Fits(Current, owner, operated)'
  BY <1>1, <1>3
     DEF Whole, Fits, Belongs, Granted, Shown, Own, Works, Blocked, Current
<1> QED
  BY <1>1, <1>2, <1>3 DEF Whole

\* A revision of "s", told what was given
LEMMA PendingKept ==
    ASSUME NEW s, Made(s), NEW given \in Given, Told(s, given),
           NEW onBase \in BOOLEAN,
           NEW p, p = [spec |-> s, answers |-> given, onBase |-> onBase]
    PROVE  p \in Revisions /\ Kept(p.spec, p.answers)
<1>1. s \in Specs /\ s # NoSpec
  BY NoneAssumption DEF Made
<1>2. p \in Revisions /\ p.spec = s /\ p.answers = given
  BY <1>1 DEF Revisions
<1> QED
  BY <1>1, <1>2 DEF Kept

LEMMA StagedKeeps ==
    ASSUME ProvisioningInv, spec # NoSpec,
           NEW given \in Given, NEW onBase \in BOOLEAN,
           IF pending # NoRevision /\ pending.spec # NoSpec
           THEN Told(pending.spec, given) ELSE Told(spec, given),
           Staged(given, onBase)
    PROVE  /\ pending' \in Revisions /\ Kept(pending'.spec, pending'.answers)
           /\ conn' \in [Conns -> {"none", "valid", "stale"}]
<1> DEFINE prev == IF pending # NoRevision /\ pending.spec # NoSpec
                   THEN pending.spec ELSE spec
<1>1. prev \in Specs /\ Told(prev, given)
  BY DEF ProvisioningInv, Builds, Kept, Made
<1> HIDE DEF prev
<1>b. PICK b \in Briefs : \E s \in Outcomes(b) :
          /\ Connect(s.link)
          /\ pending' = [spec |-> AutoBound(Carried(s, prev), Valid),
                         answers |-> given, onBase |-> onBase]
  BY DEF Staged, prev
<1>2. PICK s \in Outcomes(b) :
          /\ Connect(s.link)
          /\ pending' = [spec |-> AutoBound(Carried(s, prev), Valid),
                         answers |-> given, onBase |-> onBase]
  BY <1>b
<1> DEFINE t == Carried(s, prev)
<1>3. Made(s) /\ s.inputs = NoAnswers
  BY OutcomesAreMade
<1>4. Made(t) /\ Told(t, given)
  BY <1>1, <1>3, CarriedIsMade
<1>5. Valid \in SUBSET Conns
  BY DEF Valid
<1> HIDE DEF t
<1>6. Alike(t, AutoBound(t, Valid))
  BY <1>4, <1>5, AutoBoundAlike DEF Made
<1>7. Made(AutoBound(t, Valid)) /\ Told(AutoBound(t, Valid), given)
  BY <1>4, <1>6, AlikeIsMade, AlikeTold
<1>8. pending' = [spec |-> AutoBound(t, Valid), answers |-> given,
                  onBase |-> onBase]
  BY <1>2 DEF t
<1>9. ProvisioningTypeOK
  BY DEF ProvisioningInv
<1> QED
  BY <1>2, <1>7, <1>8, <1>9, PendingKept, ConnectTyped

LEMMA StageKeeps ==
    ASSUME ProvisioningInv, Stage
    PROVE  ProvisioningInv'
<1>0. /\ ProvisioningTypeOK /\ live /\ spec # NoSpec /\ Change
      /\ UNCHANGED <<live, spec, plan, answers, owner, version, runtime,
                     operated>>
  BY DEF ProvisioningInv, Stage, LiveConnected
<1>1. answers \in Given /\ Told(spec, answers)
  BY <1>0 DEF ProvisioningInv, ProvisioningTypeOK, Builds, Kept
<1>2. /\ pending' \in Revisions /\ Kept(pending'.spec, pending'.answers)
      /\ conn' \in [Conns -> {"none", "valid", "stale"}]
  <2>1. CASE pending = NoRevision
    <3>1. Staged(answers, TRUE)
      BY <2>1 DEF Stage
    <3> QED
      BY <1>0, <1>1, <2>1, <3>1, StagedKeeps
  <2>2. CASE pending # NoRevision
    <3> DEFINE given == IF pending.answers = NoAnswers THEN answers
                        ELSE pending.answers
    <3>1. Staged(given, pending.onBase)
      BY <2>2 DEF Stage
    <3>2. pending \in Revisions /\ Kept(pending.spec, pending.answers)
      BY <2>2 DEF ProvisioningInv, ProvisioningTypeOK, Builds
    <3>3. given \in Given /\ pending.onBase \in BOOLEAN
      BY <1>1, <3>2 DEF Revisions
    <3>4. CASE pending.spec = NoSpec
      <4>1. given = answers
        BY <3>2, <3>4 DEF Kept
      <4> QED
        BY <1>0, <1>1, <3>1, <3>3, <3>4, <4>1, StagedKeeps
    <3>5. CASE pending.spec # NoSpec
      <4>1. Told(pending.spec, pending.answers)
        BY <3>2, <3>5 DEF Kept
      <4>2. Told(pending.spec, given)
        BY <4>1 DEF Told, NoAnswers
      <4> QED
        BY <1>0, <2>2, <3>1, <3>3, <3>5, <4>2, StagedKeeps
    <3> QED
      BY <3>4, <3>5
  <2> QED
    BY <2>1, <2>2
<1>3. ProvisioningTypeOK'
  BY <1>0, <1>2, ChangeTyped DEF ProvisioningTypeOK, runtime
<1>4. Whole'
  BY <1>0, QuietKeeps DEF ProvisioningInv
<1>5. Builds' /\ LiveConnected'
  BY <1>0, <1>2
     DEF ProvisioningInv, Builds, LiveConnected, Kept, Asked, Made, Told
<1> QED
  BY <1>3, <1>4, <1>5 DEF ProvisioningInv

LEMMA StageVersionKeeps ==
    ASSUME ProvisioningInv, StageVersion
    PROVE  ProvisioningInv'
<1>0. /\ ProvisioningTypeOK /\ Change
      /\ UNCHANGED <<live, spec, plan, answers, owner, version, runtime, conn,
                     operated>>
      /\ pending' = [spec |-> version.spec, answers |-> version.answers,
                     onBase |-> TRUE]
  BY DEF ProvisioningInv, StageVersion
<1>1. pending' \in Revisions
  BY <1>0 DEF ProvisioningTypeOK, Revisions
<1>2. Kept(pending'.spec, pending'.answers)
  BY <1>0 DEF ProvisioningInv, Builds
<1>3. ProvisioningTypeOK'
  BY <1>0, <1>1, ChangeTyped DEF ProvisioningTypeOK, runtime
<1>4. Whole'
  BY <1>0, QuietKeeps DEF ProvisioningInv
<1>5. Builds' /\ LiveConnected'
  BY <1>0, <1>2
     DEF ProvisioningInv, Builds, LiveConnected, Kept, Asked, Made, Told
<1> QED
  BY <1>3, <1>4, <1>5 DEF ProvisioningInv

LEMMA DiscardKeeps ==
    ASSUME ProvisioningInv, Discard
    PROVE  ProvisioningInv'
<1>0. /\ UNCHANGED <<live, spec, plan, answers, owner, version, runtime, conn,
                     counts>>
      /\ pending' = NoRevision
  BY DEF Discard
<1>1. ProvisioningTypeOK'
  BY <1>0 DEF ProvisioningInv, ProvisioningTypeOK, runtime, counts
<1>2. Whole'
  BY <1>0, QuietKeeps DEF ProvisioningInv, counts
<1>3. Builds' /\ LiveConnected'
  BY <1>0
     DEF ProvisioningInv, Builds, LiveConnected, Kept, Asked, Made, Told,
         counts
<1> QED
  BY <1>1, <1>2, <1>3 DEF ProvisioningInv

LEMMA LaunchKeeps ==
    ASSUME ProvisioningInv, Launch \/ Deactivate
    PROVE  ProvisioningInv'
<1>0. /\ UNCHANGED <<spec, plan, answers, owner, pending, version, runtime,
                     conn, counts>>
      /\ live' \in BOOLEAN
      /\ live' => spec # NoSpec /\ Unconnected(spec) = {}
  BY DEF Launch, Deactivate, Ready, RequirementsReady
<1>1. ProvisioningTypeOK'
  BY <1>0 DEF ProvisioningInv, ProvisioningTypeOK, runtime, counts
<1>2. Whole'
  BY <1>0, QuietKeeps DEF ProvisioningInv, counts
<1>3. Builds' /\ LiveConnected'
  BY <1>0
     DEF ProvisioningInv, Builds, LiveConnected, Kept, Asked, Made, Told,
         counts,
         Unconnected
<1> QED
  BY <1>1, <1>2, <1>3 DEF ProvisioningInv

\* A routine of the revision has each of its requirements built: none of them
\* waits for an answer given to another build.
LEMMA ReadyIsAsked ==
    ASSUME NEW s, Made(s), NEW b \in Results, NEW given,
           NEW o \in Grants, NEW had \in Shelf, Parts(b, s, o, had),
           \A k \in Keys : had.actions[k] = NoRow,
           TriggersReady(b.plan)
    PROVE  Asked(b.spec, given)
<1> SUFFICES ASSUME NEW k \in Keys, b.spec.need[k] = "input",
                    NEW r \in Routines, k \in Uses[b.spec.brief][r]
             PROVE  FALSE
  BY DEF Asked
<1>1. /\ b.spec.brief = s.brief
      /\ b.spec.need[k] = IF k \in Built(s) THEN "managed" ELSE s.need[k]
      /\ b.actions[k] = Action(s, o, had, k)
      /\ b.plan.trig[r] = TriggerStatus(s, b.actions, b.plan.exec, had, r)
  BY DEF Parts
<1>2. b.actions[k] = NoRow
  BY <1>1 DEF Action
<1>3. ~Runnable(s, b.actions, b.plan.exec, r)
  BY <1>1, <1>2 DEF Runnable
<1>4. b.plan.trig[r] = "setup_required"
  BY <1>1, <1>3 DEF TriggerStatus
<1> QED
  BY <1>4 DEF TriggersReady

LEMMA StoredAsked ==
    ASSUME NEW s, Made(s), NEW o \in Grants, NEW had \in Shelf,
           NEW given, \A k \in Keys : had.actions[k] = NoRow,
           NEW b, b = Stored(s, o, given, had), TriggersReady(b.plan)
    PROVE  Asked(b.spec, given)
<1> DEFINE t == AutoBound(s, Valid)
           p == Provisioned(t, o, had)
<1>1. s \in Specs /\ Valid \in SUBSET Conns
  BY DEF Made, Valid
<1>2. Alike(s, t)
  BY <1>1, AutoBoundAlike
<1> HIDE DEF t
<1>3. Made(t)
  BY <1>2, AlikeIsMade
<1>4. t \in Specs
  BY <1>3 DEF Made
<1> HIDE DEF p
<1>5. Parts(p, t, o, had)
  BY <1>4, ProvisionedParts DEF p
<1>6. b = p \/ b = Answered(p, given)
  BY DEF Stored, Answered, t, p
<1>7. p \in Results
  BY <1>5 DEF Parts
<1>8. /\ b.plan = p.plan /\ b.spec.need = p.spec.need
      /\ b.spec.brief = p.spec.brief
  <2>1. CASE b = Answered(p, given)
    <3>1. b.plan = p.plan /\ b.spec = [p.spec EXCEPT !.inputs = given]
      BY <1>7, <2>1 DEF Answered, Results
    <3> QED
      BY <1>7, <3>1 DEF Results, Specs
  <2> QED
    BY <1>6, <2>1
<1>9. Asked(p.spec, given)
  BY <1>3, <1>5, <1>7, <1>8, ReadyIsAsked
<1>10. p.spec # NoSpec
  BY <1>7, NoneAssumption DEF Results
<1> QED
  BY <1>8, <1>9, <1>10 DEF Asked

LEMMA ApplyKeeps ==
    ASSUME ProvisioningInv, Apply
    PROVE  ProvisioningInv'
<1> DEFINE s == pending.spec
           given == pending.answers
           r == Stored(s, owner, given, Cleared)
<1>0. /\ ProvisioningTypeOK
      /\ operated' = operated /\ live' = live /\ owner' = owner
      /\ UNCHANGED <<conn, counts>> /\ Snapshot
      /\ answers' = given /\ pending' = NoRevision
      /\ pending # NoRevision /\ s # NoSpec
      /\ operated \in BOOLEAN /\ owner \in Grants
  BY DEF ProvisioningInv, Apply, ProvisioningTypeOK, counts
<1>1. Store(r) /\ Ready(r.spec, r.plan, given, Valid)
  BY DEF Apply
<1>2. /\ pending \in Revisions /\ given \in Given
      /\ Made(s) /\ Told(s, given)
  BY <1>0 DEF ProvisioningInv, Builds, Kept, ProvisioningTypeOK, Revisions
<1>3. Cleared \in Shelf
  BY <1>0, ClearedIs
<1>4. Belongs(s, Cleared) /\ (operated \/ Own(s, Cleared))
  BY ClearedBelongs
<1>5. ASSUME ~operated
      PROVE  \A k \in Keys : Cleared.actions[k] = NoRow
  <2>1. \A k \in Keys : Cleared.actions[k] # NoRow =>
                           Cleared.actions[k].by = "operator"
    BY <1>0, ClearedIs
  <2>2. \A k \in Keys : Cleared.actions[k] # NoRow =>
                           Cleared.actions[k].by = "xvond"
    BY <1>4, <1>5 DEF Own
  <2> QED
    BY <2>1, <2>2
<1> HIDE DEF s, given, r
<1>6. /\ r \in Results /\ Fits(r, owner, operated) /\ Made(r.spec)
      /\ Told(r.spec, given)
  BY <1>0, <1>2, <1>3, <1>4, StoredFits DEF r
<1>7. /\ Whole' /\ spec' = r.spec /\ spec' \in Specs
      /\ plan' \in Plans
      /\ actions' \in [Keys -> Actions \cup {NoRow}]
      /\ tool' \in {"none", "on", "off"}
      /\ timers' \in [Keys -> Briefs \cup {NoRow}]
      /\ rows' \in [Routines -> Workflows \cup {NoRow}]
  BY <1>0, <1>1, <1>6, StoreKeeps
<1>8. ProvisioningTypeOK'
  BY <1>0, <1>2, <1>7, SnapshotKeeps DEF ProvisioningTypeOK, counts
<1>9. ~operated => Asked(r.spec, given)
  <2>1. TriggersReady(r.plan)
    BY <1>1 DEF Ready
  <2> QED
    BY <1>0, <1>2, <1>3, <1>5, <2>1, StoredAsked DEF r
<1>10. /\ Kept(spec, answers)'
       /\ ~operated' => Asked(spec, answers)'
  BY <1>0, <1>6, <1>7, <1>9, NoneAssumption DEF Kept, Made, Told, Asked
<1>11. /\ Kept(version.spec, version.answers)'
       /\ ~operated' => Asked(version.spec, version.answers)'
  <2>1. version'.spec = spec /\ version'.answers = answers
    BY <1>0, SnapshotKeeps
  <2> QED
    BY <1>0, <2>1 DEF ProvisioningInv, Builds, Kept, Made, Told, Asked
<1>12. LiveConnected'
  BY <1>1, <1>7, NoneAssumption
     DEF LiveConnected, Ready, RequirementsReady, Unconnected
<1> QED
  BY <1>0, <1>7, <1>8, <1>10, <1>11, <1>12 DEF ProvisioningInv, Builds

-----------------------------------------------------------------------------
(* Setup.                                                                  *)

\* A revision is replaced by one that is told no other answers.
LEMMA PendKeeps ==
    ASSUME ProvisioningInv, pending # NoRevision, NEW t, Made(t),
           NEW given \in Given, Told(t, given),
           pending' = [pending EXCEPT !.spec = t, !.answers = given]
    PROVE  pending' \in Revisions /\ Kept(pending'.spec, pending'.answers)
<1>1. pending \in Revisions
  BY DEF ProvisioningInv, ProvisioningTypeOK
<1>2. t \in Specs /\ t # NoSpec
  BY NoneAssumption DEF Made
<1>3. /\ pending' \in Revisions /\ pending'.spec = t
      /\ pending'.answers = given
  BY <1>1, <1>2 DEF Revisions
<1> QED
  BY <1>2, <1>3 DEF Kept

\* The draft is provisioned again.
LEMMA DraftKeeps ==
    ASSUME ProvisioningInv, NEW t, Made(t), NEW h \in Shelf, Belongs(t, h),
           operated \/ Own(t, h), Store(Provisioned(t, owner, h)),
           Told(t, answers'), ~operated => Asked(t, answers'),
           answers' \in Given, ~live,
           conn' \in [Conns -> {"none", "valid", "stale"}],
           UNCHANGED <<live, owner, pending, version, counts>>
    PROVE  ProvisioningInv'
<1> DEFINE r == Provisioned(t, owner, h)
<1>0. /\ ProvisioningTypeOK /\ operated' = operated /\ operated \in BOOLEAN
      /\ owner \in Grants
  BY DEF ProvisioningInv, ProvisioningTypeOK, counts
<1>1. Store(r)
  OBVIOUS
<1>2. t \in Specs
  BY DEF Made
<1>3. Fits(r, owner, operated) /\ Made(r.spec)
  BY <1>0, ProvisionedFits
<1>4. r \in Results /\ Kin(t, r.spec) /\ r.spec.inputs = t.inputs
  BY <1>0, <1>2, ProvisionedKin
<1> HIDE DEF r
<1>5. /\ Whole' /\ spec' = r.spec /\ spec' \in Specs
      /\ plan' \in Plans
      /\ actions' \in [Keys -> Actions \cup {NoRow}]
      /\ tool' \in {"none", "on", "off"}
      /\ timers' \in [Keys -> Briefs \cup {NoRow}]
      /\ rows' \in [Routines -> Workflows \cup {NoRow}]
  BY <1>0, <1>1, <1>3, <1>4, StoreKeeps
<1>6. ProvisioningTypeOK'
  BY <1>0, <1>5 DEF ProvisioningTypeOK, counts
<1>7. Kept(spec, answers)'
  BY <1>3, <1>4, <1>5, NoneAssumption DEF Kept, Made, Told
<1>8. ~operated' => Asked(spec, answers)'
  BY <1>0, <1>2, <1>4, <1>5, NoneAssumption DEF Asked, Kin
<1>9. Builds' /\ LiveConnected'
  BY <1>0, <1>7, <1>8
     DEF ProvisioningInv, Builds, LiveConnected, Kept, Asked, Made, Told
<1> QED
  BY <1>5, <1>6, <1>9 DEF ProvisioningInv

\* What is to be amended.
LEMMA TargetIs ==
    ASSUME ProvisioningInv, MayAmend
    PROVE  /\ Made(Target) /\ Target \in Specs
           /\ Staging => /\ Target = pending.spec /\ pending # NoRevision
                         /\ Told(Target, pending.answers)
                         /\ pending.answers \in Given
           /\ ~Staging => /\ ~live /\ Target = spec /\ Told(spec, answers)
  BY DEF ProvisioningInv, MayAmend, Target, Staging, Builds, Kept, Made,
         ProvisioningTypeOK, Revisions

LEMMA PendQuiet ==
    ASSUME ProvisioningInv, pending' \in Revisions,
           Kept(pending'.spec, pending'.answers),
           UNCHANGED <<spec, plan, runtime, live, answers, owner, version,
                       counts>>,
           conn' \in [Conns -> {"none", "valid", "stale"}]
    PROVE  ProvisioningInv'
<1>1. ProvisioningTypeOK'
  BY DEF ProvisioningInv, ProvisioningTypeOK, runtime, counts
<1>2. Whole'
  BY QuietKeeps DEF ProvisioningInv, counts
<1>3. Builds' /\ LiveConnected'
  BY DEF ProvisioningInv, Builds, LiveConnected, Kept, Asked, Made, Told,
     counts
<1> QED
  BY <1>1, <1>2, <1>3 DEF ProvisioningInv

LEMMA PendAlike ==
    ASSUME ProvisioningInv, MayAmend, Staging, NEW t, Alike(Target, t),
           Pend(t), UNCHANGED <<live, answers, owner, version, counts>>,
           conn' \in [Conns -> {"none", "valid", "stale"}]
    PROVE  ProvisioningInv'
<1>1. /\ Made(Target) /\ pending # NoRevision
      /\ Told(Target, pending.answers) /\ pending.answers \in Given
  BY TargetIs
<1>2. Made(t) /\ Told(t, pending.answers)
  BY <1>1, AlikeIsMade, AlikeTold
<1>3. pending \in Revisions
  BY <1>1 DEF ProvisioningInv, ProvisioningTypeOK
<1>4. /\ pending' = [pending EXCEPT !.spec = t]
      /\ UNCHANGED <<spec, plan, runtime>>
  BY DEF Pend
<1>5. pending' = [pending EXCEPT !.spec = t, !.answers = pending.answers]
  BY <1>3, <1>4 DEF Revisions
<1> QED
  BY <1>1, <1>2, <1>4, <1>5, PendKeeps, PendQuiet

LEMMA AmendKeeps ==
    ASSUME ProvisioningInv, MayAmend, NEW t, Alike(Target, t),
           NEW h, IsHad(h), Amend(t, h),
           UNCHANGED <<live, answers, owner, version, counts>>,
           conn' \in [Conns -> {"none", "valid", "stale"}]
    PROVE  ProvisioningInv'
<1>1. CASE Staging
  BY <1>1, PendAlike DEF Amend
<1>2. CASE ~Staging
  <2>1. Made(spec) /\ ~live /\ Target = spec /\ Told(spec, answers)
    BY <1>2, TargetIs
  <2>2. spec # NoSpec /\ spec \in Specs
    BY <2>1, NoneAssumption DEF Made
  <2>3. Belongs(spec, h) /\ (operated \/ Own(spec, h)) /\ h \in Shelf
    BY <2>2, HadBelongs DEF IsHad
  <2>4. /\ Made(t) /\ Belongs(t, h) /\ (operated \/ Own(t, h))
        /\ Told(t, answers)
    BY <2>1, <2>3, AlikeIsMade, AlikeBelongs, AlikeOwn, AlikeTold
  <2>5. ~operated => Asked(t, answers)
    BY <2>1, <2>2, AlikeAsked DEF ProvisioningInv, Builds
  <2>6. Store(Provisioned(t, owner, h)) /\ UNCHANGED pending
    BY <1>2 DEF Amend
  <2>7. answers \in Given /\ answers' = answers
    BY DEF ProvisioningInv, ProvisioningTypeOK
  <2>8. Told(t, answers') /\ (~operated => Asked(t, answers'))
    BY <2>4, <2>5, <2>7
  <2> QED
    BY <2>1, <2>3, <2>4, <2>6, <2>7, <2>8, DraftKeeps
<1> QED
  BY <1>1, <1>2

\* The draft keeps its plan, while more of it waits.
LEMMA NoteKeeps ==
    ASSUME ProvisioningInv, MayAmend, NEW t, Alike(Target, t),
           \A k \in Keys : t.need[k] \in {Target.need[k], "connection"},
           Note(t), UNCHANGED <<live, answers, owner, version, counts>>,
           conn' \in [Conns -> {"none", "valid", "stale"}]
    PROVE  ProvisioningInv'
<1>1. CASE Staging
  BY <1>1, PendAlike DEF Note
<1>2. CASE ~Staging
  <2>1. Made(spec) /\ ~live /\ Target = spec /\ Told(spec, answers)
    BY <1>2, TargetIs
  <2>2. spec # NoSpec /\ spec \in Specs
    BY <2>1, NoneAssumption DEF Made
  <2>3. spec' = t /\ UNCHANGED <<pending, plan, runtime>>
    BY <1>2 DEF Note
  <2>4. /\ plan' = plan /\ actions' = actions /\ tool' = tool
        /\ timers' = timers /\ rows' = rows /\ pending' = pending
        /\ live' = live /\ answers' = answers /\ owner' = owner
        /\ version' = version /\ operated' = operated
        /\ changes' = changes
    BY <2>3 DEF runtime, counts
  <2>5. Made(t) /\ Told(t, answers) /\ t \in Specs /\ t # NoSpec
    BY <2>1, AlikeIsMade, AlikeTold, NoneAssumption DEF Made
  <2>6. ~operated => Asked(t, answers)
    BY <2>1, <2>2, AlikeAsked DEF ProvisioningInv, Builds
  <2>7. ProvisioningTypeOK'
    BY <2>3, <2>4, <2>5 DEF ProvisioningInv, ProvisioningTypeOK
  <2>8. Kept(spec, answers)' /\ (~operated' => Asked(spec, answers)')
    BY <2>3, <2>4, <2>5, <2>6 DEF Kept, Asked, Made, Told
  <2>9. Builds' /\ LiveConnected'
    BY <2>1, <2>4, <2>8
       DEF ProvisioningInv, Builds, LiveConnected, Kept, Asked, Made, Told
  <2>10. Fits(Current, owner, operated)
    BY <2>2 DEF ProvisioningInv, Whole
  <2>11. /\ t.brief = spec.brief /\ t.inputs = spec.inputs
         /\ \A k \in Keys : t.need[k] \in {spec.need[k], "connection"}
    BY <2>1 DEF Alike
  <2>12. Belongs(t, Current) /\ (operated \/ Own(t, Current))
    BY <2>1, <2>10, AlikeBelongs, AlikeOwn DEF Fits, Current
  <2>13. Fits(Current, owner, operated)'
    <3>1. /\ plan # NoPlan /\ \A k \in Keys : t.need[k] # "build"
      BY <2>10, <2>11 DEF Fits, Current
    <3>2. Granted(Current, owner)'
      BY <2>3, <2>4, <2>10, <2>11 DEF Fits, Granted, Current
    <3>3. Shown(Current)'
      BY <2>3, <2>4, <2>10, <2>11 DEF Fits, Shown, Current
    <3>4. Belongs(spec, Current)'
      BY <2>3, <2>4, <2>12 DEF Belongs, Current
    <3>5. ~operated => Own(spec, Current)'
      BY <2>3, <2>4, <2>12 DEF Own, Current
    <3>6. ~operated => Works(Current)'
      BY <2>3, <2>4, <2>10, <2>11 DEF Fits, Works, Current
    <3>7. ASSUME ~operated PROVE Blocked(Current)'
      <4>1. \A r \in Routines : Uses[spec.brief][r] \subseteq Keys
        BY <2>2, KindsAre DEF Specs
      <4>2. \A r \in Routines : plan.trig[r] = "setup_required" =>
               \E k \in Uses[spec.brief][r] :
                   \/ spec.need[k] # "managed"
                   \/ actions[k].mode # "never" /\ plan.exec[k] # "ready"
        BY <2>10, <3>7 DEF Fits, Blocked, Current
      <4>3. \A r \in Routines : plan.trig[r] = "setup_required" =>
               \E k \in Uses[t.brief][r] :
                   \/ t.need[k] # "managed"
                   \/ actions[k].mode # "never" /\ plan.exec[k] # "ready"
        BY <2>11, <4>1, <4>2
      <4> QED
        BY <2>3, <2>4, <4>3 DEF Blocked, Current
    <3> QED
      BY <2>3, <2>4, <3>1, <3>2, <3>3, <3>4, <3>5, <3>6,
         <3>7 DEF Fits, Current
  <2>14. Whole'
    BY <2>3, <2>5, <2>13 DEF Whole
  <2> QED
    BY <2>7, <2>9, <2>14 DEF ProvisioningInv
<1> QED
  BY <1>1, <1>2

LEMMA SelfAlike == ASSUME NEW s \in Specs PROVE Alike(s, s)
  BY DEF Alike

LEMMA DiscoverKeeps ==
    ASSUME ProvisioningInv, Discover
    PROVE  ProvisioningInv'
<1>0. /\ MayAmend /\ ProvisioningTypeOK /\ Target \in Specs
      /\ UNCHANGED <<live, answers, owner, version, conn, counts>>
      /\ conn' \in [Conns -> {"none", "valid", "stale"}]
  BY TargetIs DEF Discover, Needed, ProvisioningInv, ProvisioningTypeOK
<1>1. CASE Note([Target EXCEPT !.found = "no"])
  <2> DEFINE t == [Target EXCEPT !.found = "no"]
  <2>1. Alike(Target, t)
    BY <1>0, SelfAlike, FoundAlike DEF Found
  <2>2. t.need = Target.need
    BY <1>0 DEF Specs
  <2> HIDE DEF t
  <2>3. Note(t)
    BY <1>1 DEF t
  <2> QED
    BY <1>0, <2>1, <2>2, <2>3, NoteKeeps
<1>2. ASSUME NEW found \in {"contract", "locked"},
             Note([Waiting(Target, "connection") EXCEPT !.found = found])
      PROVE  ProvisioningInv'
  <2> DEFINE w == Waiting(Target, "connection")
             t == [w EXCEPT !.found = found]
  <2>1. Alike(Target, w)
    BY <1>0, WaitingAlike
  <2>2. \A k \in Keys : w.need[k] \in {Target.need[k], "connection"}
    BY <1>0 DEF Waiting, Specs
  <2> HIDE DEF w
  <2>3. Alike(Target, t)
    BY <2>1, FoundAlike DEF Found
  <2>4. t.need = w.need
    BY <2>1 DEF Alike, Specs
  <2>5. Note(t)
    BY <1>2 DEF w
  <2> HIDE DEF t
  <2> QED
    BY <1>0, <2>2, <2>3, <2>4, <2>5, NoteKeeps
<1> QED
  BY <1>1, <1>2 DEF Discover

LEMMA ResolvedAlike ==
    ASSUME NEW s \in Specs, NEW c \in Conns
    PROVE  Alike(s, [Linked(s, c) EXCEPT !.found = "resolved"])
  BY LinkedAlike, FoundAlike DEF Found

LEMMA ResolvedKeeps ==
    ASSUME ProvisioningInv, DiscoverPublic \/ ProvideAccess
    PROVE  ProvisioningInv'
<1>0. /\ MayAmend /\ ProvisioningTypeOK /\ Target \in Specs
      /\ UNCHANGED <<live, answers, owner, version, counts>>
  BY TargetIs
     DEF DiscoverPublic, ProvideAccess, Needed, ProvisioningInv
<1>1. PICK c \in Unused :
          /\ Connect(c)
          /\ \/ Amend([Linked(Target, c) EXCEPT !.found = "resolved"],
                      With(c, Had))
             \/ Note([Waiting(Target, "connection") EXCEPT
                         !.link = 0, !.found = "contract"])
  BY DEF DiscoverPublic, ProvideAccess
<1>2. c \in Conns /\ conn' \in [Conns -> {"none", "valid", "stale"}]
  BY <1>0, <1>1, ConnectTyped DEF Unused
<1>3. CASE Amend([Linked(Target, c) EXCEPT !.found = "resolved"],
                 With(c, Had))
  <2>1. IsHad(With(c, Had))
    BY <1>0, <1>2, HadIs
  <2>2. Alike(Target, [Linked(Target, c) EXCEPT !.found = "resolved"])
    BY <1>0, <1>2, ResolvedAlike
  <2> QED
    BY <1>0, <1>2, <1>3, <2>1, <2>2, AmendKeeps
<1>4. CASE Note([Waiting(Target, "connection") EXCEPT
                    !.link = 0, !.found = "contract"])
  <2> DEFINE w == Waiting(Target, "connection")
             u == [w EXCEPT !.link = 0]
             t == [u EXCEPT !.found = "contract"]
  <2>1. Alike(Target, w)
    BY <1>0, WaitingAlike
  <2>2. \A k \in Keys : w.need[k] \in {Target.need[k], "connection"}
    BY <1>0 DEF Waiting, Specs
  <2> HIDE DEF w
  <2>3. Alike(Target, u)
    BY <2>1, LinkAlike
  <2>4. Alike(Target, t)
    BY <2>3, FoundAlike DEF Found
  <2>5. t.need = w.need
    BY <2>1 DEF Alike, Specs
  <2>6. t = [w EXCEPT !.link = 0, !.found = "contract"]
    BY <2>1 DEF Alike, Specs
  <2> HIDE DEF t
  <2>7. Note(t)
    BY <1>4, <2>6 DEF w
  <2> QED
    BY <1>0, <1>2, <2>2, <2>4, <2>5, <2>7, NoteKeeps
<1> QED
  BY <1>1, <1>3, <1>4

LEMMA BindKeeps ==
    ASSUME ProvisioningInv, AutoResolve \/ \E c \in Conns : Bind(c)
    PROVE  ProvisioningInv'
<1>0. /\ MayAmend /\ ProvisioningTypeOK /\ Target \in Specs
      /\ UNCHANGED <<live, answers, owner, version, conn, counts>>
      /\ conn' \in [Conns -> {"none", "valid", "stale"}]
  BY TargetIs DEF AutoResolve, Bind, Needed, ProvisioningInv,
     ProvisioningTypeOK
<1>1. IsHad(Had)
  BY <1>0, HadIs
<1>2. CASE AutoResolve
  <2>1. Amend(AutoBound(Target, Valid), Had)
    BY <1>2 DEF AutoResolve
  <2>2. Alike(Target, AutoBound(Target, Valid))
    BY <1>0, AutoBoundAlike DEF Valid
  <2> QED
    BY <1>0, <1>1, <2>1, <2>2, AmendKeeps
<1>3. ASSUME NEW c \in Conns, Bind(c) PROVE ProvisioningInv'
  <2>1. Amend(Linked(Target, c), Had)
    BY <1>3 DEF Bind
  <2>2. Alike(Target, Linked(Target, c))
    BY <1>0, LinkedAlike
  <2> QED
    BY <1>0, <1>1, <2>1, <2>2, AmendKeeps
<1> QED
  BY <1>2, <1>3

Replied(s, k, text) ==
    [s EXCEPT !.need[k] = "build", !.inputs[k] = text]

\* The requirement that is answered waits no longer.
LEMMA AnsweredIsMade ==
    ASSUME NEW s, Made(s), NEW k \in Keys, s.need[k] = "input",
           NEW text \in {"bad", "good"},
           NEW t, t = Replied(s, k, text),
           NEW given \in Given, Told(s, given),
           NEW given2, given2 = [given EXCEPT ![k] = text]
    PROVE  /\ Made(t) /\ Told(t, given2) /\ given2 \in Given
           /\ t.brief = s.brief
           /\ \A j \in Keys : j # k => /\ t.need[j] = s.need[j]
                                       /\ t.inputs[j] = s.inputs[j]
                                       /\ given2[j] = given[j]
           /\ t.need[k] = "build"
<1>1. s \in Specs
  BY DEF Made
<1>2. /\ t.brief = s.brief /\ t.link = s.link /\ t.found = s.found
      /\ t.need = [s.need EXCEPT ![k] = "build"]
      /\ t.inputs = [s.inputs EXCEPT ![k] = text]
      /\ t \in Specs
  BY <1>1 DEF Specs, Needs, Given, Replied
<1>3. \A j \in Keys :
          /\ t.need[j] = IF j = k THEN "build" ELSE s.need[j]
          /\ t.inputs[j] = IF j = k THEN text ELSE s.inputs[j]
          /\ given2[j] = IF j = k THEN text ELSE given[j]
  BY <1>1, <1>2 DEF Specs, Given
<1>4. given2 \in Given
  BY DEF Given
<1>5. Made(t)
  BY <1>2, <1>3 DEF Made
<1>6. Told(t, given2)
  BY <1>3 DEF Told
<1> QED
  BY <1>2, <1>3, <1>4, <1>5, <1>6

LEMMA AnswerKeeps ==
    ASSUME ProvisioningInv, NEW k \in Keys, NEW text \in {"bad", "good"},
           Answer(k, text)
    PROVE  ProvisioningInv'
<1> DEFINE t == Replied(Target, k, text)
<1> HIDE DEF t
<1>t. t = Replied(Target, k, text)
  BY DEF t
<1>0. /\ MayAmend /\ ProvisioningTypeOK /\ Target.need[k] = "input"
      /\ UNCHANGED <<live, owner, version, conn, counts>>
      /\ conn' \in [Conns -> {"none", "valid", "stale"}]
      /\ Made(Target)
  BY TargetIs DEF Answer, ProvisioningInv, ProvisioningTypeOK
<1>1. CASE Staging
  <2> DEFINE given2 == [pending.answers EXCEPT ![k] = text]
  <2>1. /\ pending' = [pending EXCEPT !.spec = t, !.answers[k] = text]
        /\ UNCHANGED <<spec, plan, answers, runtime>>
    BY <1>1 DEF Answer, Replied, t
  <2>2. /\ Target = pending.spec /\ pending # NoRevision
        /\ Told(Target, pending.answers) /\ pending.answers \in Given
    BY <1>0, <1>1, TargetIs
  <2>3. Made(t) /\ Told(t, given2) /\ given2 \in Given
    BY <1>t, <1>0, <2>2, AnsweredIsMade
  <2>4. pending \in Revisions
    BY <1>0, <2>2 DEF ProvisioningTypeOK
  <2>5. pending' = [pending EXCEPT !.spec = t, !.answers = given2]
    BY <2>1, <2>4 DEF Revisions
  <2> HIDE DEF given2
  <2> QED
    BY <1>0, <2>1, <2>2, <2>3, <2>5, PendKeeps, PendQuiet
<1>2. CASE ~Staging
  <2>1. /\ Store(Provisioned(t, owner, Had)) /\ UNCHANGED pending
        /\ answers' = [answers EXCEPT ![k] = text]
    BY <1>2 DEF Answer, Replied, t
  <2>2. ~live /\ Target = spec /\ Told(spec, answers)
    BY <1>0, <1>2, TargetIs
  <2>3. answers \in Given
    BY <1>0 DEF ProvisioningTypeOK
  <2> DEFINE g == [answers EXCEPT ![k] = text]
  <2>g. Made(spec) /\ spec.need[k] = "input" /\ t = Replied(spec, k, text)
    BY <1>t, <1>0, <2>2
  <2>a. /\ Made(t) /\ Told(t, g) /\ g \in Given
        /\ t.brief = spec.brief
        /\ \A j \in Keys : j # k => /\ t.need[j] = spec.need[j]
                                    /\ t.inputs[j] = spec.inputs[j]
                                    /\ g[j] = answers[j]
        /\ t.need[k] = "build"
    BY <2>g, <2>2, <2>3, AnsweredIsMade
  <2>b. answers' = g
    BY <2>1
  <2> HIDE DEF g
  <2>4. /\ Made(t) /\ Told(t, answers') /\ answers' \in Given
        /\ t.brief = spec.brief
        /\ \A j \in Keys : j # k => /\ t.need[j] = spec.need[j]
                                    /\ t.inputs[j] = spec.inputs[j]
                                    /\ answers'[j] = answers[j]
        /\ t.need[k] = "build"
    BY <2>a, <2>b
  <2>5. spec # NoSpec
    BY <1>0, <2>2, NoneAssumption DEF Made
  <2>6. IsHad(Had)
    BY <1>0, HadIs
  <2> DEFINE h == Had
  <2>7. Belongs(spec, h) /\ (operated \/ Own(spec, h)) /\ h \in Shelf
    BY <2>5, <2>6, HadBelongs DEF IsHad
  <2>8. Store(Provisioned(t, owner, h))
    BY <2>1
  <2> HIDE DEF h
  <2>9. Belongs(t, h)
    BY <2>4, <2>7 DEF Belongs
  <2>10. ASSUME ~operated PROVE Own(t, h)
    <3>1. Own(spec, h)
      BY <2>7, <2>10
    <3>2. \A j \in Keys : h.actions[j] # NoRow => j # k
      BY <1>0, <2>2, <2>7, <3>1 DEF Belongs, Own
    <3>3. \A j \in Keys : h.actions[j] # NoRow => SetUp(t, j) = SetUp(spec, j)
      BY <2>4, <3>2 DEF SetUp
    <3> QED
      BY <2>4, <3>1, <3>3 DEF Own
  <2>11. ASSUME ~operated PROVE Asked(t, answers')
    <3>1. Asked(spec, answers)
      BY <2>11 DEF ProvisioningInv, Builds
    <3> QED
      BY <2>4, <2>5, <3>1 DEF Asked
  <2> QED
    BY <1>0, <2>1, <2>2, <2>4, <2>7, <2>8, <2>9, <2>10, <2>11, DraftKeeps
<1> QED
  BY <1>1, <1>2

-----------------------------------------------------------------------------
(* Routines, connected systems and the operator.                           *)

LEMMA SetRoutineKeeps ==
    ASSUME ProvisioningInv, NEW r \in Routines, NEW on \in BOOLEAN,
           SetRoutine(r, on)
    PROVE  ProvisioningInv'
<1>0. /\ ProvisioningTypeOK /\ rows[r] # NoRow
      /\ rows' = [rows EXCEPT ![r].on = on]
      /\ plan' = Synced(plan, r, on)
      /\ UNCHANGED <<live, spec, answers, owner, pending, version, actions,
                     tool, timers, conn, counts>>
  BY DEF ProvisioningInv, SetRoutine
<1>1. spec # NoSpec /\ Fits(Current, owner, operated)
  BY <1>0 DEF ProvisioningInv, Whole, Blank, Current
<1>2. plan \in Plans
  BY <1>0, <1>1 DEF ProvisioningTypeOK, Fits, Current
<1>3. /\ plan' = [plan EXCEPT !.trig[r] = IF on THEN "ready" ELSE "disabled"]
  BY <1>0, <1>2, NoneAssumption DEF Synced
<1>4. /\ plan' \in Plans /\ plan' # NoPlan /\ plan'.exec = plan.exec
      /\ \A q \in Routines :
            plan'.trig[q] = IF q = r THEN IF on THEN "ready" ELSE "disabled"
                                     ELSE plan.trig[q]
  BY <1>2, <1>3, NoneAssumption DEF Plans
<1>5. /\ rows' \in [Routines -> Workflows \cup {NoRow}]
      /\ \A q \in Routines : q # r => rows'[q] = rows[q]
      /\ rows'[r] # NoRow /\ rows'[r].brief = rows[r].brief
      /\ rows'[r].on = on
  <2>1. rows \in [Routines -> Workflows \cup {NoRow}]
    BY <1>0 DEF ProvisioningTypeOK
  <2>2. rows[r] \in Workflows
    BY <1>0, <2>1
  <2> DEFINE w == [rows[r] EXCEPT !.on = on]
  <2>3. w \in Workflows /\ w.brief = rows[r].brief /\ w.on = on
    BY <2>2 DEF Workflows
  <2>4. rows' = [rows EXCEPT ![r] = w]
    BY <1>0
  <2> HIDE DEF w
  <2> QED
    BY <2>1, <2>3, <2>4, NoneAssumption
<1>6. ProvisioningTypeOK'
  BY <1>0, <1>4, <1>5 DEF ProvisioningTypeOK, counts
<1>7. Builds' /\ LiveConnected'
  BY <1>0 DEF ProvisioningInv, Builds, LiveConnected, Kept, Asked, Made, Told,
              counts, Unconnected
<1>8. operated' = operated
  BY <1>0 DEF counts
<1>9. Belongs(spec, Current)'
  BY <1>0, <1>1, <1>5 DEF Fits, Belongs, Current
<1>10. Granted(Current, owner)'
  BY <1>0, <1>1 DEF Fits, Granted, Current
<1>11. Shown(Current)'
  <2> SUFFICES ASSUME NEW q \in Routines, Uses[spec.brief][q] # {}
               PROVE  /\ plan'.trig[q] # "none"
                      /\ plan'.trig[q] = "ready" =>
                            rows'[q] # NoRow /\ rows'[q].on
    BY <1>0 DEF Shown, Current
  <2>1. CASE q = r
    BY <1>4, <1>5, <2>1
  <2>2. CASE q # r
    BY <1>1, <1>4, <1>5, <2>2 DEF Fits, Shown, Current
  <2> QED
    BY <2>1, <2>2
<1>12. ASSUME ~operated PROVE Own(spec, Current)' /\ Works(Current)'
  BY <1>0, <1>1, <1>4, <1>12 DEF Fits, Own, Works, Current
<1>13. ASSUME ~operated PROVE Blocked(Current)'
  <2>1. \A q \in Routines : plan'.trig[q] = "setup_required" =>
            plan.trig[q] = "setup_required"
    BY <1>4
  <2> QED
    BY <1>0, <1>1, <1>4, <1>13, <2>1 DEF Fits, Blocked, Current
<1>14. \A k \in Keys : spec'.need[k] # "build"
  BY <1>0, <1>1 DEF Fits, Current
<1>15. Fits(Current, owner, operated)'
  BY <1>0, <1>4, <1>8, <1>9, <1>10, <1>11, <1>12, <1>13, <1>14
     DEF Fits, Current
<1> QED
  BY <1>0, <1>1, <1>6, <1>7, <1>15 DEF ProvisioningInv, Whole

LEMMA ConnectionKeeps ==
    ASSUME ProvisioningInv,
           \/ CreateConnection
           \/ \E c \in Conns : EditConnection(c) \/ Validate(c)
    PROVE  ProvisioningInv'
<1>0. /\ UNCHANGED <<live, spec, plan, answers, owner, pending, version,
                     runtime, operated>>
      /\ changes' \in 0 .. MaxChanges
      /\ conn' \in [Conns -> {"none", "valid", "stale"}]
  <2>1. CASE CreateConnection
    BY <2>1, ConnectTyped
       DEF CreateConnection, ProvisioningInv, ProvisioningTypeOK, counts
  <2>2. ASSUME NEW c \in Conns, EditConnection(c)
        PROVE  /\ UNCHANGED <<live, spec, plan, answers, owner, pending,
                              version, runtime, operated>>
               /\ changes' \in 0 .. MaxChanges
               /\ conn' \in [Conns -> {"none", "valid", "stale"}]
    BY <2>2, ChangeTyped DEF EditConnection, ProvisioningInv,
       ProvisioningTypeOK
  <2>3. ASSUME NEW c \in Conns, Validate(c)
        PROVE  /\ UNCHANGED <<live, spec, plan, answers, owner, pending,
                              version, runtime, operated>>
               /\ changes' \in 0 .. MaxChanges
               /\ conn' \in [Conns -> {"none", "valid", "stale"}]
    BY <2>3, ConnectTyped DEF Validate, ProvisioningInv, ProvisioningTypeOK,
       counts
  <2> QED
    BY <2>1, <2>2, <2>3
<1>1. ProvisioningTypeOK'
  BY <1>0 DEF ProvisioningInv, ProvisioningTypeOK, runtime
<1>2. Whole'
  BY <1>0, QuietKeeps DEF ProvisioningInv
<1>3. Builds' /\ LiveConnected'
  BY <1>0
     DEF ProvisioningInv, Builds, LiveConnected, Kept, Asked, Made, Told,
         Unconnected
<1> QED
  BY <1>1, <1>2, <1>3 DEF ProvisioningInv

LEMMA OperatorEditKeeps ==
    ASSUME ProvisioningInv, NEW on \in SUBSET Keys, OperatorEdit(on)
    PROVE  ProvisioningInv'
<1>0. /\ ProvisioningTypeOK /\ Change /\ operated' = TRUE
      /\ actions' = [k \in Keys |->
                        IF actions[k] = NoRow THEN NoRow
                        ELSE Normalized(actions[k], k \in on)]
      /\ tool' \in {"on", "off"}
      /\ UNCHANGED <<live, spec, plan, answers, owner, pending, version,
                     timers, rows, conn>>
  BY DEF ProvisioningInv, OperatorEdit
<1>1. ASSUME NEW k \in Keys, actions[k] # NoRow
      PROVE  /\ Normalized(actions[k], k \in on) \in Actions
             /\ Normalized(actions[k], k \in on).by = "operator"
  <2>1. actions[k] \in Actions
    BY <1>0, <1>1 DEF ProvisioningTypeOK
  <2>2. /\ actions[k].to \in {0} \cup Conns
        /\ (k \in on) \in BOOLEAN
    BY <2>1 DEF Actions
  <2> QED
    BY <2>2 DEF Normalized, Actions, Modes
<1>2. actions' \in [Keys -> Actions \cup {NoRow}]
  BY <1>0, <1>1
<1>3. \A k \in Keys : actions'[k] # NoRow => actions'[k].by = "operator"
  BY <1>0, <1>1
<1>4. ProvisioningTypeOK'
  BY <1>0, <1>2, ChangeTyped DEF ProvisioningTypeOK
<1>5. Builds' /\ LiveConnected'
  BY <1>0
     DEF ProvisioningInv, Builds, LiveConnected, Kept, Asked, Made, Told,
         Unconnected
<1>6. ASSUME spec = NoSpec PROVE Blank(Current, operated)'
  BY <1>0, <1>3, <1>6 DEF ProvisioningInv, Whole, Blank, Current
<1>7. ASSUME spec # NoSpec PROVE Fits(Current, owner, operated)'
  BY <1>0, <1>3, <1>7
     DEF ProvisioningInv, Whole, Fits, Belongs, Granted, Shown, Current
<1> QED
  BY <1>0, <1>4, <1>5, <1>6, <1>7 DEF ProvisioningInv, Whole

-----------------------------------------------------------------------------
(* Theorems.                                                               *)

LEMMA StutterKeeps ==
    ASSUME ProvisioningInv, UNCHANGED provisioningVars
    PROVE  ProvisioningInv'
<1>0. UNCHANGED <<live, spec, plan, answers, owner, pending, version, runtime,
                  conn, operated, changes>>
  BY DEF provisioningVars, counts
<1>1. ProvisioningTypeOK'
  BY <1>0 DEF ProvisioningInv, ProvisioningTypeOK, runtime
<1>2. Whole'
  BY <1>0, QuietKeeps DEF ProvisioningInv
<1>3. Builds' /\ LiveConnected'
  BY <1>0
     DEF ProvisioningInv, Builds, LiveConnected, Kept, Asked, Made, Told,
         Unconnected
<1> QED
  BY <1>1, <1>2, <1>3 DEF ProvisioningInv

LEMMA ProvisioningStep ==
    ASSUME ProvisioningInv, [ProvisioningNext]_provisioningVars
    PROVE  ProvisioningInv'
  BY CompileKeeps, ReviseKeeps, RestoreKeeps, SetPermissionKeeps,
     StageKeeps, StageVersionKeeps, DiscardKeeps, ApplyKeeps, LaunchKeeps,
     DiscoverKeeps, ResolvedKeeps, BindKeeps, AnswerKeeps, SetRoutineKeeps,
     ConnectionKeeps, OperatorEditKeeps, StutterKeeps DEF ProvisioningNext

LEMMA ProvisioningHolds == ProvisioningSpec => []ProvisioningInv
<1>1. ProvisioningInit => ProvisioningInv
  BY InitWhole
<1>2. ProvisioningInv /\ [ProvisioningNext]_provisioningVars
        => ProvisioningInv'
  BY ProvisioningStep
<1> QED
  BY <1>1, <1>2, PTL DEF ProvisioningSpec

\* Types: the stored build, the plan and the rows that run keep their types
\* through every endpoint, in whatever order builds are compiled, restored,
\* staged, applied, amended and launched.
THEOREM ProvisioningIsTyped == ProvisioningSpec => []ProvisioningTypeOK
<1>1. ProvisioningInv => ProvisioningTypeOK
  BY DEF ProvisioningInv
<1> QED
  BY <1>1, ProvisioningHolds, PTL

\* What runs is the stored build with the permissions of its owner: after
\* any sequence of endpoints no scheduled workflow, routine or generated
\* action of another build can run, and a live employee does without asking
\* what its owner granted and no more.
THEOREM TheBuildRuns == ProvisioningSpec => []OnlyTheBuildRuns
<1>1. ASSUME ProvisioningInv PROVE OfTheBuild
  <2>1. CASE spec = NoSpec
    BY <1>1, <2>1
       DEF ProvisioningInv, Whole, Blank, Current, OfTheBuild,
           ProvisioningTypeOK,
           Actions
  <2>2. CASE spec # NoSpec
    <3>1. Made(spec) /\ Belongs(spec, Current)
      BY <1>1, <2>2 DEF ProvisioningInv, Whole, Fits, Builds, Kept, Current
    <3>2. \A k \in Keys : actions[k] # NoRow =>
              actions[k].by \in {"xvond", "operator"}
      BY <1>1 DEF ProvisioningInv, ProvisioningTypeOK, Actions
    <3> QED
      BY <2>2, <3>1, <3>2 DEF OfTheBuild, Belongs, Made, Current
  <2> QED
    BY <2>1, <2>2
<1>2. ASSUME ProvisioningInv PROVE AsPermitted
  <2> SUFFICES ASSUME live, NEW k \in Keys, actions[k] # NoRow,
                      actions[k].by = "xvond"
               PROVE  actions[k].mode = Mode(owner, k)
    BY DEF AsPermitted
  <2>1. spec # NoSpec /\ Unconnected(spec) = {}
    BY <1>2 DEF ProvisioningInv, LiveConnected
  <2>2. /\ Fits(Current, owner, operated) /\ spec \in Specs
    BY <1>2, <2>1 DEF ProvisioningInv, Whole, ProvisioningTypeOK
  <2>3. spec.need[k] \notin {"off", "input", "build", "connection"}
    BY <2>1, <2>2 DEF Fits, Belongs, Current, Unconnected
  <2>4. spec.need[k] = "managed"
    BY <2>2, <2>3 DEF Specs, Needs
  <2> QED
    BY <2>2, <2>4 DEF Fits, Granted, Current
<1> QED
  BY <1>1, <1>2, ProvisioningHolds, PTL DEF OnlyTheBuildRuns

\* An employee goes live, or gets a new build, only with all of its actions,
\* scheduled workflows and routines in place and enabled, for any
\* requirements and routines, as long as no operator has changed them.
THEOREM LaunchesHaveWork == ProvisioningSpec => LaunchHasWork
<1>1. ASSUME ProvisioningInv, ProvisioningInv', Launch \/ Apply, ~operated
      PROVE  HasWork'
  <2>1. /\ spec' # NoSpec /\ operated' = operated
        /\ \A r \in Routines : plan'.trig[r] \in {"ready", "none"}
        /\ \A k \in Keys : spec'.need[k] # "connection"
        /\ \A k \in Keys :
              spec'.need[k] = "managed" /\ k \notin External(spec'.brief)
                 => plan'.exec[k] \notin {"setup_required",
                                         "approval_required"}
    <3>1. CASE Launch
      <4>1. /\ spec' = spec /\ plan' = plan /\ operated' = operated
            /\ Ready(spec, plan, answers, Valid)
        BY <3>1 DEF Launch, counts
      <4> QED
        BY <4>1 DEF Ready, TriggersReady, RequirementsReady, Unconnected,
                    Built, Viewed
    <3>2. CASE Apply
      <4> DEFINE r == Stored(pending.spec, owner, pending.answers, Cleared)
      <4>1. Store(r) /\ Ready(r.spec, r.plan, pending.answers, Valid)
        BY <3>2 DEF Apply
      <4> HIDE DEF r
      <4>2. spec' = r.spec /\ plan' = r.plan /\ operated' = operated
        BY <3>2, <4>1 DEF Apply, Store, counts
      <4> QED
        BY <4>1, <4>2 DEF Ready, TriggersReady, RequirementsReady,
                          Unconnected, Built, Viewed
    <3> QED
      BY <1>1, <3>1, <3>2
  <2>2. spec' \in Specs /\ plan' \in Plans
    BY <1>1, <2>1 DEF ProvisioningInv, ProvisioningTypeOK, Whole, Fits, Current
  <2>3. Fits(Current, owner, operated)'
    BY <1>1, <2>1 DEF ProvisioningInv, Whole
  <2>4. ASSUME NEW k \in Keys, spec'.need[k] \notin {"off", "input"}
        PROVE  /\ actions'[k] # NoRow /\ actions'[k].on /\ tool' = "on"
               /\ \/ actions'[k].mode = "never"
                  \/ k \notin OwnTimed(spec'.brief) \ External(spec'.brief)
                  \/ timers'[k] # NoRow
    <3>1. spec'.need[k] = "managed"
      BY <2>1, <2>2, <2>3, <2>4 DEF Fits, Current, Specs, Needs
    <3>2. /\ actions'[k] # NoRow /\ tool' = "on"
          /\ plan'.exec[k] \notin {"none", "disabled"}
          /\ plan'.exec[k] = "permission_denied" =>
                actions'[k].mode = "never"
          /\ plan'.exec[k] = "ready" /\ k \in OwnTimed(spec'.brief) =>
                timers'[k] # NoRow
      BY <1>1, <2>1, <2>3, <3>1 DEF Fits, Works, Current
    <3>3. actions'[k].on
      BY <1>1, <2>1, <2>3, <3>2 DEF Fits, Own, Current
    <3>4. plan'.exec[k] \in Exec
      BY <2>2 DEF Plans
    <3> QED
      BY <2>1, <3>1, <3>2, <3>3, <3>4 DEF Exec
  <2>5. ASSUME NEW r \in Routines, Uses[spec'.brief][r] # {}
        PROVE  rows'[r] # NoRow /\ rows'[r].on
    BY <2>1, <2>3, <2>5 DEF Fits, Shown, Current
  <2> QED
    BY <2>4, <2>5 DEF HasWork
<1>2. ProvisioningInv /\ ProvisioningInv'
      /\ [ProvisioningNext]_provisioningVars
         => [(Launch \/ Apply) => operated \/ HasWork']_provisioningVars
  BY <1>1
<1> QED
  BY <1>2, ProvisioningHolds, PTL DEF ProvisioningSpec, LaunchHasWork

\* The owner of a draft always sees a next step: what is left to set up, or a
\* launch that is accepted, save where the journey ends (DeadEnd), for any
\* requirements and routines, as long as no operator has changed them.
THEOREM NextStepsAreShown == ProvisioningSpec => []NextStepIsShown
<1>1. ASSUME Raises(spec)
      PROVE  DeadEnd
  BY <1>1 DEF Raises, DeadEnd
<1>2. ASSUME NEW k \in Unanswered(spec, answers) \cap Secret[spec.brief]
      PROVE  DeadEnd
  BY DEF Unanswered, DeadEnd
<1>3. ASSUME ProvisioningInv, ~live, ~operated, ~Raises(spec),
             Unanswered(spec, answers) \cap Secret[spec.brief] = {},
             NextSteps(spec, plan, answers, Valid) = {}
      PROVE  DeadEnd
  <2>1. /\ spec # NoSpec
        /\ Setup(spec, plan, answers, Valid) = {}
        /\ HeldBack(spec, plan) \/ ~Ready(spec, plan, answers, Valid)
    BY <1>3 DEF NextSteps, Building
  <2>2. /\ spec \in Specs /\ Made(spec)
        /\ Fits(Current, owner, operated) /\ Asked(spec, answers)
    BY <1>3, <2>1 DEF ProvisioningInv, Whole, Builds, Kept, Made
  <2>3. plan \in Plans
    BY <1>3, <2>2 DEF ProvisioningInv, ProvisioningTypeOK, Fits, Current
  <2>4. /\ Unanswered(spec, answers) = {} /\ Unconnected(spec) = {}
        /\ Unapproved(spec, plan) = {} /\ Unvalidated(spec, Valid) = {}
    BY <1>3, <2>1 DEF Setup
  <2>5. \A k \in Keys : k \in Built(spec) <=> spec.need[k] = "managed"
    BY <2>2 DEF Fits, Current, Built
  <2>6. \A k \in Keys : \/ spec.need[k] = "managed"
                        \/ spec.need[k] = "off"
                        \/ spec.need[k] = "input" /\ answers[k] # "none"
    BY <2>2, <2>4, <2>5
       DEF Specs, Needs, Unanswered, Unconnected, Built, Fits, Current
  <2>7. ASSUME NEW k \in Keys, spec.need[k] = "managed"
        PROVE  /\ actions[k] # NoRow
               /\ actions[k].to # 0 => k \in External(spec.brief)
               /\ actions[k].set = SetUp(spec, k)
               /\ plan.exec[k] \in {"ready", "setup_required",
                                    "permission_denied"}
               /\ plan.exec[k] = "permission_denied" =>
                     actions[k].mode = "never"
               /\ plan.exec[k] = "setup_required" =>
                     actions[k].set = "no" \/ actions[k].to # 0
    <3>1. /\ actions[k] # NoRow /\ plan.exec[k] \notin {"none", "disabled"}
          /\ plan.exec[k] = "permission_denied" => actions[k].mode = "never"
          /\ plan.exec[k] = "setup_required" =>
                actions[k].set = "no" \/ actions[k].to # 0
      BY <1>3, <2>2, <2>7 DEF Fits, Works, Current
    <3>2. plan.exec[k] # "approval_required"
      BY <2>4, <2>5, <2>7 DEF Unapproved
    <3>3. plan.exec[k] \in Exec
      BY <2>3 DEF Plans
    <3>4. /\ actions[k].to # 0 => k \in External(spec.brief)
          /\ actions[k].set = SetUp(spec, k)
      BY <1>3, <2>2, <3>1 DEF Fits, Own, Current
    <3> QED
      BY <3>1, <3>2, <3>3, <3>4 DEF Exec
  <2>8. ASSUME NEW k \in Keys, spec.need[k] = "managed",
               plan.exec[k] = "setup_required"
        PROVE  DeadEnd
    <3>1. CASE actions[k].set = "no"
      BY <2>5, <2>7, <2>8, <3>1 DEF DeadEnd
    <3>2. CASE actions[k].to # 0
      <4>1. k \in External(spec.brief) /\ k \in Built(spec)
        BY <2>5, <2>7, <2>8, <3>2
      <4>2. spec.link \in Valid
        BY <2>4, <4>1 DEF Unvalidated
      <4> QED
        BY <2>8, <4>1, <4>2 DEF DeadEnd
    <3> QED
      BY <2>7, <2>8, <3>1, <3>2
  <2>9. CASE ~TriggersReady(plan)
    <3>1. PICK r \in Routines : plan.trig[r] \notin {"ready", "none"}
      BY <2>9 DEF TriggersReady
    <3>2. plan.trig[r] \in {"setup_required", "disabled"}
      BY <2>3, <3>1 DEF Plans
    <3>3. CASE plan.trig[r] = "disabled"
      BY <3>3 DEF DeadEnd
    <3>4. CASE plan.trig[r] = "setup_required"
      <4>1. PICK k \in Uses[spec.brief][r] :
                \/ spec.need[k] # "managed"
                \/ actions[k].mode # "never" /\ plan.exec[k] # "ready"
        BY <1>3, <2>2, <3>4 DEF Fits, Blocked, Current
      <4>2. k \in Keys
        BY <2>2, KindsAre DEF Specs
      <4>3. CASE spec.need[k] = "off"
        BY <4>3 DEF DeadEnd
      <4>4. ~(spec.need[k] = "input" /\ answers[k] # "none")
        BY <2>1, <2>2, <4>2 DEF Asked
      <4>5. CASE spec.need[k] = "managed"
        <5>1. plan.exec[k] = "setup_required"
          BY <2>7, <4>1, <4>2, <4>5
        <5> QED
          BY <2>8, <4>2, <4>5, <5>1
      <4> QED
        BY <2>6, <4>2, <4>3, <4>4, <4>5
    <3> QED
      BY <3>2, <3>3, <3>4
  <2>10. CASE /\ TriggersReady(plan)
              /\ \A k \in Built(spec) : plan.exec[k] # "setup_required"
    <3>1. ~HeldBack(spec, plan)
      BY <2>5, <2>7, <2>10 DEF HeldBack, Built
    <3>2. RequirementsReady(spec, plan, answers)
      BY <2>4, <2>5, <2>7, <2>10 DEF RequirementsReady, Viewed, Built
    <3>3. External(spec.brief) # {} => spec.link \in Valid
      <4> SUFFICES ASSUME NEW k \in External(spec.brief)
                   PROVE  spec.link \in Valid
        OBVIOUS
      <4>1. k \in Keys /\ spec.need[k] = "managed"
        BY <2>2, <2>6 DEF External, Made
      <4> QED
        BY <2>4, <2>5, <4>1 DEF Unvalidated
    <3>4. plan # NoPlan
      BY <2>3, NoneAssumption
    <3> QED
      BY <2>1, <2>10, <3>1, <3>2, <3>3, <3>4 DEF Ready
  <2> QED
    BY <2>5, <2>8, <2>9, <2>10 DEF Built
<1>4. ProvisioningInv => NextStepIsShown
  BY <1>1, <1>2, <1>3 DEF NextStepIsShown
<1> QED
  BY <1>4, ProvisioningHolds, PTL
=============================================================================
