-------------------------- MODULE GatewayTurnProofs --------------------------
(***************************************************************************)
(* Proofs about a managed channel's conversation, for every set of         *)
(* messages, replies and requests and for every bound: the delivery rows   *)
(* say what happened to the messages, and what is delivered for a message  *)
(* is its answer.                                                          *)
(***************************************************************************)
EXTENDS GatewayTurn, TLAPS

LogRow == [role : {"user", "assistant", "human", "gone"},
           of : Keys \cup {Nobody},
           by : Requests \cup {Nobody}]

Places == {"idle", "store", "chat", "turn", "deliver", "insert", "attempt",
           "loaded", "begun", "calling"}

ReqRow == [pc : Places, key : Keys \cup {Nobody}, id : Nat, sent : BOOLEAN,
           seen : Statuses \cup {"none"}]

-----------------------------------------------------------------------------
(* What transactions do to the log.                                        *)

\* A commit changes who has not committed a row, and nothing else.
LEMMA CommittedLog ==
    ASSUME log \in Seq(LogRow), NEW r \in Requests
    PROVE  /\ Committed(log, r) \in Seq(LogRow)
           /\ Len(Committed(log, r)) = Len(log)
           /\ \A i \in 1 .. Len(log) :
                 /\ Committed(log, r)[i].role = log[i].role
                 /\ Committed(log, r)[i].of = log[i].of
                 /\ Committed(log, r)[i].by =
                       IF log[i].by = r THEN Nobody ELSE log[i].by
                 /\ log[i].by = Nobody => Committed(log, r)[i] = log[i]
<1> USE GatewayAssumption
<1>1. DOMAIN log = 1 .. Len(log) /\ Len(log) \in Nat
  OBVIOUS
<1>2. \A i \in 1 .. Len(log) : log[i] \in LogRow
  OBVIOUS
<1>3. \A i \in 1 .. Len(log) : Committed(log, r)[i] =
          IF log[i].by = r THEN [log[i] EXCEPT !.by = Nobody] ELSE log[i]
  BY <1>1 DEF Committed
<1>4. \A i \in 1 .. Len(log) : Committed(log, r)[i] \in LogRow
  BY <1>2, <1>3 DEF LogRow
<1>5. Committed(log, r) \in [1 .. Len(log) -> LogRow]
  BY <1>1, <1>4 DEF Committed
<1>6. Committed(log, r) \in Seq(LogRow) /\ Len(Committed(log, r)) = Len(log)
  BY <1>1, <1>5
<1> QED
  BY <1>2, <1>3, <1>6 DEF LogRow

\* A rollback leaves a gap for each row of the transaction.
LEMMA RolledBackLog ==
    ASSUME log \in Seq(LogRow), NEW r \in Requests
    PROVE  /\ RolledBack(log, r) \in Seq(LogRow)
           /\ Len(RolledBack(log, r)) = Len(log)
           /\ \A i \in 1 .. Len(log) :
                 /\ log[i].by # r => RolledBack(log, r)[i] = log[i]
                 /\ log[i].by = r =>
                       RolledBack(log, r)[i] = Row("gone", Nobody, Nobody)
<1>1. DOMAIN log = 1 .. Len(log) /\ Len(log) \in Nat
  OBVIOUS
<1>2. \A i \in 1 .. Len(log) : log[i] \in LogRow
  OBVIOUS
<1>3. \A i \in 1 .. Len(log) : RolledBack(log, r)[i] =
          IF log[i].by = r THEN Row("gone", Nobody, Nobody) ELSE log[i]
  BY <1>1 DEF RolledBack
<1>4. Row("gone", Nobody, Nobody) \in LogRow
  BY DEF Row, LogRow
<1>5. RolledBack(log, r) \in [1 .. Len(log) -> LogRow]
  BY <1>1, <1>2, <1>3, <1>4 DEF RolledBack
<1> QED
  BY <1>1, <1>3, <1>5

\* A row is added at the end.
LEMMA AppendLog ==
    ASSUME NEW s \in Seq(LogRow), NEW e \in LogRow
    PROVE  /\ Append(s, e) \in Seq(LogRow)
           /\ DOMAIN Append(s, e) = 1 .. Len(s) + 1
           /\ Append(s, e)[Len(s) + 1] = e
           /\ \A i \in 1 .. Len(s) : Append(s, e)[i] = s[i]
           /\ Len(Append(s, e)) = Len(s) + 1
  OBVIOUS

-----------------------------------------------------------------------------
(* Types.                                                                  *)

\* A request that answers has a message, one that delivers a row to send.
ReqInv ==
    \A r \in Requests :
        /\ req[r].pc \in {"store", "chat", "turn", "deliver", "insert"} =>
               req[r].key \in Messages
        /\ req[r].pc \in {"attempt", "loaded", "begun", "calling"} =>
               req[r].key \in Keys /\ delivery[req[r].key] # NoRow

\* A reply is stored together with its delivery row.
ReplyInv ==
    \A i \in DOMAIN log : log[i].role = "human" =>
        log[i].of \in Replies /\ delivery[log[i].of] # NoRow

TypeInv == TypeOK /\ ReqInv /\ ReplyInv

LEMMA TypeInit == Init => TypeInv
<1> SUFFICES ASSUME Init PROVE TypeInv
  OBVIOUS
<1>1. log \in Seq(LogRow)
  BY DEF Init
<1>2. req \in [Requests -> ReqRow]
  <2>1. Idle \in ReqRow
    BY DEF Idle, NewRequest, ReqRow, Places
  <2> QED
    BY <2>1 DEF Init
<1>3. TypeOK
  <2>1. /\ lock \in Requests \cup {Nobody}
        /\ {handoff, verified} \subseteq BOOLEAN
        /\ apart \subseteq Messages
        /\ misjudged \subseteq Keys /\ outdated \subseteq Keys
    BY DEF Init
  <2>2. /\ delivery \in [Keys -> [status : Statuses, id : Nat] \cup {NoRow}]
        /\ flying \in [Keys -> Nat] /\ copies \in [Keys -> Nat]
    BY DEF Init
  <2>3. /\ begun \in 0 .. MaxBegun /\ controls \in 0 .. MaxControls
        /\ crashes \in 0 .. MaxCrashes
    BY GatewayAssumption DEF Init
  <2> QED
    BY <1>1, <1>2, <2>1, <2>2, <2>3 DEF TypeOK, LogRow, ReqRow, Places
<1>4. ReqInv
  BY DEF Init, ReqInv, Idle, NewRequest
<1>5. ReplyInv
  BY DEF Init, ReplyInv
<1> QED
  BY <1>3, <1>4, <1>5 DEF TypeInv

\* The conjuncts of TypeOK, with names.
LEMMA Types ==
    TypeOK <=>
    /\ log \in Seq(LogRow) /\ req \in [Requests -> ReqRow]
    /\ lock \in Requests \cup {Nobody}
    /\ handoff \in BOOLEAN /\ verified \in BOOLEAN
    /\ delivery \in [Keys -> [status : Statuses, id : Nat] \cup {NoRow}]
    /\ flying \in [Keys -> Nat] /\ copies \in [Keys -> Nat]
    /\ apart \subseteq Messages
    /\ misjudged \subseteq Keys /\ outdated \subseteq Keys
    /\ begun \in 0 .. MaxBegun /\ controls \in 0 .. MaxControls
    /\ crashes \in 0 .. MaxCrashes
  BY DEF TypeOK, LogRow, ReqRow, Places

LEMMA TypesNext ==
    ASSUME log' \in Seq(LogRow), req' \in [Requests -> ReqRow],
           lock' \in Requests \cup {Nobody},
           handoff' \in BOOLEAN, verified' \in BOOLEAN,
           delivery' \in [Keys -> [status : Statuses, id : Nat] \cup {NoRow}],
           flying' \in [Keys -> Nat], copies' \in [Keys -> Nat],
           apart' \subseteq Messages,
           misjudged' \subseteq Keys, outdated' \subseteq Keys,
           begun' \in 0 .. MaxBegun, controls' \in 0 .. MaxControls,
           crashes' \in 0 .. MaxCrashes
    PROVE  TypeOK'
  BY DEF TypeOK, LogRow, ReqRow, Places

\* How a step changes what the requests do.
LEMMA BeginsReq ==
    ASSUME TypeOK, NEW r \in Requests, NEW pc \in Places, NEW k \in Keys,
           NEW id \in Nat, Begins(r, pc, k, id)
    PROVE  /\ req' \in [Requests -> ReqRow] /\ begun' \in 0 .. MaxBegun
           /\ req'[r].pc = pc /\ req'[r].key = k
           /\ \A s \in Requests \ {r} : req'[s] = req[s]
<1>1. NewRequest(pc, k, id) \in ReqRow
  BY DEF NewRequest, ReqRow
<1>2. NewRequest(pc, k, id).pc = pc /\ NewRequest(pc, k, id).key = k
  BY DEF NewRequest
<1> QED
  BY <1>1, <1>2, Types, GatewayAssumption DEF Begins

\* The copy of a row that a request loads.
LEMMA LoadReq ==
    ASSUME TypeOK, NEW r \in Requests, NEW pc \in Places, Load(r, pc),
           req[r].key \in Keys, delivery[req[r].key] # NoRow
    PROVE  /\ req' \in [Requests -> ReqRow]
           /\ req'[r].pc = pc
           /\ req'[r].key = req[r].key
           /\ req'[r].sent = req[r].sent
           /\ \A s \in Requests \ {r} : req'[s] = req[s]
<1> DEFINE status == delivery[req[r].key].status
           row == [req[r] EXCEPT !.pc = pc, !.seen = status]
<1>1. req[r] \in ReqRow /\ status \in Statuses
  BY Types
<1>2. row \in ReqRow /\ row.pc = pc /\ row.key = req[r].key
      /\ row.sent = req[r].sent
  BY <1>1 DEF ReqRow
<1>3. req' = [req EXCEPT ![r] = row]
  BY <1>1, Types DEF Load
<1> HIDE DEF row
<1> QED
  BY <1>2, <1>3, Types

LEMMA GoesReq ==
    ASSUME TypeOK, NEW r \in Requests, NEW pc \in Places, Goes(r, pc)
    PROVE  /\ req' \in [Requests -> ReqRow]
           /\ req'[r].pc = pc
           /\ req'[r].key = req[r].key
           /\ req'[r].id = req[r].id
           /\ req'[r].sent = req[r].sent
           /\ \A s \in Requests \ {r} : req'[s] = req[s]
  BY Types DEF Goes, ReqRow

LEMMA EndsReq ==
    ASSUME TypeOK, NEW r \in Requests, Ends(r)
    PROVE  /\ req' \in [Requests -> ReqRow]
           /\ req'[r] = Idle
           /\ \A s \in Requests \ {r} : req'[s] = req[s]
<1>1. Idle \in ReqRow
  BY DEF Idle, NewRequest, ReqRow, Places
<1> QED
  BY <1>1, Types DEF Ends

\* New statuses are statuses of the same rows.
LEMMA SetStatusRow ==
    ASSUME TypeOK, NEW k \in Keys, delivery[k] # NoRow,
           NEW status \in Statuses, SetStatus(k, status)
    PROVE  /\ delivery' \in [Keys -> [status : Statuses, id : Nat]
                                        \cup {NoRow}]
           /\ delivery'[k] = [status |-> status, id |-> delivery[k].id]
           /\ delivery'[k] # NoRow
           /\ \A j \in Keys \ {k} : delivery'[j] = delivery[j]
<1>1. delivery \in [Keys -> [status : Statuses, id : Nat] \cup {NoRow}]
  BY Types
<1>2. delivery[k] \in [status : Statuses, id : Nat]
  BY <1>1
<1>3. [delivery[k] EXCEPT !.status = status]
         = [status |-> status, id |-> delivery[k].id]
  BY <1>2
<1>4. /\ delivery'[k] = [status |-> status, id |-> delivery[k].id]
      /\ \A j \in Keys \ {k} : delivery'[j] = delivery[j]
  BY <1>1, <1>3 DEF SetStatus
<1>5. delivery'[k] \in [status : Statuses, id : Nat]
  BY <1>2, <1>4
<1> QED
  BY <1>1, <1>4, <1>5, NoRowAssumption DEF SetStatus

\* A request's step that keeps the rest keeps ReqInv.
LEMMA ReqInvKept ==
    ASSUME TypeInv, NEW r \in Requests,
           \A s \in Requests \ {r} : req'[s] = req[s],
           \A k \in Keys : delivery[k] # NoRow => delivery'[k] # NoRow,
           req'[r].pc \in {"store", "chat", "turn", "deliver", "insert"} =>
               req'[r].key \in Messages,
           req'[r].pc \in {"attempt", "loaded", "begun", "calling"} =>
               req'[r].key \in Keys /\ delivery'[req'[r].key] # NoRow
    PROVE  ReqInv'
  BY DEF TypeInv, ReqInv

\* So does one that commits, rolls back or adds rows of the model keep
\* ReplyInv.
LEMMA ReplyInvKept ==
    ASSUME TypeInv,
           \A k \in Keys : delivery[k] # NoRow => delivery'[k] # NoRow,
           \A i \in DOMAIN log' : log'[i].role = "human" =>
               \/ i \in DOMAIN log /\ log[i].role = "human"
                  /\ log'[i].of = log[i].of
               \/ log'[i].of \in Replies /\ delivery'[log'[i].of] # NoRow
    PROVE  ReplyInv'
  BY DEF TypeInv, ReplyInv, Keys

LEMMA TypeStep == TypeInv /\ [Next]_vars => TypeInv'
<1> SUFFICES ASSUME TypeInv, [Next]_vars
             PROVE  TypeInv'
  OBVIOUS
<1> USE GatewayAssumption
<1>0. TypeOK /\ Idle.pc = "idle"
  BY DEF TypeInv, Idle, NewRequest
<1>t. /\ log \in Seq(LogRow) /\ req \in [Requests -> ReqRow]
      /\ lock \in Requests \cup {Nobody}
      /\ handoff \in BOOLEAN /\ verified \in BOOLEAN
      /\ delivery \in [Keys -> [status : Statuses, id : Nat] \cup {NoRow}]
      /\ flying \in [Keys -> Nat] /\ copies \in [Keys -> Nat]
      /\ apart \subseteq Messages
      /\ misjudged \subseteq Keys /\ outdated \subseteq Keys
      /\ begun \in 0 .. MaxBegun /\ controls \in 0 .. MaxControls
      /\ crashes \in 0 .. MaxCrashes
  BY <1>0, Types
<1>k. /\ Messages \subseteq Keys /\ Replies \subseteq Keys
      /\ \A r \in Requests : req[r].key \in Keys \cup {Nobody}
  BY <1>t DEF Keys, ReqRow
<1>p. {"idle", "store", "chat", "turn", "deliver", "insert", "attempt",
       "loaded", "begun", "calling"} = Places
  BY DEF Places
<1>1. ASSUME NEW r \in Requests, NEW m \in Messages, Post(r, m)
      PROVE  TypeInv'
  <2>1. PICK pc \in {"deliver", "store", "chat"}, id \in Nat :
            Begins(r, pc, m, id)
    <3>1. \A j \in ExistingReply(m) : j \in Nat
      BY <1>t DEF ExistingReply, Later, Rows
    <3> QED
      BY <1>1, <3>1 DEF Post
  <2>2. /\ req' \in [Requests -> ReqRow] /\ begun' \in 0 .. MaxBegun
        /\ req'[r].pc = pc /\ req'[r].key = m
        /\ \A s \in Requests \ {r} : req'[s] = req[s]
    BY <1>0, <1>k, <1>p, <2>1, BeginsReq
  <2>3. TypeOK'
    BY <1>1, <1>t, <2>2, TypesNext DEF Post
  <2>4. ReqInv'
    BY <1>1, <2>2, ReqInvKept DEF Post
  <2>5. ReplyInv'
    BY <1>1, ReplyInvKept DEF Post
  <2> QED
    BY <2>3, <2>4, <2>5 DEF TypeInv
<1>2. ASSUME NEW r \in Requests, NEW h \in Replies, SendHumanReply(r, h)
      PROVE  TypeInv'
  <2>1. /\ req' \in [Requests -> ReqRow] /\ begun' \in 0 .. MaxBegun
        /\ req'[r].pc = "attempt" /\ req'[r].key = h
        /\ \A s \in Requests \ {r} : req'[s] = req[s]
    BY <1>0, <1>2, <1>k, <1>p, BeginsReq DEF SendHumanReply
  <2>2. [status |-> "pending", id |-> Len(log) + 1]
           \in [status : Statuses, id : Nat]
    BY <1>t DEF Statuses
  <2>3. CASE Sources("human", h) # {}
    <3>1. UNCHANGED <<log, delivery>>
      BY <1>2, <2>3 DEF SendHumanReply
    <3>2. delivery[h] # NoRow
      BY <2>3 DEF Sources, Rows, TypeInv, ReplyInv
    <3>3. TypeOK'
      BY <1>2, <1>t, <2>1, <3>1, TypesNext DEF SendHumanReply
    <3>4. ReqInv'
      BY <1>k, <2>1, <3>1, <3>2, ReqInvKept
    <3>5. ReplyInv'
      BY <3>1, ReplyInvKept
    <3> QED
      BY <3>3, <3>4, <3>5 DEF TypeInv
  <2>4. CASE Sources("human", h) = {}
    <3>1. /\ log' = Append(log, Row("human", h, Nobody))
          /\ delivery' = [delivery EXCEPT ![h] =
                             [status |-> "pending", id |-> Len(log) + 1]]
      BY <1>2, <2>4 DEF SendHumanReply
    <3>2. Row("human", h, Nobody) \in LogRow
      BY <1>k DEF Row, LogRow
    <3>3. /\ log' \in Seq(LogRow) /\ DOMAIN log' = 1 .. Len(log) + 1
          /\ log'[Len(log) + 1] = Row("human", h, Nobody)
          /\ \A i \in 1 .. Len(log) : i \in DOMAIN log /\ log'[i] = log[i]
      BY <1>t, <3>1, <3>2
    <3>4. /\ delivery' \in [Keys -> [status : Statuses, id : Nat]
                                        \cup {NoRow}]
          /\ delivery'[h] # NoRow
          /\ \A k \in Keys : delivery[k] # NoRow => delivery'[k] # NoRow
      BY <1>t, <1>k, <2>2, <3>1, NoRowAssumption
    <3>5. TypeOK'
      BY <1>2, <1>t, <2>1, <3>3, <3>4, TypesNext DEF SendHumanReply
    <3>6. ReqInv'
      BY <1>k, <2>1, <3>4, ReqInvKept
    <3>7. \A i \in DOMAIN log' : log'[i].role = "human" =>
               \/ i \in DOMAIN log /\ log[i].role = "human"
                  /\ log'[i].of = log[i].of
               \/ log'[i].of \in Replies /\ delivery'[log'[i].of] # NoRow
      <4>1. ASSUME NEW i \in DOMAIN log' PROVE i \in 1 .. Len(log)
                                               \/ i = Len(log) + 1
        BY <1>t, <3>3
      <4> QED
        BY <3>3, <3>4, <4>1 DEF Row
    <3>8. ReplyInv'
      BY <3>4, <3>7, ReplyInvKept
    <3> QED
      BY <3>5, <3>6, <3>8 DEF TypeInv
  <2> QED
    BY <2>3, <2>4
<1>3. ASSUME NEW r \in Requests, NEW k \in Keys, RetryByAdmin(r, k)
      PROVE  TypeInv'
  <2>1. /\ req' \in [Requests -> ReqRow] /\ begun' \in 0 .. MaxBegun
        /\ req'[r].pc = "attempt" /\ req'[r].key = k
        /\ \A s \in Requests \ {r} : req'[s] = req[s]
    BY <1>0, <1>3, <1>p, BeginsReq DEF RetryByAdmin
  <2>2. TypeOK'
    BY <1>3, <1>t, <2>1, TypesNext DEF RetryByAdmin
  <2>3. ReqInv'
    BY <1>3, <2>1, ReqInvKept DEF RetryByAdmin
  <2>4. ReplyInv'
    BY <1>3, ReplyInvKept DEF RetryByAdmin
  <2> QED
    BY <2>2, <2>3, <2>4 DEF TypeInv
<1>4. ASSUME NEW r \in Requests, StoreForHuman(r)
      PROVE  TypeInv'
  <2>1. /\ req' \in [Requests -> ReqRow] /\ req'[r] = Idle
        /\ \A s \in Requests \ {r} : req'[s] = req[s]
    BY <1>0, <1>4, EndsReq DEF StoreForHuman
  <2>2. Row("user", req[r].key, Nobody) \in LogRow
    BY <1>k DEF Row, LogRow
  <2>3. /\ log' \in Seq(LogRow)
        /\ \A i \in DOMAIN log' : log'[i].role = "human" =>
              i \in DOMAIN log /\ log'[i] = log[i]
    <3>1. CASE Sources("user", req[r].key) = {}
      <4>1. log' = Append(log, Row("user", req[r].key, Nobody))
        BY <1>4, <3>1 DEF StoreForHuman
      <4> QED
        BY <1>t, <2>2, <4>1, AppendLog DEF Row
    <3>2. CASE Sources("user", req[r].key) # {}
      BY <1>4, <1>t, <3>2 DEF StoreForHuman
    <3> QED
      BY <3>1, <3>2
  <2>4. TypeOK'
    BY <1>4, <1>t, <2>1, <2>3, TypesNext DEF StoreForHuman, bounds
  <2>5. ReqInv'
    BY <1>4, <2>1, <1>0, ReqInvKept DEF StoreForHuman
  <2>6. ReplyInv'
    BY <1>4, <2>3, ReplyInvKept DEF StoreForHuman
  <2> QED
    BY <2>4, <2>5, <2>6 DEF TypeInv
<1>5. ASSUME NEW r \in Requests, BeginChat(r)
      PROVE  TypeInv'
  <2>1. /\ req' \in [Requests -> ReqRow]
        /\ req'[r].pc = "turn" /\ req'[r].key = req[r].key
        /\ \A s \in Requests \ {r} : req'[s] = req[s]
    BY <1>0, <1>5, <1>p, GoesReq DEF BeginChat
  <2>2. Row("user", req[r].key, r) \in LogRow /\ req[r].key \in Messages
    BY <1>k, <1>5 DEF Row, LogRow, BeginChat, TypeInv, ReqInv
  <2>3. /\ log' \in Seq(LogRow) /\ apart' \subseteq Messages
        /\ \A i \in DOMAIN log' : log'[i].role = "human" =>
              i \in DOMAIN log /\ log'[i] = log[i]
    <3>1. CASE Sources("user", req[r].key) = {}
      <4>1. log' = Append(log, Row("user", req[r].key, r)) /\ apart' = apart
        BY <1>5, <3>1 DEF BeginChat
      <4> QED
        BY <1>t, <2>2, <4>1, AppendLog DEF Row
    <3>2. CASE Sources("user", req[r].key) # {}
      BY <1>5, <1>t, <2>2, <3>2 DEF BeginChat
    <3> QED
      BY <3>1, <3>2
  <2>4. TypeOK'
    BY <1>5, <1>t, <2>1, <2>3, TypesNext DEF BeginChat, bounds
  <2>5. ReqInv'
    BY <1>5, <2>1, <2>2, ReqInvKept DEF BeginChat
  <2>6. ReplyInv'
    BY <1>5, <2>3, ReplyInvKept DEF BeginChat
  <2> QED
    BY <2>4, <2>5, <2>6 DEF TypeInv
<1>6. ASSUME NEW r \in Requests, ToolCommits(r)
      PROVE  TypeInv'
  <2>1. /\ log' \in Seq(LogRow)
        /\ \A i \in DOMAIN log' : log'[i].role = "human" =>
              /\ i \in DOMAIN log /\ log[i].role = "human"
              /\ log'[i].of = log[i].of
    <3>1. log' = Committed(log, r)
      BY <1>6 DEF ToolCommits
    <3>2. /\ log' \in Seq(LogRow)
          /\ DOMAIN log' = DOMAIN log /\ DOMAIN log = 1 .. Len(log)
      BY <1>t, <3>1, CommittedLog
    <3>3. \A i \in 1 .. Len(log) :
              log'[i].role = log[i].role /\ log'[i].of = log[i].of
      BY <1>t, <3>1, CommittedLog
    <3> QED
      BY <3>2, <3>3
  <2>2. apart' \subseteq Messages
    BY <1>6, <1>t DEF ToolCommits, TypeInv, ReqInv
  <2>3. TypeOK'
    BY <1>6, <1>t, <2>1, <2>2, TypesNext DEF ToolCommits, bounds
  <2>4. ReqInv'
    BY <1>6 DEF ToolCommits, TypeInv, ReqInv
  <2>5. ReplyInv'
    BY <1>6, <2>1, ReplyInvKept DEF ToolCommits
  <2> QED
    BY <2>3, <2>4, <2>5 DEF TypeInv
<1>7. ASSUME NEW r \in Requests, Undo(r)
      PROVE  /\ req' \in [Requests -> ReqRow] /\ req'[r] = Idle
             /\ \A s \in Requests \ {r} : req'[s] = req[s]
             /\ log' \in Seq(LogRow) /\ lock' \in Requests \cup {Nobody}
             /\ \A i \in DOMAIN log' : log'[i].role = "human" =>
                   i \in DOMAIN log /\ log'[i] = log[i]
  <2>1. log' = RolledBack(log, r) /\ lock' = Released(r) /\ Ends(r)
    BY <1>7 DEF Undo
  <2>2. /\ log' \in Seq(LogRow)
        /\ \A i \in DOMAIN log' : log'[i].role = "human" =>
              i \in DOMAIN log /\ log'[i] = log[i]
    <3>1. /\ log' \in Seq(LogRow)
          /\ DOMAIN log' = DOMAIN log /\ DOMAIN log = 1 .. Len(log)
      BY <1>t, <2>1, RolledBackLog
    <3>2. \A i \in 1 .. Len(log) :
              log'[i] = log[i] \/ log'[i] = Row("gone", Nobody, Nobody)
      BY <1>t, <2>1, RolledBackLog
    <3>3. Row("gone", Nobody, Nobody).role = "gone"
      BY DEF Row
    <3> QED
      BY <3>1, <3>2, <3>3
  <2> QED
    BY <1>0, <1>t, <2>1, <2>2, EndsReq DEF Released
<1>8. ASSUME NEW r \in Requests, ChatFails(r)
      PROVE  TypeInv'
  <2>1. TypeOK'
    BY <1>8, <1>7, <1>t, TypesNext DEF ChatFails, bounds
  <2>2. ReqInv'
    BY <1>8, <1>7, <1>0, ReqInvKept DEF ChatFails
  <2>3. ReplyInv'
    BY <1>8, <1>7, ReplyInvKept DEF ChatFails
  <2> QED
    BY <2>1, <2>2, <2>3 DEF TypeInv
<1>9. ASSUME NEW r \in Requests, Answer(r)
      PROVE  TypeInv'
  <2>1. /\ req' \in [Requests -> ReqRow]
        /\ req'[r].pc = "deliver" /\ req'[r].key = req[r].key
        /\ \A s \in Requests \ {r} : req'[s] = req[s]
    <3> DEFINE row == NewRequest("deliver", req[r].key, Len(log) + 1)
    <3>1. req' = [req EXCEPT ![r] = row]
      BY <1>9, <1>t DEF Answer
    <3>3. row \in ReqRow /\ row.pc = "deliver" /\ row.key = req[r].key
      BY <1>t, <1>p DEF ReqRow, NewRequest
    <3> HIDE DEF row
    <3> QED
      BY <1>t, <3>1, <3>3
  <2>2. req[r].key \in Messages
    BY <1>9 DEF Answer, TypeInv, ReqInv
  <2>3. Row("assistant", req[r].key, Nobody) \in LogRow
    BY <1>k DEF Row, LogRow
  <2>4. /\ log' \in Seq(LogRow)
        /\ \A i \in DOMAIN log' : log'[i].role = "human" =>
              /\ i \in DOMAIN log /\ log[i].role = "human"
              /\ log'[i].of = log[i].of
    <3> DEFINE done == Committed(log, r)
    <3>1. log' = Append(done, Row("assistant", req[r].key, Nobody))
      BY <1>9 DEF Answer
    <3>2. /\ done \in Seq(LogRow) /\ Len(done) = Len(log)
          /\ \A i \in 1 .. Len(log) :
                done[i].role = log[i].role /\ done[i].of = log[i].of
      BY <1>t, CommittedLog
    <3> HIDE DEF done
    <3>3. /\ log' \in Seq(LogRow) /\ DOMAIN log' = 1 .. Len(log) + 1
          /\ log'[Len(log) + 1] = Row("assistant", req[r].key, Nobody)
          /\ \A i \in 1 .. Len(log) : log'[i] = done[i]
      BY <2>3, <3>1, <3>2, AppendLog
    <3>4. \A i \in DOMAIN log' : i \in 1 .. Len(log) \/ i = Len(log) + 1
      BY <1>t, <3>3
    <3>5. Row("assistant", req[r].key, Nobody).role = "assistant"
      BY DEF Row
    <3>6. ASSUME NEW i \in DOMAIN log', log'[i].role = "human"
          PROVE  /\ i \in DOMAIN log /\ log[i].role = "human"
                 /\ log'[i].of = log[i].of
      <4>1. i \in 1 .. Len(log)
        BY <3>3, <3>4, <3>5, <3>6
      <4>2. i \in DOMAIN log
        BY <1>t, <4>1
      <4> QED
        BY <3>2, <3>3, <3>6, <4>1, <4>2
    <3> QED
      BY <3>3, <3>6
  <2>5. TypeOK'
    BY <1>9, <1>t, <2>1, <2>4, TypesNext DEF Answer, bounds
  <2>6. ReqInv'
    BY <1>9, <2>1, <2>2, ReqInvKept DEF Answer
  <2>7. ReplyInv'
    BY <1>9, <2>4, ReplyInvKept DEF Answer
  <2> QED
    BY <2>5, <2>6, <2>7 DEF TypeInv
<1>10. CASE TakeOver \/ ReturnAi
  <2>1. /\ UNCHANGED <<log, lock, req, delivery, flying, copies, verified,
                      apart, misjudged, outdated, begun, crashes>>
        /\ handoff' \in BOOLEAN /\ controls' \in 0 .. MaxControls
    <3>1. CASE TakeOver
      BY <3>1, <1>t DEF TakeOver
    <3>2. CASE ReturnAi
      BY <3>2, <1>t DEF ReturnAi, bounds
    <3> QED
      BY <1>10, <3>1, <3>2
  <2>2. TypeOK'
    BY <1>t, <2>1, TypesNext
  <2>3. ReqInv' /\ ReplyInv'
    BY <2>1 DEF TypeInv, ReqInv, ReplyInv
  <2> QED
    BY <2>2, <2>3 DEF TypeInv
<1>11. ASSUME NEW r \in Requests, EnsureLooks(r)
       PROVE  TypeInv'
  <2>1. /\ req' \in [Requests -> ReqRow]
        /\ \A s \in Requests \ {r} : req'[s] = req[s]
        /\ \/ req'[r] = Idle
           \/ /\ req'[r].pc = "insert" \/ /\ req'[r].pc = "attempt"
                                          /\ delivery[req[r].key] # NoRow
              /\ req'[r].key = req[r].key
    BY <1>11, <1>0, <1>p, GoesReq, EndsReq DEF EnsureLooks
  <2>2. req[r].key \in Messages
    BY <1>11 DEF EnsureLooks, TypeInv, ReqInv
  <2>3. TypeOK'
    BY <1>11, <1>t, <2>1, TypesNext DEF EnsureLooks, bounds
  <2>4. ReqInv'
    BY <1>11, <1>0, <1>k, <2>1, <2>2, ReqInvKept DEF EnsureLooks
  <2>5. ReplyInv'
    BY <1>11, ReplyInvKept DEF EnsureLooks
  <2> QED
    BY <2>3, <2>4, <2>5 DEF TypeInv
<1>12. ASSUME NEW r \in Requests, EnsureInserts(r)
       PROVE  TypeInv'
  <2>1. /\ req' \in [Requests -> ReqRow]
        /\ req'[r].pc = "attempt" /\ req'[r].key = req[r].key
        /\ \A s \in Requests \ {r} : req'[s] = req[s]
    BY <1>12, <1>0, <1>p, GoesReq DEF EnsureInserts
  <2>2. req[r].key \in Keys /\ req[r].id \in Nat
    BY <1>12, <1>k, <1>t DEF EnsureInserts, TypeInv, ReqInv, ReqRow
  <2>3. [status |-> "pending", id |-> req[r].id]
           \in [status : Statuses, id : Nat]
    BY <2>2 DEF Statuses
  <2>4. /\ delivery' \in [Keys -> [status : Statuses, id : Nat]
                                      \cup {NoRow}]
        /\ delivery'[req[r].key] # NoRow
        /\ \A k \in Keys : delivery[k] # NoRow => delivery'[k] # NoRow
    BY <1>12, <1>t, <2>2, <2>3, NoRowAssumption DEF EnsureInserts
  <2>5. TypeOK'
    BY <1>12, <1>t, <2>1, <2>4, TypesNext DEF EnsureInserts, bounds
  <2>6. ReqInv'
    BY <1>12, <2>1, <2>2, <2>4, ReqInvKept DEF EnsureInserts
  <2>7. ReplyInv'
    BY <1>12, <2>4, ReplyInvKept DEF EnsureInserts
  <2> QED
    BY <2>5, <2>6, <2>7 DEF TypeInv
<1>13. ASSUME NEW r \in Requests, AttemptBegins(r)
       PROVE  TypeInv'
  <2> DEFINE k == req[r].key
  <2>1. k \in Keys /\ delivery[k] # NoRow
    BY <1>13 DEF AttemptBegins, TypeInv, ReqInv
  <2>2. /\ Ends(r) \/ Goes(r, "begun")
        /\ \/ UNCHANGED delivery
           \/ \E status \in {"unknown", "failed", "sending"} :
                  SetStatus(k, status)
        /\ outdated' \subseteq Keys
    BY <1>13, <1>t, <2>1 DEF AttemptBegins, Store
  <2>3. /\ req' \in [Requests -> ReqRow]
        /\ \A s \in Requests \ {r} : req'[s] = req[s]
        /\ \/ req'[r] = Idle
           \/ req'[r].pc = "begun" /\ req'[r].key = k
    BY <1>0, <1>p, <2>2, GoesReq, EndsReq
  <2>4. /\ delivery' \in [Keys -> [status : Statuses, id : Nat]
                                      \cup {NoRow}]
        /\ \A j \in Keys : delivery[j] # NoRow => delivery'[j] # NoRow
    <3>1. {"unknown", "failed", "sending"} \subseteq Statuses
      BY DEF Statuses
    <3> QED
      BY <1>0, <1>t, <2>1, <2>2, <3>1, SetStatusRow
  <2>5. TypeOK'
    BY <1>13, <1>t, <2>2, <2>3, <2>4, TypesNext DEF AttemptBegins, bounds
  <2>6. ReqInv'
    BY <1>0, <2>1, <2>3, <2>4, ReqInvKept
  <2>7. ReplyInv'
    BY <1>13, <2>4, ReplyInvKept DEF AttemptBegins
  <2> QED
    BY <2>5, <2>6, <2>7 DEF TypeInv
<1>14. ASSUME NEW r \in Requests, Sends(r)
       PROVE  TypeInv'
  <2>1. req[r].key \in Keys /\ delivery[req[r].key] # NoRow
    BY <1>14 DEF Sends, TypeInv, ReqInv
  <2>2. /\ req' \in [Requests -> ReqRow]
        /\ req'[r].pc = "calling" /\ req'[r].key = req[r].key
        /\ \A s \in Requests \ {r} : req'[s] = req[s]
    BY <1>14, <1>t DEF Sends, ReqRow
  <2>3. copies' \in [Keys -> Nat]
    BY <1>14, <1>t, <2>1 DEF Sends
  <2>4. TypeOK'
    BY <1>14, <1>t, <2>2, <2>3, TypesNext DEF Sends, bounds
  <2>5. ReqInv'
    BY <1>14, <2>1, <2>2, ReqInvKept DEF Sends
  <2>6. ReplyInv'
    BY <1>14, ReplyInvKept DEF Sends
  <2> QED
    BY <2>4, <2>5, <2>6 DEF TypeInv
<1>15. ASSUME NEW k \in Keys, LateSends(k) \/ LateDrops(k)
       PROVE  TypeInv'
  <2>1. /\ flying' \in [Keys -> Nat] /\ copies' \in [Keys -> Nat]
        /\ UNCHANGED <<log, lock, handoff, req, delivery, verified, apart,
                      misjudged, outdated, bounds>>
    <3>1. CASE LateSends(k)
      BY <3>1, <1>t DEF LateSends
    <3>2. CASE LateDrops(k)
      BY <3>2, <1>t DEF LateDrops
    <3> QED
      BY <1>15, <3>1, <3>2
  <2>2. TypeOK'
    BY <1>t, <2>1, TypesNext DEF bounds
  <2>3. ReqInv' /\ ReplyInv'
    BY <2>1 DEF TypeInv, ReqInv, ReplyInv
  <2> QED
    BY <2>2, <2>3 DEF TypeInv
<1>16. ASSUME NEW r \in Requests, req[r].pc = "calling"
       PROVE  Abandoned(r) \in [Keys -> Nat]
  BY <1>t, <1>16 DEF Abandoned, TypeInv, ReqInv
<1>17. ASSUME NEW r \in Requests, AttemptEnds(r)
       PROVE  TypeInv'
  <2>1. req[r].pc = "calling" /\ Outcome(r) /\ Ends(r)
    BY <1>17 DEF AttemptEnds
  <2>2. req[r].key \in Keys /\ delivery[req[r].key] # NoRow
    BY <2>1 DEF TypeInv, ReqInv
  <2>3. \/ UNCHANGED delivery
        \/ \E status \in {"accepted", "failed", "unknown"} :
              SetStatus(req[r].key, status)
    BY <2>1 DEF Outcome, Store
  <2>4. /\ delivery' \in [Keys -> [status : Statuses, id : Nat]
                                      \cup {NoRow}]
        /\ \A j \in Keys : delivery[j] # NoRow => delivery'[j] # NoRow
    <3>1. {"accepted", "failed", "unknown"} \subseteq Statuses
      BY DEF Statuses
    <3> QED
      BY <1>0, <1>t, <2>2, <2>3, <3>1, SetStatusRow
  <2>5. flying' \in [Keys -> Nat] /\ verified' \in BOOLEAN
    BY <1>t, <1>16, <2>1 DEF Outcome
  <2>6. /\ req' \in [Requests -> ReqRow] /\ req'[r] = Idle
        /\ \A s \in Requests \ {r} : req'[s] = req[s]
    BY <1>0, <2>1, EndsReq
  <2>7. TypeOK'
    BY <1>17, <1>t, <2>4, <2>5, <2>6, TypesNext DEF AttemptEnds, bounds
  <2>8. ReqInv'
    BY <1>0, <2>4, <2>6, ReqInvKept
  <2>9. ReplyInv'
    BY <1>17, <2>4, ReplyInvKept DEF AttemptEnds
  <2> QED
    BY <2>7, <2>8, <2>9 DEF TypeInv
<1>18. ASSUME NEW m \in Messages, Confirm(m)
       PROVE  TypeInv'
  <2>1. TypeOK'
    BY <1>18, <1>t, TypesNext DEF Confirm, bounds
  <2>2. ReqInv' /\ ReplyInv'
    BY <1>18 DEF Confirm, TypeInv, ReqInv, ReplyInv
  <2> QED
    BY <2>1, <2>2 DEF TypeInv
<1>19. ASSUME NEW k \in Keys, Reconcile(k)
       PROVE  TypeInv'
  <2>1. /\ delivery[k] # NoRow
        /\ SetStatus(k, "accepted") \/ SetStatus(k, "failed")
        /\ verified' \in BOOLEAN /\ misjudged' \subseteq Keys
        /\ UNCHANGED <<log, lock, handoff, req, flying, copies, apart,
                      outdated, bounds>>
    BY <1>19, <1>t DEF Reconcile
  <2>2. /\ delivery' \in [Keys -> [status : Statuses, id : Nat]
                                      \cup {NoRow}]
        /\ \A j \in Keys : delivery[j] # NoRow => delivery'[j] # NoRow
    <3>1. "accepted" \in Statuses /\ "failed" \in Statuses
      BY DEF Statuses
    <3> QED
      BY <1>0, <1>t, <2>1, <3>1, SetStatusRow
  <2>3. TypeOK'
    BY <1>t, <2>1, <2>2, TypesNext DEF bounds
  <2>4. ReqInv'
    BY <2>1, <2>2 DEF TypeInv, ReqInv
  <2>5. ReplyInv'
    BY <2>1, <2>2, ReplyInvKept
  <2> QED
    BY <2>3, <2>4, <2>5 DEF TypeInv
<1>20. ASSUME NEW r \in Requests, Crash(r)
       PROVE  TypeInv'
  <2>1. Undo(r) /\ flying' \in [Keys -> Nat]
    BY <1>20, <1>16, <1>t DEF Crash, Abandoned
  <2>2. crashes' \in 0 .. MaxCrashes
    BY <1>20, <1>t DEF Crash
  <2>3. TypeOK'
    BY <1>20, <1>7, <1>t, <2>1, <2>2, TypesNext DEF Crash
  <2>4. ReqInv'
    BY <1>20, <1>7, <1>0, <2>1, ReqInvKept DEF Crash
  <2>5. ReplyInv'
    BY <1>20, <1>7, <2>1, ReplyInvKept DEF Crash
  <2> QED
    BY <2>3, <2>4, <2>5 DEF TypeInv
<1>21. ASSUME NEW r \in Requests, LoadRow(r)
       PROVE  TypeInv'
  <2>1. req[r].key \in Keys /\ delivery[req[r].key] # NoRow
    BY <1>21 DEF LoadRow, TypeInv, ReqInv
  <2>2. /\ req' \in [Requests -> ReqRow]
        /\ req'[r].pc \in {"loaded", "calling"} /\ req'[r].key = req[r].key
        /\ \A s \in Requests \ {r} : req'[s] = req[s]
    BY <1>21, <1>0, <1>p, <2>1, LoadReq DEF LoadRow
  <2>3. TypeOK'
    BY <1>21, <1>t, <2>2, TypesNext DEF LoadRow, bounds
  <2>4. ReqInv'
    BY <1>21, <2>1, <2>2, ReqInvKept DEF LoadRow
  <2>5. ReplyInv'
    BY <1>21, ReplyInvKept DEF LoadRow
  <2> QED
    BY <2>3, <2>4, <2>5 DEF TypeInv
<1>22. CASE UNCHANGED vars
  <2>1. TypeOK'
    BY <1>22, <1>t, TypesNext DEF vars, bounds
  <2>2. ReqInv' /\ ReplyInv'
    BY <1>22 DEF vars, TypeInv, ReqInv, ReplyInv
  <2> QED
    BY <2>1, <2>2 DEF TypeInv
<1> QED
  BY <1>1, <1>2, <1>3, <1>4, <1>5, <1>6, <1>8, <1>9, <1>10, <1>11, <1>12,
     <1>13, <1>14, <1>15, <1>17, <1>18, <1>19, <1>20, <1>21, <1>22 DEF Next

\* The log, the requests and the delivery rows keep their types through every
\* endpoint, late calls and crashes included.
THEOREM TurnsAreTyped == Spec => []TypeOK
<1>1. TypeInv => TypeOK
  BY DEF TypeInv
<1> QED
  BY TypeInit, TypeStep, <1>1, PTL DEF Spec

-----------------------------------------------------------------------------
(* What is delivered is the answer.                                        *)

\* Row i is the stored answer to m, or to a message that was stored apart
\* from its answer.
Answers(m, i) ==
    /\ i \in Rows
    /\ log[i].role = "assistant"
    /\ log[i].of \in {m} \cup apart

\* A turn whose message is not stored for good has the conversation's lock
\* and has its message at the end of the log.
TurnHolds ==
    \A r \in Requests :
        req[r].pc = "turn" /\ req[r].key \notin apart =>
            /\ lock = r
            /\ Len(log) > 0
            /\ log[Len(log)] = Row("user", req[r].key, r)

\* An answer is stored when it is added, right behind its message unless that
\* was stored before.
Adjacent ==
    \A j \in DOMAIN log : log[j].role = "assistant" =>
        /\ log[j].by = Nobody
        /\ log[j].of \notin apart =>
              /\ j - 1 \in Rows
              /\ log[j - 1].role = "user"
              /\ log[j - 1].of = log[j].of

\* What a request is about to deliver is an answer to its message.
Chosen ==
    \A r \in Requests :
        req[r].pc \in {"deliver", "insert"} => Answers(req[r].key, req[r].id)

AnswerInv == TypeInv /\ TurnHolds /\ Adjacent /\ Chosen /\ OwnAnswer

\* The committed rows stay as they are.
Kept == \A i \in Rows : i \in Rows' /\ log'[i] = log[i]

LEMMA CommitKeeps ==
    ASSUME TypeInv, NEW r \in Requests, log' = Committed(log, r)
    PROVE  Kept
<1>1. log \in Seq(LogRow)
  BY Types DEF TypeInv
<1>2. DOMAIN log' = DOMAIN log /\ DOMAIN log = 1 .. Len(log)
  BY <1>1, CommittedLog
<1>3. \A i \in Rows : log'[i] = log[i]
  BY <1>1, <1>2, CommittedLog DEF Rows
<1> QED
  BY <1>2, <1>3 DEF Kept, Rows

LEMMA RollbackKeeps ==
    ASSUME TypeInv, NEW r \in Requests, log' = RolledBack(log, r)
    PROVE  Kept
<1>1. log \in Seq(LogRow) /\ Nobody # r
  BY Types, GatewayAssumption DEF TypeInv
<1>2. DOMAIN log' = DOMAIN log /\ DOMAIN log = 1 .. Len(log)
  BY <1>1, RolledBackLog
<1>3. \A i \in Rows : log'[i] = log[i]
  BY <1>1, <1>2, RolledBackLog DEF Rows
<1> QED
  BY <1>2, <1>3 DEF Kept, Rows

LEMMA AppendKeeps ==
    ASSUME TypeInv, NEW e \in LogRow, log' = Append(log, e)
    PROVE  Kept
<1>1. log \in Seq(LogRow)
  BY Types DEF TypeInv
<1>2. /\ DOMAIN log' = 1 .. Len(log) + 1 /\ DOMAIN log = 1 .. Len(log)
      /\ \A i \in 1 .. Len(log) : log'[i] = log[i] /\ i \in 1 .. Len(log) + 1
  BY <1>1, AppendLog
<1> QED
  BY <1>2 DEF Kept, Rows

\* Once an answer, always one.
LEMMA AnswersKept ==
    ASSUME Kept, apart \subseteq apart', NEW m, NEW i, Answers(m, i)
    PROVE  Answers(m, i)'
  BY DEF Kept, Answers

\* So what is delivered under a key stays right, whatever is added.
LEMMA OwnAnswerKept ==
    ASSUME OwnAnswer, Kept, apart \subseteq apart',
           \A k \in Keys : delivery'[k] # NoRow =>
               \/ delivery[k] # NoRow /\ delivery'[k].id = delivery[k].id
               \/ /\ k \in Messages
                  /\ \E i : i = delivery'[k].id /\ Answers(k, i)'
               \/ /\ k \notin Messages /\ delivery'[k].id \in Rows'
                  /\ log'[delivery'[k].id].role = "human"
                  /\ log'[delivery'[k].id].of = k
    PROVE  OwnAnswer'
<1> SUFFICES ASSUME NEW k \in Keys, delivery'[k] # NoRow
             PROVE  /\ delivery'[k].id \in Rows'
                    /\ LET row == log'[delivery'[k].id] IN
                       IF k \in Messages
                       THEN /\ row.role = "assistant"
                            /\ row.of \in {k} \cup apart'
                       ELSE row.role = "human" /\ row.of = k
  BY DEF OwnAnswer
<1>1. CASE delivery[k] # NoRow /\ delivery'[k].id = delivery[k].id
  <2>1. /\ delivery[k].id \in Rows
        /\ LET row == log[delivery[k].id] IN
           IF k \in Messages
           THEN row.role = "assistant" /\ row.of \in {k} \cup apart
           ELSE row.role = "human" /\ row.of = k
    BY <1>1 DEF OwnAnswer
  <2>2. /\ delivery'[k].id \in Rows'
        /\ log'[delivery'[k].id] = log[delivery[k].id]
    BY <1>1, <2>1 DEF Kept
  <2> QED
    BY <2>1, <2>2
<1>2. CASE k \in Messages /\ \E i : i = delivery'[k].id /\ Answers(k, i)'
  BY <1>2 DEF Answers
<1> QED
  BY <1>1, <1>2

\* The next row, if it is an answer, answers the message.
LEMMA ExistingReplyAnswers ==
    ASSUME TypeInv, Adjacent, NEW m \in Messages, NEW j \in ExistingReply(m)
    PROVE  Answers(m, j)
<1>1. PICK i \in Sources("user", m) :
         /\ j \in Later(i) /\ log[j].role = "assistant"
         /\ \A l \in Later(i) : j <= l
  BY DEF ExistingReply
<1>2. /\ j \in Rows /\ i \in Rows /\ i \in Nat /\ j \in Nat /\ j > i
      /\ log[i].of = m
  BY <1>1, Types DEF Sources, Later, Rows, TypeInv
<1>3. ASSUME log[j].of \notin apart
      PROVE  log[j].of = m
  <2>1. j - 1 \in Rows /\ log[j - 1].of = log[j].of
    BY <1>1, <1>2, <1>3 DEF Adjacent, Rows
  <2>2. ~(j - 1 > i)
    BY <1>1, <1>2, <2>1 DEF Later
  <2> QED
    BY <1>2, <2>1, <2>2
<1> QED
  BY <1>1, <1>2, <1>3 DEF Answers

\* A step that adds nothing to the log.
LEMMA QuietStep ==
    ASSUME AnswerInv, TypeInv', UNCHANGED <<log, lock, apart>>,
           \A s \in Requests : req'[s].pc = "turn" =>
               req[s].pc = "turn" /\ req'[s].key = req[s].key,
           \A s \in Requests : req'[s].pc \in {"deliver", "insert"} =>
               Answers(req'[s].key, req'[s].id),
           \A k \in Keys : delivery'[k] # NoRow =>
               \/ delivery[k] # NoRow /\ delivery'[k].id = delivery[k].id
               \/ k \in Messages /\ Answers(k, delivery'[k].id)
    PROVE  AnswerInv'
<1>1. /\ TurnHolds' /\ Adjacent' /\ Kept
      /\ \A m, i : Answers(m, i) => Answers(m, i)'
  <2>1. TurnHolds'
    BY DEF AnswerInv, TurnHolds
  <2>2. Rows' = Rows
    BY DEF Rows
  <2>3. Adjacent'
    BY <2>2 DEF AnswerInv, Adjacent
  <2> QED
    BY <2>1, <2>2, <2>3 DEF Kept, Answers
<1>2. Chosen'
  BY <1>1 DEF Chosen
<1>3. \A k \in Keys : delivery'[k] # NoRow =>
          \/ delivery[k] # NoRow /\ delivery'[k].id = delivery[k].id
          \/ k \in Messages /\ \E i : i = delivery'[k].id /\ Answers(k, i)'
  BY <1>1
<1>4. OwnAnswer'
  BY <1>1, <1>3, OwnAnswerKept DEF AnswerInv
<1> QED
  BY <1>1, <1>2, <1>4 DEF AnswerInv

LEMMA AnswerInit == Init => AnswerInv
  BY TypeInit DEF Init, AnswerInv, TurnHolds, Adjacent, Chosen, OwnAnswer,
                  Idle, NewRequest

LEMMA AnswerStep == AnswerInv /\ [Next]_vars => AnswerInv'
<1> SUFFICES ASSUME AnswerInv, [Next]_vars
             PROVE  AnswerInv'
  OBVIOUS
<1> USE GatewayAssumption
<1>0. /\ TypeInv /\ TypeOK /\ TypeInv'
      /\ TurnHolds /\ Adjacent /\ Chosen /\ OwnAnswer
  BY TypeStep DEF AnswerInv, TypeInv
<1>t. /\ log \in Seq(LogRow) /\ req \in [Requests -> ReqRow]
      /\ DOMAIN log = 1 .. Len(log) /\ Len(log) \in Nat
      /\ lock \in Requests \cup {Nobody}
      /\ delivery \in [Keys -> [status : Statuses, id : Nat] \cup {NoRow}]
      /\ \A r \in Requests : req[r].key \in Keys \cup {Nobody}
  BY <1>0, Types DEF ReqRow
<1>i. Idle.pc = "idle"
  BY DEF Idle, NewRequest
<1>n. \A pc, k, id : /\ NewRequest(pc, k, id).pc = pc
                     /\ NewRequest(pc, k, id).key = k
                     /\ NewRequest(pc, k, id).id = id
  BY DEF NewRequest
<1>f. ASSUME lock = Nobody, NEW s \in Requests, req[s].pc = "turn"
      PROVE  req[s].key \in apart
  BY <1>0, <1>f DEF TurnHolds
<1>q. \A s \in Requests : req[s].pc \in {"deliver", "insert"} =>
          Answers(req[s].key, req[s].id)
  BY <1>0 DEF Chosen
<1>1. ASSUME NEW r \in Requests, NEW m \in Messages, Post(r, m)
      PROVE  AnswerInv'
  <2>1. PICK pc \in {"deliver", "store", "chat"},
               id \in ExistingReply(m) \cup {0} :
            /\ Begins(r, pc, m, id)
            /\ pc = "deliver" => id \in ExistingReply(m)
    BY <1>1 DEF Post
  <2>2. req' = [req EXCEPT ![r] = NewRequest(pc, m, id)]
    BY <2>1 DEF Begins
  <2>3. pc = "deliver" => Answers(m, id)
    BY <1>0, <2>1, ExistingReplyAnswers
  <2>4. UNCHANGED <<log, lock, apart, delivery>>
    BY <1>1 DEF Post
  <2> QED
    BY <1>0, <1>n, <1>t, <1>q, <2>2, <2>3, <2>4, QuietStep
<1>2. ASSUME NEW r \in Requests, NEW h \in Replies, SendHumanReply(r, h)
      PROVE  AnswerInv'
  <2>1. /\ lock = Nobody /\ UNCHANGED <<lock, apart>>
        /\ req' = [req EXCEPT ![r] = NewRequest("attempt", h, 0)]
    BY <1>2 DEF SendHumanReply, Begins
  <2>2. CASE UNCHANGED <<log, delivery>>
    BY <1>0, <1>n, <1>t, <1>q, <2>1, <2>2, QuietStep
  <2>3. CASE /\ log' = Append(log, Row("human", h, Nobody))
             /\ delivery' = [delivery EXCEPT ![h] =
                               [status |-> "pending", id |-> Len(log) + 1]]
    <3> DEFINE row == Row("human", h, Nobody)
    <3>1. row \in LogRow /\ row.role = "human" /\ row.of = h
          /\ row.by = Nobody
      BY DEF Row, LogRow, Keys
    <3>2. /\ DOMAIN log' = 1 .. Len(log) + 1 /\ log'[Len(log) + 1] = row
          /\ \A i \in 1 .. Len(log) : log'[i] = log[i]
      BY <1>t, <2>3, <3>1, AppendLog
    <3>3. Kept
      BY <1>0, <2>3, <3>1, AppendKeeps
    <3> HIDE DEF row
    <3>4. TurnHolds'
      BY <1>f, <1>n, <1>t, <2>1 DEF TurnHolds
    <3>5. Adjacent'
      <4>1. \A j \in DOMAIN log' : log'[j].role = "assistant" =>
                j \in DOMAIN log /\ log'[j] = log[j]
        BY <1>t, <3>1, <3>2
      <4> QED
        BY <1>0, <2>1, <3>3, <4>1 DEF Adjacent, Kept
    <3>6. Chosen'
      BY <1>n, <1>t, <1>q, <2>1, <3>3, AnswersKept DEF Chosen
    <3>7. Len(log) + 1 \in Rows'
      BY <1>t, <3>1, <3>2 DEF Rows
    <3>8. h \in Keys /\ h \notin Messages
      BY DEF Keys
    <3>9. OwnAnswer'
      <4>1. \A k \in Keys \ {h} : delivery'[k] = delivery[k]
        BY <1>t, <2>3
      <4>2. delivery'[h].id = Len(log) + 1
        BY <1>t, <2>3, <3>8
      <4>3. \A k \in Keys : delivery'[k] # NoRow =>
               \/ delivery[k] # NoRow /\ delivery'[k].id = delivery[k].id
               \/ /\ k \notin Messages /\ delivery'[k].id \in Rows'
                  /\ log'[delivery'[k].id].role = "human"
                  /\ log'[delivery'[k].id].of = k
        BY <3>1, <3>2, <3>7, <3>8, <4>1, <4>2
      <4> QED
        BY <1>0, <2>1, <3>3, <4>3, OwnAnswerKept
    <3> QED
      BY <1>0, <3>4, <3>5, <3>6, <3>9 DEF AnswerInv
  <2> QED
    BY <1>2, <2>2, <2>3 DEF SendHumanReply
<1>3. ASSUME NEW r \in Requests, NEW k \in Keys, RetryByAdmin(r, k)
      PROVE  AnswerInv'
  <2>1. /\ UNCHANGED <<log, lock, apart, delivery>>
        /\ req' = [req EXCEPT ![r] = NewRequest("attempt", k, 0)]
    BY <1>3 DEF RetryByAdmin, Begins
  <2> QED
    BY <1>0, <1>n, <1>t, <1>q, <2>1, QuietStep
<1>4. ASSUME NEW r \in Requests, StoreForHuman(r)
      PROVE  AnswerInv'
  <2>1. /\ lock = Nobody /\ UNCHANGED <<lock, apart, delivery>>
        /\ req' = [req EXCEPT ![r] = Idle]
    BY <1>4 DEF StoreForHuman, Ends
  <2>2. CASE UNCHANGED log
    BY <1>0, <1>t, <1>q, <1>i, <2>1, <2>2, QuietStep
  <2>3. CASE log' = Append(log, Row("user", req[r].key, Nobody))
    <3> DEFINE row == Row("user", req[r].key, Nobody)
    <3>1. row \in LogRow /\ row.role = "user"
      BY <1>t DEF Row, LogRow
    <3>2. /\ DOMAIN log' = 1 .. Len(log) + 1 /\ log'[Len(log) + 1] = row
          /\ \A i \in 1 .. Len(log) : log'[i] = log[i]
      BY <1>t, <2>3, <3>1, AppendLog
    <3>3. Kept
      BY <1>0, <2>3, <3>1, AppendKeeps
    <3> HIDE DEF row
    <3>4. TurnHolds'
      BY <1>f, <1>t, <1>i, <2>1 DEF TurnHolds
    <3>5. Adjacent'
      <4>1. \A j \in DOMAIN log' : log'[j].role = "assistant" =>
                j \in DOMAIN log /\ log'[j] = log[j]
        BY <1>t, <3>1, <3>2
      <4> QED
        BY <1>0, <2>1, <3>3, <4>1 DEF Adjacent, Kept
    <3>6. Chosen'
      BY <1>t, <1>q, <1>i, <2>1, <3>3, AnswersKept DEF Chosen
    <3>7. OwnAnswer'
      BY <1>0, <2>1, <3>3, OwnAnswerKept
    <3> QED
      BY <1>0, <3>4, <3>5, <3>6, <3>7 DEF AnswerInv
  <2> QED
    BY <1>4, <2>2, <2>3 DEF StoreForHuman
<1>5. ASSUME NEW r \in Requests, BeginChat(r)
      PROVE  AnswerInv'
  <2>1. /\ lock = Nobody /\ lock' = r /\ UNCHANGED delivery
        /\ req[r].pc = "chat" /\ req' = [req EXCEPT ![r].pc = "turn"]
    BY <1>5 DEF BeginChat, Goes
  <2>2. /\ req'[r].pc = "turn" /\ req'[r].key = req[r].key
        /\ \A s \in Requests \ {r} : req'[s] = req[s]
    BY <1>t, <2>1 DEF ReqRow
  <2>3. CASE UNCHANGED log /\ apart' = apart \cup {req[r].key}
    <3>1. Kept /\ Rows' = Rows
      BY <2>3 DEF Kept, Rows
    <3>2. TurnHolds'
      BY <1>f, <2>1, <2>2, <2>3 DEF TurnHolds
    <3>3. Adjacent'
      BY <1>0, <2>3, <3>1 DEF Adjacent
    <3>4. Chosen'
      BY <1>q, <2>2, <2>3, <3>1, AnswersKept DEF Chosen
    <3>5. OwnAnswer'
      BY <1>0, <2>1, <2>3, <3>1, OwnAnswerKept
    <3> QED
      BY <1>0, <3>2, <3>3, <3>4, <3>5 DEF AnswerInv
  <2>4. CASE /\ log' = Append(log, Row("user", req[r].key, r))
             /\ UNCHANGED apart
    <3> DEFINE row == Row("user", req[r].key, r)
    <3>1. row \in LogRow /\ row.role = "user"
      BY <1>t DEF Row, LogRow
    <3>2. /\ DOMAIN log' = 1 .. Len(log) + 1 /\ log'[Len(log) + 1] = row
          /\ \A i \in 1 .. Len(log) : log'[i] = log[i]
          /\ Len(log') = Len(log) + 1
      BY <1>t, <2>4, <3>1, AppendLog
    <3>3. Kept
      BY <1>0, <2>4, <3>1, AppendKeeps
    <3>4. TurnHolds'
      BY <1>f, <1>t, <2>1, <2>2, <2>4, <3>2 DEF TurnHolds
    <3> HIDE DEF row
    <3>5. Adjacent'
      <4>1. \A j \in DOMAIN log' : log'[j].role = "assistant" =>
                j \in DOMAIN log /\ log'[j] = log[j]
        BY <1>t, <3>1, <3>2
      <4> QED
        BY <1>0, <2>4, <3>3, <4>1 DEF Adjacent, Kept
    <3>6. Chosen'
      BY <1>q, <2>2, <2>4, <3>3, AnswersKept DEF Chosen
    <3>7. OwnAnswer'
      BY <1>0, <2>1, <2>4, <3>3, OwnAnswerKept
    <3> QED
      BY <1>0, <3>4, <3>5, <3>6, <3>7 DEF AnswerInv
  <2> QED
    BY <1>5, <2>3, <2>4 DEF BeginChat
<1>6. ASSUME NEW r \in Requests, ToolCommits(r)
      PROVE  AnswerInv'
  <2>1. /\ lock = r /\ log' = Committed(log, r) /\ lock' = Nobody
        /\ apart' = apart \cup {req[r].key}
        /\ UNCHANGED <<req, delivery>>
    BY <1>6 DEF ToolCommits
  <2>2. Kept
    BY <1>0, <2>1, CommitKeeps
  <2>3. TurnHolds'
    BY <1>0, <2>1 DEF TurnHolds
  <2>4. Adjacent'
    <3>1. \A j \in DOMAIN log' : j \in DOMAIN log
                                  /\ log'[j].role = log[j].role
      BY <1>t, <2>1, CommittedLog
    <3>2. ASSUME NEW j \in DOMAIN log', log'[j].role = "assistant"
          PROVE  /\ log'[j].by = Nobody
                 /\ log'[j].of \notin apart' =>
                       /\ j - 1 \in Rows'
                       /\ log'[j - 1].role = "user"
                       /\ log'[j - 1].of = log'[j].of
      <4>1. j \in DOMAIN log /\ log[j].role = "assistant"
        BY <3>1, <3>2
      <4>2. j \in Rows
        BY <1>0, <4>1 DEF Adjacent, Rows
      <4>3. log'[j] = log[j]
        BY <2>2, <4>2 DEF Kept
      <4> QED
        BY <1>0, <2>1, <2>2, <4>1, <4>3 DEF Adjacent, Kept
    <3> QED
      BY <3>2 DEF Adjacent
  <2>5. Chosen'
    BY <1>q, <2>1, <2>2, AnswersKept DEF Chosen
  <2>6. OwnAnswer'
    BY <1>0, <2>1, <2>2, OwnAnswerKept
  <2> QED
    BY <1>0, <2>3, <2>4, <2>5, <2>6 DEF AnswerInv
<1>7. ASSUME NEW r \in Requests, Undo(r), UNCHANGED <<apart, delivery>>
      PROVE  AnswerInv'
  <2>1. /\ log' = RolledBack(log, r)
        /\ lock' = Released(r) /\ req' = [req EXCEPT ![r] = Idle]
    BY <1>7 DEF Undo, Ends
  <2>2. Kept
    BY <1>0, <2>1, RollbackKeeps
  <2>3. /\ DOMAIN log' = DOMAIN log /\ Len(log') = Len(log)
        /\ \A i \in DOMAIN log :
              /\ log[i].by # r => log'[i] = log[i]
              /\ log[i].by = r => log'[i].role = "gone"
    BY <1>t, <2>1, RolledBackLog DEF Row
  <2>4. TurnHolds'
    <3> SUFFICES ASSUME NEW s \in Requests, req'[s].pc = "turn",
                        req'[s].key \notin apart'
                 PROVE  /\ lock' = s /\ Len(log') > 0
                        /\ log'[Len(log')] = Row("user", req'[s].key, s)
      BY DEF TurnHolds
    <3>1. s # r /\ req'[s] = req[s]
      BY <1>t, <1>i, <2>1
    <3>2. /\ lock = s /\ Len(log) > 0
          /\ log[Len(log)] = Row("user", req[s].key, s)
      BY <1>0, <1>7, <3>1 DEF TurnHolds
    <3> QED
      BY <1>t, <2>1, <2>3, <3>1, <3>2 DEF Released, Row
  <2>5. Adjacent'
    <3>1. ASSUME NEW j \in DOMAIN log', log'[j].role = "assistant"
          PROVE  j \in DOMAIN log /\ log'[j] = log[j]
      BY <2>3, <3>1
    <3> QED
      BY <1>0, <1>7, <2>2, <3>1 DEF Adjacent, Kept
  <2>6. Chosen'
    BY <1>t, <1>q, <1>i, <1>7, <2>1, <2>2, AnswersKept DEF Chosen
  <2>7. OwnAnswer'
    BY <1>0, <1>7, <2>2, OwnAnswerKept
  <2> QED
    BY <1>0, <2>4, <2>5, <2>6, <2>7 DEF AnswerInv
<1>8. ASSUME NEW r \in Requests, ChatFails(r) \/ Crash(r)
      PROVE  AnswerInv'
  BY <1>7, <1>8 DEF ChatFails, Crash
<1>9. ASSUME NEW r \in Requests, Answer(r)
      PROVE  AnswerInv'
  <2> DEFINE done == Committed(log, r)
             row  == Row("assistant", req[r].key, Nobody)
             new  == Len(log) + 1
  <2>1. /\ req[r].pc = "turn" /\ lock \in {r, Nobody}
        /\ log' = Append(done, row)
        /\ lock' = Nobody /\ UNCHANGED <<apart, delivery>>
    BY <1>9 DEF Answer, Free
  <2>2. /\ req'[r].pc = "deliver" /\ req'[r].key = req[r].key
        /\ req'[r].id = new /\ \A s \in Requests \ {r} : req'[s] = req[s]
    BY <1>9, <1>n, <1>t DEF Answer
  <2>3. /\ done \in Seq(LogRow) /\ Len(done) = Len(log)
        /\ \A i \in 1 .. Len(log) :
              /\ done[i].role = log[i].role /\ done[i].of = log[i].of
              /\ done[i].by = IF log[i].by = r THEN Nobody ELSE log[i].by
              /\ log[i].by = Nobody => done[i] = log[i]
    BY <1>t, CommittedLog
  <2>4. /\ row \in LogRow /\ row.role = "assistant"
        /\ row.of = req[r].key /\ row.by = Nobody
    BY <1>t DEF Row, LogRow
  <2> HIDE DEF done, row
  <2>5. /\ DOMAIN log' = 1 .. new /\ log'[new] = row
        /\ \A i \in 1 .. Len(log) : log'[i] = done[i]
    BY <2>1, <2>3, <2>4, AppendLog
  <2>6. Kept
    BY <1>t, <2>3, <2>5 DEF Kept, Rows
  <2>7. TurnHolds'
    <3>1. \A s \in Requests \ {r} : req[s].pc = "turn" =>
              req[s].key \in apart
      BY <1>0, <2>1 DEF TurnHolds
    <3> QED
      BY <2>1, <2>2, <3>1 DEF TurnHolds
  <2>8. Adjacent'
    <3> SUFFICES ASSUME NEW j \in DOMAIN log', log'[j].role = "assistant"
                 PROVE  /\ log'[j].by = Nobody
                        /\ log'[j].of \notin apart' =>
                              /\ j - 1 \in Rows'
                              /\ log'[j - 1].role = "user"
                              /\ log'[j - 1].of = log'[j].of
      BY DEF Adjacent
    <3>1. CASE j \in 1 .. Len(log)
      <4>1. j \in DOMAIN log /\ log[j].role = "assistant"
        BY <1>t, <2>3, <2>5, <3>1
      <4>2. j \in Rows
        BY <1>0, <4>1 DEF Adjacent, Rows
      <4>3. log'[j] = log[j]
        BY <2>6, <4>2 DEF Kept
      <4> QED
        BY <1>0, <2>1, <2>6, <4>1, <4>3 DEF Adjacent, Kept
    <3>2. CASE j = new /\ req[r].key \notin apart
      <4>1. Len(log) > 0 /\ log[Len(log)] = Row("user", req[r].key, r)
        BY <1>0, <2>1, <3>2 DEF TurnHolds
      <4>2. /\ Len(log) \in DOMAIN log' /\ log'[Len(log)].role = "user"
            /\ log'[Len(log)].of = req[r].key
            /\ log'[Len(log)].by = Nobody
        BY <1>t, <2>3, <2>5, <4>1 DEF Row
      <4>3. Len(log) \in Rows' /\ j - 1 = Len(log)
        BY <1>t, <3>2, <4>2 DEF Rows
      <4> QED
        BY <2>4, <2>5, <3>2, <4>2, <4>3
    <3>3. CASE j = new /\ req[r].key \in apart
      BY <2>1, <2>4, <2>5, <3>3
    <3> QED
      BY <1>t, <2>5, <3>1, <3>2, <3>3
  <2>9. Chosen'
    <3>1. new \in Rows'
      BY <1>t, <2>4, <2>5 DEF Rows
    <3>2. Answers(req[r].key, req[r].id)'
      BY <2>2, <2>4, <2>5, <3>1 DEF Answers
    <3>3. ASSUME NEW s \in Requests \ {r}, req'[s].pc \in {"deliver", "insert"}
          PROVE  Answers(req[s].key, req[s].id)'
      <4>1. Answers(req[s].key, req[s].id) /\ req'[s] = req[s]
        BY <1>q, <2>2, <3>3
      <4>2. \A m, i : Answers(m, i) => Answers(m, i)'
        BY <2>1, <2>6, AnswersKept
      <4> QED
        BY <4>1, <4>2
    <3> QED
      BY <3>2, <3>3 DEF Chosen
  <2>10. OwnAnswer'
    BY <1>0, <2>1, <2>6, OwnAnswerKept
  <2> QED
    BY <1>0, <2>7, <2>8, <2>9, <2>10 DEF AnswerInv
<1>10. CASE TakeOver \/ ReturnAi
  <2>1. UNCHANGED <<log, lock, apart, req, delivery>>
    BY <1>10 DEF TakeOver, ReturnAi
  <2> QED
    BY <1>0, <1>q, <2>1, QuietStep
<1>11. ASSUME NEW r \in Requests, EnsureLooks(r)
       PROVE  AnswerInv'
  <2>1. /\ UNCHANGED <<log, lock, apart, delivery>>
        /\ req[r].pc = "deliver"
        /\ Goes(r, "insert") \/ Goes(r, "attempt") \/ Ends(r)
    BY <1>11 DEF EnsureLooks
  <2>2. /\ \A s \in Requests \ {r} : req'[s] = req[s]
        /\ req'[r].pc \in {"insert", "attempt", "idle"}
        /\ req'[r].pc = "insert" =>
              req'[r].key = req[r].key /\ req'[r].id = req[r].id
    BY <1>t, <1>i, <2>1 DEF Goes, Ends, ReqRow
  <2>3. \A s \in Requests : req'[s].pc \in {"deliver", "insert"} =>
            Answers(req'[s].key, req'[s].id)
    BY <1>q, <2>1, <2>2
  <2> QED
    BY <1>0, <2>1, <2>2, <2>3, QuietStep
<1>12. ASSUME NEW r \in Requests, EnsureInserts(r)
       PROVE  AnswerInv'
  <2> DEFINE m == req[r].key
  <2>1. /\ UNCHANGED <<log, lock, apart>>
        /\ req[r].pc = "insert" /\ Goes(r, "attempt")
        /\ delivery' = [delivery EXCEPT ![m] =
               IF @ = NoRow THEN [status |-> "pending", id |-> req[r].id]
               ELSE @]
    BY <1>12 DEF EnsureInserts
  <2>2. /\ \A s \in Requests \ {r} : req'[s] = req[s]
        /\ req'[r].pc = "attempt"
    BY <1>t, <2>1 DEF Goes, ReqRow
  <2>3. m \in Messages /\ Answers(m, req[r].id)
    BY <1>0, <1>q, <2>1 DEF TypeInv, ReqInv
  <2>4. \A k \in Keys : delivery'[k] # NoRow =>
            \/ delivery[k] # NoRow /\ delivery'[k].id = delivery[k].id
            \/ k \in Messages /\ Answers(k, delivery'[k].id)
    <3>1. \A k \in Keys \ {m} : delivery'[k] = delivery[k]
      BY <1>t, <2>1
    <3>2. \/ delivery[m] # NoRow /\ delivery'[m] = delivery[m]
          \/ delivery'[m].id = req[r].id
      BY <1>t, <2>1, <2>3 DEF Keys
    <3> QED
      BY <2>3, <3>1, <3>2
  <2> QED
    BY <1>0, <1>q, <2>1, <2>2, <2>4, QuietStep
<1>13. ASSUME NEW k \in Keys, delivery[k] # NoRow,
              NEW status \in Statuses, SetStatus(k, status),
              NEW j \in Keys, delivery'[j] # NoRow
       PROVE  delivery[j] # NoRow /\ delivery'[j].id = delivery[j].id
  <2>1. CASE j = k
    <3>1. delivery'[k] = [status |-> status, id |-> delivery[k].id]
      BY <1>0, <1>13, SetStatusRow
    <3> QED
      BY <1>13, <2>1, <3>1
  <2>2. CASE j # k
    BY <1>0, <1>13, <2>2, SetStatusRow
  <2> QED
    BY <2>1, <2>2
<1>14. ASSUME NEW r \in Requests,
              AttemptBegins(r) \/ AttemptEnds(r)
       PROVE  AnswerInv'
  <2>1. /\ UNCHANGED <<log, lock, apart>>
        /\ req[r].pc \in {"loaded", "calling"}
        /\ Ends(r) \/ Goes(r, "begun")
        /\ \/ UNCHANGED delivery
           \/ \E status \in Statuses : SetStatus(req[r].key, status)
    BY <1>14 DEF AttemptBegins, AttemptEnds, Outcome, Store, Statuses
  <2>2. /\ \A s \in Requests \ {r} : req'[s] = req[s]
        /\ req'[r].pc \in {"begun", "idle"}
    BY <1>t, <1>i, <2>1 DEF Goes, Ends, ReqRow
  <2>3. req[r].key \in Keys /\ delivery[req[r].key] # NoRow
    BY <1>0, <2>1 DEF TypeInv, ReqInv
  <2>4. \A j \in Keys : delivery'[j] # NoRow =>
            delivery[j] # NoRow /\ delivery'[j].id = delivery[j].id
    BY <1>13, <2>1, <2>3
  <2> QED
    BY <1>0, <1>q, <2>1, <2>2, <2>4, QuietStep
<1>15. ASSUME NEW r \in Requests, Sends(r)
       PROVE  AnswerInv'
  <2>1. /\ UNCHANGED <<log, lock, apart, delivery>>
        /\ req[r].pc = "calling" /\ req' = [req EXCEPT ![r].sent = TRUE]
    BY <1>15 DEF Sends
  <2>2. /\ \A s \in Requests \ {r} : req'[s] = req[s]
        /\ req'[r].pc = "calling"
    BY <1>t, <2>1 DEF ReqRow
  <2> QED
    BY <1>0, <1>q, <2>1, <2>2, QuietStep
<1>16. ASSUME NEW k \in Keys, LateSends(k) \/ LateDrops(k)
       PROVE  AnswerInv'
  <2>1. UNCHANGED <<log, lock, apart, req, delivery>>
    BY <1>16 DEF LateSends, LateDrops
  <2> QED
    BY <1>0, <1>q, <2>1, QuietStep
<1>17. ASSUME NEW k \in Keys, Reconcile(k)
       PROVE  AnswerInv'
  <2>1. /\ UNCHANGED <<log, lock, apart, req>> /\ delivery[k] # NoRow
        /\ \E status \in Statuses : SetStatus(k, status)
    BY <1>17 DEF Reconcile, Statuses
  <2>2. \A j \in Keys : delivery'[j] # NoRow =>
            delivery[j] # NoRow /\ delivery'[j].id = delivery[j].id
    BY <1>13, <2>1
  <2> QED
    BY <1>0, <1>q, <2>1, <2>2, QuietStep
<1>18. ASSUME NEW r \in Requests, LoadRow(r)
       PROVE  AnswerInv'
  <2>1. /\ UNCHANGED <<log, lock, apart, delivery>>
        /\ req[r].pc \in {"attempt", "begun"}
        /\ Load(r, "loaded") \/ Load(r, "calling")
    BY <1>18 DEF LoadRow
  <2>2. req[r].key \in Keys /\ delivery[req[r].key] # NoRow
    BY <1>0, <2>1 DEF TypeInv, ReqInv
  <2>3. /\ \A s \in Requests \ {r} : req'[s] = req[s]
        /\ req'[r].pc \in {"loaded", "calling"}
    BY <1>0, <2>1, <2>2, LoadReq DEF Places
  <2> QED
    BY <1>0, <1>q, <2>1, <2>3, QuietStep
<1>19. CASE UNCHANGED vars \/ \E m \in Messages : Confirm(m)
  <2>1. UNCHANGED <<log, lock, apart, req, delivery>>
    BY <1>19 DEF vars, Confirm
  <2> QED
    BY <1>0, <1>q, <2>1, QuietStep
<1> QED
  BY <1>1, <1>2, <1>3, <1>4, <1>5, <1>6, <1>8, <1>9, <1>10, <1>11, <1>12,
     <1>14, <1>15, <1>16, <1>17, <1>18, <1>19 DEF Next

\* For every number of messages, replies, requests, takeovers and crashes:
\* what is delivered under a key is the stored answer to its message, or to
\* one stored apart from its answer, and the reply itself for a reply.
THEOREM AnswersAreOwn == Spec => []OwnAnswer
<1>1. AnswerInv => OwnAnswer
  BY DEF AnswerInv
<1> QED
  BY AnswerInit, AnswerStep, <1>1, PTL DEF Spec

-----------------------------------------------------------------------------
(* What the delivery rows say.                                             *)

Calling(r, k) == req[r].pc \in {"begun", "calling"} /\ req[r].key = k

\* Nobody has misjudged them, and no attempt has on an outdated copy.
Judged == Keys \ (misjudged \cup outdated)

\* A message is with one caller at most, or left behind by one, or sent; and
\* its row is open only while none of this is so.
Once(k) ==
    /\ \A r, s \in Requests : Calling(r, k) /\ Calling(s, k) => r = s
    /\ copies[k] + flying[k] <= 1
    /\ \A r \in Requests : Calling(r, k) =>
          /\ delivery[k].status \in {"sending", "unknown", "accepted"}
          /\ ~req[r].sent => copies[k] = 0 /\ flying[k] = 0
          /\ req[r].sent => copies[k] = 1
    /\ delivery[k] = NoRow \/ Sendable(delivery[k].status) =>
          copies[k] = 0 /\ flying[k] = 0
    /\ delivery[k] # NoRow /\ delivery[k].status = "accepted" =>
          copies[k] = 1

\* Only a caller is told that a message was sent, and it was.
SentIsSent ==
    \A r \in Requests : req[r].sent =>
        req[r].pc = "calling" /\ copies[req[r].key] > 0

StatusInv ==
    /\ TypeInv
    /\ \A k \in Judged : Once(k)
    /\ SentIsSent
    /\ verified => misjudged # {} \/ \E k \in Keys : copies[k] > 0

LEMMA StatusInit == Init => StatusInv
<1> SUFFICES ASSUME Init PROVE StatusInv
  OBVIOUS
<1>1. \A k \in Keys : Once(k)
  BY DEF Init, Once, Calling, Idle, NewRequest
<1> QED
  BY <1>1, TypeInit DEF Init, StatusInv, SentIsSent, Judged, Idle, NewRequest

LEMMA InvIsTrue == StatusInv => StatusIsTrue
<1> SUFFICES ASSUME StatusInv PROVE StatusIsTrue
  OBVIOUS
<1>t. /\ flying \in [Keys -> Nat] /\ copies \in [Keys -> Nat]
      /\ delivery \in [Keys -> [status : Statuses, id : Nat] \cup {NoRow}]
  BY Types DEF StatusInv, TypeInv
<1>1. ASSUME NEW k \in Judged
      PROVE  /\ copies[k] <= 1
             /\ delivery[k] = NoRow => copies[k] = 0 /\ ~InFlight(k)
             /\ delivery[k] # NoRow =>
                   /\ delivery[k].status = "accepted" => copies[k] = 1
                   /\ delivery[k].status \in {"pending", "failed"} =>
                          copies[k] = 0 /\ ~InFlight(k)
  <2>1. Once(k)
    BY DEF StatusInv
  <2>2. \A r \in Requests : Calling(r, k) =>
            /\ delivery[k] # NoRow
            /\ delivery[k].status \in {"sending", "unknown", "accepted"}
    BY <2>1 DEF StatusInv, TypeInv, ReqInv, Calling, Once
  <2>3. copies[k] <= 1
    BY <1>t, <2>1 DEF Once, Judged
  <2>4. delivery[k] = NoRow \/ delivery[k].status \in {"pending", "failed"} =>
            copies[k] = 0 /\ ~InFlight(k)
    BY <1>t, <2>1, <2>2 DEF Once, Sendable, InFlight, Calling, Judged
  <2> QED
    BY <2>1, <2>3, <2>4 DEF Once
<1> QED
  BY <1>1 DEF StatusIsTrue, StatusInv, Judged

\* A step that leaves the message alone.
LEMMA OnceKept ==
    ASSUME NEW k \in Keys, TypeInv, Once(k),
           copies'[k] = copies[k], flying'[k] = flying[k],
           \/ delivery'[k] = delivery[k]
           \/ delivery[k] = NoRow /\ delivery'[k].status = "pending",
           \A r \in Requests : Calling(r, k)' =>
               Calling(r, k) /\ req'[r].sent = req[r].sent
    PROVE  Once(k)'
<1>1. delivery[k] = NoRow => \A r \in Requests : ~Calling(r, k)
  BY DEF TypeInv, ReqInv, Calling
<1> QED
  BY <1>1 DEF Once, Sendable

\* A step that leaves every message alone.
LEMMA CallsQuiet ==
    ASSUME StatusInv, TypeInv',
           UNCHANGED <<flying, copies, verified, misjudged>>,
           outdated \subseteq outdated',
           \A k \in Keys : \/ delivery'[k] = delivery[k]
                          \/ /\ delivery[k] = NoRow
                             /\ delivery'[k].status = "pending",
           \A s \in Requests :
               \/ req'[s] = req[s]
               \/ ~req'[s].sent /\ req'[s].pc \notin {"begun", "calling"}
    PROVE  StatusInv'
<1>1. ASSUME NEW k \in Judged'
      PROVE  Once(k)'
  <2>1. \A r \in Requests : Calling(r, k)' =>
            Calling(r, k) /\ req'[r].sent = req[r].sent
    BY DEF Calling
  <2>2. k \in Judged
    BY <1>1 DEF Judged
  <2> QED
    BY <2>1, <2>2, OnceKept DEF StatusInv, Judged
<1>2. SentIsSent'
  BY DEF StatusInv, SentIsSent
<1> QED
  BY <1>1, <1>2 DEF StatusInv

\* A step that concerns message k.
LEMMA OneMessage ==
    ASSUME StatusInv, TypeInv', NEW k \in Keys,
           misjudged \subseteq misjudged', outdated \subseteq outdated',
           \A j \in Keys \ {k} :
               /\ copies'[j] = copies[j] /\ flying'[j] = flying[j]
               /\ delivery'[j] = delivery[j],
           \A s \in Requests :
               \/ req'[s] = req[s]
               \/ req'[s].pc \notin {"begun", "calling"}
               \/ req'[s].key = k,
           k \in Judged' => Once(k)',
           SentIsSent',
           verified' => misjudged' # {} \/ \E j \in Keys : copies'[j] > 0
    PROVE  StatusInv'
<1>1. ASSUME NEW j \in Judged', j # k
      PROVE  Once(j)'
  <2>1. Once(j) /\ j \in Keys
    BY <1>1 DEF StatusInv, Judged
  <2>2. \A r \in Requests : Calling(r, j)' =>
            Calling(r, j) /\ req'[r].sent = req[r].sent
    BY <1>1 DEF Calling
  <2>3. TypeInv
    BY DEF StatusInv
  <2> QED
    BY <1>1, <2>1, <2>2, <2>3, OnceKept
<1> QED
  BY <1>1 DEF StatusInv, Judged

\* OwnAnswer comes in where a reply that is not stored must have no row.
LEMMA StatusStep == StatusInv /\ OwnAnswer /\ [Next]_vars => StatusInv'
<1> SUFFICES ASSUME StatusInv, OwnAnswer, [Next]_vars
             PROVE  StatusInv'
  OBVIOUS
<1> USE GatewayAssumption
<1>0. /\ TypeInv /\ TypeOK /\ TypeInv' /\ SentIsSent
      /\ \A k \in Judged : Once(k)
      /\ verified => misjudged # {} \/ \E k \in Keys : copies[k] > 0
  BY TypeStep DEF StatusInv, TypeInv
<1>t. /\ req \in [Requests -> ReqRow]
      /\ delivery \in [Keys -> [status : Statuses, id : Nat] \cup {NoRow}]
      /\ flying \in [Keys -> Nat] /\ copies \in [Keys -> Nat]
      /\ misjudged \subseteq Keys /\ outdated \subseteq Keys
  BY <1>0, Types
<1>i. Idle.pc = "idle" /\ ~Idle.sent
  BY DEF Idle, NewRequest
<1>s. \A r \in Requests : req[r].pc # "calling" => ~req[r].sent
  BY <1>0 DEF SentIsSent
<1>1. ASSUME NEW r \in Requests, NEW pc, NEW k, NEW id,
             pc \notin {"begun", "calling"}, Begins(r, pc, k, id)
      PROVE  \A s \in Requests : \/ req'[s] = req[s]
                                 \/ /\ ~req'[s].sent
                                    /\ req'[s].pc \notin {"begun", "calling"}
  BY <1>1, <1>t DEF Begins, NewRequest
<1>2. ASSUME NEW r \in Requests, Ends(r)
      PROVE  \A s \in Requests : \/ req'[s] = req[s]
                                 \/ /\ ~req'[s].sent
                                    /\ req'[s].pc \notin {"begun", "calling"}
  BY <1>2, <1>i, <1>t DEF Ends
<1>3. ASSUME NEW r \in Requests, req[r].pc # "calling",
             NEW pc, pc \notin {"begun", "calling"}, Goes(r, pc)
      PROVE  \A s \in Requests : \/ req'[s] = req[s]
                                 \/ /\ ~req'[s].sent
                                    /\ req'[s].pc \notin {"begun", "calling"}
  BY <1>3, <1>s, <1>t DEF Goes, ReqRow
<1>4. ASSUME NEW r \in Requests, NEW m \in Messages, Post(r, m)
      PROVE  StatusInv'
  <2>1. /\ UNCHANGED <<flying, copies, verified, misjudged, outdated,
                      delivery>>
        /\ \E pc, id : /\ pc \notin {"begun", "calling"}
                       /\ Begins(r, pc, m, id)
    BY <1>4 DEF Post
  <2> QED
    BY <1>0, <1>1, <2>1, CallsQuiet
<1>5. ASSUME NEW r \in Requests, NEW h \in Replies, SendHumanReply(r, h)
      PROVE  StatusInv'
  <2>1. /\ UNCHANGED <<flying, copies, verified, misjudged, outdated>>
        /\ Begins(r, "attempt", h, 0)
    BY <1>5 DEF SendHumanReply
  <2>2. \A k \in Keys : \/ delivery'[k] = delivery[k]
                        \/ /\ delivery[k] = NoRow
                           /\ delivery'[k].status = "pending"
    <3>1. CASE Sources("human", h) # {}
      BY <1>5, <3>1 DEF SendHumanReply
    <3>2. CASE Sources("human", h) = {}
      <4>1. h \in Keys \ Messages
        BY DEF Keys
      <4>2. delivery[h] = NoRow
        BY <3>2, <4>1 DEF OwnAnswer, Sources
      <4>3. delivery' = [delivery EXCEPT ![h] =
                           [status |-> "pending", id |-> Len(log) + 1]]
        BY <1>5, <3>2 DEF SendHumanReply
      <4> QED
        BY <1>t, <4>1, <4>2, <4>3
    <3> QED
      BY <3>1, <3>2
  <2> QED
    BY <1>0, <1>1, <2>1, <2>2, CallsQuiet
<1>6. ASSUME NEW r \in Requests, NEW k \in Keys, RetryByAdmin(r, k)
      PROVE  StatusInv'
  <2>1. /\ UNCHANGED <<flying, copies, verified, misjudged, outdated,
                      delivery>>
        /\ Begins(r, "attempt", k, 0)
    BY <1>6 DEF RetryByAdmin
  <2> QED
    BY <1>0, <1>1, <2>1, CallsQuiet
<1>7. ASSUME NEW r \in Requests,
             \/ StoreForHuman(r) \/ BeginChat(r) \/ ToolCommits(r)
             \/ ChatFails(r) \/ EnsureLooks(r)
      PROVE  StatusInv'
  <2>1. /\ UNCHANGED <<flying, copies, verified, misjudged, outdated,
                      delivery>>
        /\ req[r].pc # "calling"
        /\ \/ Ends(r) \/ UNCHANGED req
           \/ \E pc : pc \notin {"begun", "calling"} /\ Goes(r, pc)
    BY <1>7 DEF StoreForHuman, BeginChat, ToolCommits, ChatFails, EnsureLooks,
                Undo
  <2>2. \A s \in Requests : \/ req'[s] = req[s]
                            \/ /\ ~req'[s].sent
                               /\ req'[s].pc \notin {"begun", "calling"}
    BY <1>2, <1>3, <2>1
  <2> QED
    BY <1>0, <2>1, <2>2, CallsQuiet
<1>8. ASSUME NEW r \in Requests, Answer(r)
      PROVE  StatusInv'
  <2>1. /\ UNCHANGED <<flying, copies, verified, misjudged, outdated,
                      delivery>>
        /\ ~req'[r].sent /\ req'[r].pc \notin {"begun", "calling"}
        /\ \A s \in Requests \ {r} : req'[s] = req[s]
    BY <1>8, <1>t DEF Answer, NewRequest
  <2> QED
    BY <1>0, <2>1, CallsQuiet
<1>9. CASE TakeOver \/ ReturnAi \/ UNCHANGED vars
  <2>1. UNCHANGED <<flying, copies, verified, misjudged, outdated, delivery,
                      req>>
    BY <1>9 DEF TakeOver, ReturnAi, vars
  <2> QED
    BY <1>0, <2>1, CallsQuiet
<1>10. ASSUME NEW r \in Requests, EnsureInserts(r)
       PROVE  StatusInv'
  <2>1. /\ UNCHANGED <<flying, copies, verified, misjudged, outdated>>
        /\ req[r].pc = "insert" /\ Goes(r, "attempt")
        /\ delivery' = [delivery EXCEPT ![req[r].key] =
               IF @ = NoRow THEN [status |-> "pending", id |-> req[r].id]
               ELSE @]
    BY <1>10 DEF EnsureInserts
  <2>2. \A k \in Keys : \/ delivery'[k] = delivery[k]
                        \/ /\ delivery[k] = NoRow
                           /\ delivery'[k].status = "pending"
    BY <1>t, <2>1
  <2> QED
    BY <1>0, <1>3, <2>1, <2>2, CallsQuiet
<1>11. ASSUME NEW r \in Requests, AttemptBegins(r)
       PROVE  StatusInv'
  <2>1. PICK k \in Keys : k = req[r].key /\ delivery[k] # NoRow
    BY <1>0, <1>11 DEF AttemptBegins, TypeInv, ReqInv
  <2> DEFINE status == delivery[k].status
           seen == req[r].seen
  <2>2. /\ UNCHANGED <<flying, copies, verified, misjudged>>
        /\ req[r].pc = "loaded" /\ ~req[r].sent
        /\ \/ Ends(r) /\ UNCHANGED delivery
           \/ Ends(r) /\ SetStatus(k, "unknown")
           \/ Sendable(seen) /\ Ends(r) /\ SetStatus(k, "failed")
           \/ Sendable(seen) /\ Goes(r, "begun") /\ SetStatus(k, "sending")
    BY <1>11, <1>s, <2>1 DEF AttemptBegins, Store, Sendable
  <2>7. /\ outdated \subseteq outdated'
        /\ k \in Judged' =>
              k \in Judged /\ (Sendable(seen) => Sendable(status))
    BY <1>11, <2>1, <2>2 DEF AttemptBegins, Outdated, Judged
  <2>3. CASE Ends(r) /\ UNCHANGED delivery
    BY <1>0, <1>2, <2>2, <2>3, <2>7, CallsQuiet
  <2>4. ASSUME NEW new \in {"unknown", "failed", "sending"}, SetStatus(k, new)
        PROVE  /\ delivery'[k] # NoRow /\ delivery'[k].status = new
               /\ \A j \in Keys \ {k} : delivery'[j] = delivery[j]
    <3>1. new \in Statuses
      BY DEF Statuses
    <3>2. /\ delivery'[k] = [status |-> new, id |-> delivery[k].id]
          /\ delivery'[k] # NoRow
          /\ \A j \in Keys \ {k} : delivery'[j] = delivery[j]
      BY <1>0, <2>1, <2>4, <3>1, SetStatusRow
    <3> QED
      BY <3>2
  <2>5. CASE /\ Ends(r)
             /\ \/ SetStatus(k, "unknown")
                \/ Sendable(seen) /\ SetStatus(k, "failed")
    <3>1. \A s \in Requests :
              Calling(s, k)' => Calling(s, k) /\ req'[s] = req[s]
      BY <1>2, <2>5 DEF Calling
    <3>2. ASSUME k \in Judged'
          PROVE  Once(k)'
      <4>1. Once(k) /\ (Sendable(seen) => Sendable(status))
        BY <1>0, <2>7, <3>2
      <4>2. CASE SetStatus(k, "unknown")
        BY <2>2, <2>4, <3>1, <4>1, <4>2 DEF Once, Sendable
      <4>3. CASE Sendable(seen) /\ SetStatus(k, "failed")
        <5>1. \A s \in Requests : ~Calling(s, k)'
          BY <3>1, <4>1, <4>3 DEF Once, Sendable
        <5> QED
          BY <2>2, <2>4, <4>1, <4>3, <5>1 DEF Once, Sendable
      <4> QED
        BY <2>5, <4>2, <4>3
    <3>3. SentIsSent'
      BY <1>0, <1>2, <2>2, <2>5 DEF SentIsSent
    <3> QED
      BY <1>0, <1>2, <2>2, <2>4, <2>5, <2>7, <3>2, <3>3,
         OneMessage
  <2>6. CASE Sendable(seen) /\ Goes(r, "begun") /\ SetStatus(k, "sending")
    <3>1. /\ req'[r].pc = "begun" /\ req'[r].key = k /\ ~req'[r].sent
          /\ \A s \in Requests \ {r} : req'[s] = req[s]
      BY <1>t, <2>1, <2>2, <2>6 DEF Goes, ReqRow
    <3>2. ASSUME k \in Judged'
          PROVE  Once(k)'
      <4>1. Once(k) /\ (Sendable(seen) => Sendable(status))
        BY <1>0, <2>7, <3>2
      <4>2. \A s \in Requests \ {r} : ~Calling(s, k)'
        BY <2>6, <3>1, <4>1 DEF Once, Sendable, Calling
      <4> QED
        BY <2>2, <2>4, <2>6, <3>1, <4>1, <4>2 DEF Once, Sendable
    <3>3. SentIsSent'
      BY <1>0, <2>2, <3>1 DEF SentIsSent
    <3> QED
      BY <1>0, <2>2, <2>4, <2>6, <2>7, <3>1, <3>2, <3>3,
         OneMessage
  <2> QED
    BY <2>2, <2>3, <2>5, <2>6
<1>12. ASSUME NEW r \in Requests, Sends(r)
       PROVE  StatusInv'
  <2>1. PICK k \in Keys : k = req[r].key
    BY <1>0, <1>12 DEF Sends, TypeInv, ReqInv
  <2>2. /\ UNCHANGED <<flying, delivery, verified, misjudged, outdated>>
        /\ req[r].pc = "calling" /\ ~req[r].sent
        /\ req'[r].pc = "calling" /\ req'[r].key = k /\ req'[r].sent
        /\ \A s \in Requests \ {r} : req'[s] = req[s]
        /\ copies'[k] = copies[k] + 1
        /\ \A j \in Keys \ {k} : copies'[j] = copies[j]
    BY <1>t, <1>12, <2>1 DEF Sends, ReqRow
  <2>3. ASSUME k \in Judged'
        PROVE  Once(k)'
    <3>1. Once(k) /\ Calling(r, k)
      BY <1>0, <2>1, <2>2, <2>3 DEF Calling, Judged
    <3>2. \A s \in Requests : Calling(s, k)' <=> s = r
      BY <2>2, <3>1 DEF Once, Calling
    <3>3. copies[k] = 0 /\ flying[k] = 0
      BY <2>2, <3>1 DEF Once
    <3>4. /\ delivery[k] # NoRow
          /\ delivery[k].status \in {"sending", "unknown", "accepted"}
      BY <1>0, <3>1 DEF Once, Calling, TypeInv, ReqInv
    <3> QED
      BY <2>2, <3>1, <3>2, <3>3, <3>4 DEF Once, Sendable
  <2>4. SentIsSent'
    <3>1. \A j \in Keys : copies'[j] >= copies[j] /\ copies[j] \in Nat
                          /\ copies'[j] \in Nat
      BY <1>t, <2>2
    <3>2. copies'[k] > 0
      BY <1>t, <2>2
    <3>3. ASSUME NEW s \in Requests \ {r}, req'[s].sent
          PROVE  req'[s].pc = "calling" /\ copies'[req'[s].key] > 0
      <4>1. /\ req'[s] = req[s] /\ req[s].pc = "calling"
            /\ copies[req[s].key] > 0 /\ req[s].key \in Keys
        BY <1>0, <2>2, <3>3 DEF SentIsSent, TypeInv, ReqInv
      <4> QED
        BY <3>1, <4>1
    <3> QED
      BY <2>2, <3>2, <3>3 DEF SentIsSent
  <2>5. verified' => misjudged' # {} \/ \E j \in Keys : copies'[j] > 0
    BY <1>t, <2>2
  <2> QED
    BY <1>0, <2>2, <2>3, <2>4, <2>5, OneMessage
<1>13. ASSUME NEW k \in Keys, LateSends(k) \/ LateDrops(k)
       PROVE  StatusInv'
  <2>1. /\ UNCHANGED <<req, delivery, verified, misjudged, outdated>>
        /\ flying[k] > 0 /\ flying'[k] = flying[k] - 1
        /\ copies'[k] \in {copies[k], copies[k] + 1}
        /\ \A j \in Keys \ {k} :
              copies'[j] = copies[j] /\ flying'[j] = flying[j]
    BY <1>13, <1>t DEF LateSends, LateDrops
  <2>2. ASSUME k \in Judged'
        PROVE  Once(k)'
    <3>1. Once(k)
      BY <1>0, <2>1, <2>2 DEF Judged
    <3>2. copies[k] = 0 /\ flying[k] = 1
      BY <1>t, <2>1, <3>1 DEF Once
    <3>3. \A s \in Requests : ~Calling(s, k)
      BY <3>1, <3>2 DEF Once
    <3>4. ~(delivery[k] = NoRow \/ Sendable(delivery[k].status))
      BY <3>1, <3>2 DEF Once
    <3>5. ~(delivery[k] # NoRow /\ delivery[k].status = "accepted")
      BY <3>1, <3>2 DEF Once
    <3>6. copies'[k] + flying'[k] <= 1
      BY <2>1, <3>2
    <3> QED
      BY <2>1, <3>3, <3>4, <3>5, <3>6 DEF Once, Calling
  <2>3. \A j \in Keys : copies[j] > 0 => copies'[j] > 0
    BY <1>t, <2>1
  <2>4. SentIsSent'
    BY <1>0, <2>1, <2>3 DEF SentIsSent, TypeInv, ReqInv
  <2> QED
    BY <1>0, <2>1, <2>2, <2>3, <2>4, OneMessage
<1>14. ASSUME NEW r \in Requests, AttemptEnds(r)
       PROVE  StatusInv'
  <2>1. PICK k \in Keys : k = req[r].key /\ delivery[k] # NoRow
    BY <1>0, <1>14 DEF AttemptEnds, TypeInv, ReqInv
  <2>2. /\ req[r].pc = "calling" /\ Ends(r)
        /\ UNCHANGED <<copies, misjudged, outdated>>
        /\ \/ /\ req[r].sent /\ Store(r, "accepted")
              /\ verified' = TRUE /\ UNCHANGED flying
           \/ ~req[r].sent /\ Store(r, "failed")
              /\ UNCHANGED <<flying, verified>>
           \/ Store(r, "unknown") /\ flying' = Abandoned(r)
              /\ UNCHANGED verified
    BY <1>14 DEF AttemptEnds, Outcome
  <2>3. PICK status \in {"accepted", "failed", "unknown"} :
            /\ Store(r, status)
            /\ status = "accepted" => req[r].sent
            /\ status = "failed" => ~req[r].sent
            /\ \/ flying' = flying
               \/ status = "unknown" /\ flying' = Abandoned(r)
            /\ verified' = verified \/ req[r].sent
    BY <2>2
  <2>4. /\ delivery'[k] # NoRow
        /\ delivery'[k].status \in {delivery[k].status, status}
        /\ \A j \in Keys \ {k} : delivery'[j] = delivery[j]
    <3>1. status \in Statuses
      BY DEF Statuses
    <3>2. CASE UNCHANGED delivery
      BY <2>1, <3>2
    <3>3. CASE SetStatus(k, status)
      <4>1. /\ delivery'[k] = [status |-> status, id |-> delivery[k].id]
            /\ delivery'[k] # NoRow
            /\ \A j \in Keys \ {k} : delivery'[j] = delivery[j]
        BY <1>0, <2>1, <3>1, <3>3, SetStatusRow
      <4> QED
        BY <4>1
    <3> QED
      BY <2>1, <2>3, <3>2, <3>3 DEF Store
  <2>5. /\ \A j \in Keys \ {k} : flying'[j] = flying[j]
        /\ \/ flying'[k] = flying[k]
           \/ ~req[r].sent /\ status = "unknown" /\ flying'[k] = flying[k] + 1
    BY <1>t, <2>1, <2>2, <2>3 DEF Abandoned
  <2>6. ASSUME k \in Judged'
        PROVE  Once(k)'
    <3>1. Once(k) /\ Calling(r, k)
      BY <1>0, <2>1, <2>2, <2>6 DEF Calling, Judged
    <3>2. \A s \in Requests : ~Calling(s, k)'
      BY <1>2, <1>i, <1>t, <2>2, <3>1 DEF Once, Calling, Ends
    <3>3. /\ ~req[r].sent => copies[k] = 0 /\ flying[k] = 0
          /\ req[r].sent => copies[k] = 1
      BY <3>1 DEF Once
    <3>4. copies'[k] + flying'[k] <= 1
      BY <1>t, <2>2, <2>5, <3>1, <3>3 DEF Once
    <3>5. delivery[k].status \in {"sending", "unknown", "accepted"}
      BY <3>1 DEF Once
    <3>6. Sendable(delivery'[k].status) => copies'[k] = 0 /\ flying'[k] = 0
      BY <2>2, <2>3, <2>4, <2>5, <3>3, <3>5 DEF Sendable
    <3>7. delivery'[k].status = "accepted" => copies'[k] = 1
      <4>1. delivery[k].status = "accepted" => copies[k] = 1
        BY <2>1, <3>1 DEF Once
      <4> QED
        BY <2>2, <2>3, <2>4, <3>3, <4>1
    <3> QED
      BY <2>4, <3>2, <3>4, <3>6, <3>7 DEF Once
  <2>7. SentIsSent'
    BY <1>0, <1>2, <2>2 DEF SentIsSent
  <2>8. verified' => misjudged' # {} \/ \E j \in Keys : copies'[j] > 0
    BY <1>0, <2>1, <2>2, <2>3 DEF SentIsSent
  <2> QED
    BY <1>0, <1>2, <2>2, <2>4, <2>5, <2>6, <2>7, <2>8, OneMessage
<1>15. ASSUME NEW m \in Messages, Confirm(m)
       PROVE  StatusInv'
  <2>1. /\ copies[m] > 0 /\ m \in Keys
        /\ UNCHANGED <<req, delivery, flying, copies, misjudged, outdated>>
    BY <1>15 DEF Confirm, Keys
  <2>2. m \in Judged' => Once(m)'
    BY <1>0, <2>1 DEF Once, Calling, Judged
  <2>3. SentIsSent'
    BY <1>0, <2>1 DEF SentIsSent
  <2> QED
    BY <1>0, <2>1, <2>2, <2>3, OneMessage
<1>16. ASSUME NEW k \in Keys, Reconcile(k)
       PROVE  StatusInv'
  <2>1. /\ delivery[k] # NoRow /\ delivery[k].status = "unknown"
        /\ UNCHANGED <<req, flying, copies, outdated>>
        /\ misjudged \subseteq misjudged'
        /\ \/ /\ SetStatus(k, "accepted") /\ verified' = TRUE
              /\ copies[k] > 0 \/ k \in misjudged'
           \/ /\ SetStatus(k, "failed") /\ UNCHANGED verified
              /\ (copies[k] = 0 /\ ~InFlight(k)) \/ k \in misjudged'
    BY <1>16 DEF Reconcile
  <2>2. PICK status \in {"accepted", "failed"} :
            /\ SetStatus(k, status)
            /\ k \notin misjudged' /\ status = "accepted" => copies[k] > 0
            /\ k \notin misjudged' /\ status = "failed" =>
                  copies[k] = 0 /\ ~InFlight(k)
            /\ verified' = verified \/ k \in misjudged' \/ copies[k] > 0
    BY <2>1
  <2>3. /\ delivery'[k] # NoRow /\ delivery'[k].status = status
        /\ \A j \in Keys \ {k} : delivery'[j] = delivery[j]
    <3>1. status \in Statuses
      BY DEF Statuses
    <3>2. /\ delivery'[k] = [status |-> status, id |-> delivery[k].id]
          /\ delivery'[k] # NoRow
          /\ \A j \in Keys \ {k} : delivery'[j] = delivery[j]
      BY <1>0, <2>1, <2>2, <3>1, SetStatusRow
    <3> QED
      BY <3>2
  <2>4. ASSUME k \in Judged'
        PROVE  Once(k)'
    <3>1. Once(k)
      BY <1>0, <2>1, <2>4 DEF Judged
    <3>2. CASE status = "accepted"
      <4>1. copies[k] = 1 /\ flying[k] = 0
        BY <1>t, <2>2, <2>4, <3>1, <3>2 DEF Once, Judged
      <4> QED
        BY <2>1, <2>3, <3>1, <3>2, <4>1 DEF Once, Calling, Sendable
    <3>3. CASE status = "failed"
      <4>1. /\ copies[k] = 0 /\ flying[k] = 0
            /\ \A s \in Requests : ~Calling(s, k)
        BY <1>t, <2>2, <2>4, <3>3 DEF InFlight, Calling, Judged
      <4> QED
        BY <2>1, <2>3, <3>1, <3>3, <4>1 DEF Once, Calling
    <3> QED
      BY <3>2, <3>3
  <2>5. SentIsSent'
    BY <1>0, <2>1 DEF SentIsSent
  <2> QED
    BY <1>0, <2>1, <2>2, <2>3, <2>4, <2>5, OneMessage
<1>17. ASSUME NEW r \in Requests, Crash(r)
       PROVE  StatusInv'
  <2>1. /\ UNCHANGED <<delivery, copies, verified, misjudged, outdated>>
        /\ Ends(r) /\ flying' = Abandoned(r)
    BY <1>17 DEF Crash, Undo
  <2>2. CASE flying' = flying
    BY <1>0, <1>2, <2>1, <2>2, CallsQuiet
  <2>3. CASE req[r].pc = "calling" /\ ~req[r].sent
    <3>1. PICK k \in Keys : k = req[r].key /\ delivery[k] # NoRow
      BY <1>0, <2>3 DEF TypeInv, ReqInv
    <3>2. /\ flying'[k] = flying[k] + 1
          /\ \A j \in Keys \ {k} : flying'[j] = flying[j]
      BY <1>t, <2>1, <2>3, <3>1 DEF Abandoned
    <3>3. ASSUME k \in Judged'
          PROVE  Once(k)'
      <4>1. Once(k) /\ Calling(r, k)
        BY <1>0, <2>1, <2>3, <3>1, <3>3 DEF Calling, Judged
      <4>2. \A s \in Requests : ~Calling(s, k)'
        BY <1>2, <1>i, <1>t, <2>1, <4>1 DEF Once, Calling, Ends
      <4>3. /\ copies[k] = 0 /\ flying[k] = 0
            /\ delivery[k].status \in {"sending", "unknown", "accepted"}
            /\ delivery[k].status # "accepted"
        BY <2>3, <3>1, <4>1 DEF Once
      <4> QED
        BY <2>1, <3>1, <3>2, <4>2, <4>3 DEF Once, Sendable
    <3>4. SentIsSent'
      BY <1>0, <1>2, <2>1 DEF SentIsSent
    <3> QED
      BY <1>0, <1>2, <2>1, <3>2, <3>3, <3>4, OneMessage
  <2> QED
    BY <2>1, <2>2, <2>3 DEF Abandoned
<1>18. ASSUME NEW r \in Requests, LoadRow(r)
       PROVE  StatusInv'
  <2>1. /\ UNCHANGED <<flying, copies, verified, misjudged, outdated,
                      delivery>>
        /\ \/ req[r].pc = "attempt" /\ Load(r, "loaded")
           \/ req[r].pc = "begun" /\ Load(r, "calling")
    BY <1>18 DEF LoadRow
  <2>2. PICK k \in Keys : k = req[r].key /\ delivery[k] # NoRow
    BY <1>0, <2>1 DEF TypeInv, ReqInv
  <2>3. /\ req'[r].key = k /\ ~req'[r].sent /\ ~req[r].sent
        /\ req'[r].sent = req[r].sent
        /\ req'[r].pc \in {"loaded", "calling"}
        /\ req'[r].pc = "calling" <=> req[r].pc = "begun"
        /\ req'[r].pc = "loaded" <=> req[r].pc = "attempt"
        /\ \A s \in Requests \ {r} : req'[s] = req[s]
    BY <1>0, <1>s, <2>1, <2>2, LoadReq DEF Places
  <2>4. \A s \in Requests : Calling(s, k)' <=> Calling(s, k)
    BY <2>1, <2>2, <2>3 DEF Calling
  <2>5. k \in Judged' => Once(k)'
    <3>1. \A s \in Requests : req'[s].sent = req[s].sent
      BY <2>3
    <3> QED
      BY <1>0, <2>1, <2>4, <3>1, OnceKept DEF Judged
  <2>6. SentIsSent'
    BY <1>0, <2>1, <2>3 DEF SentIsSent
  <2> QED
    BY <1>0, <2>1, <2>2, <2>3, <2>5, <2>6, OneMessage
<1> QED
  BY <1>4, <1>5, <1>6, <1>7, <1>8, <1>9, <1>10, <1>11, <1>12, <1>13, <1>14,
     <1>15, <1>16, <1>17, <1>18 DEF Next

\* For every number of messages, replies, requests, crashes and late calls,
\* wrong reconciliations and stale copies of the row included: the customer
\* gets a message once at most, and its delivery row says what happened to it,
\* until a person misjudges it, or an attempt decides on a copy that it loaded
\* before another one began the message.
THEOREM DeliveriesAreTrue == Spec => []StatusIsTrue
<1>1. AnswerInv => OwnAnswer
  BY DEF AnswerInv
<1>2. Spec => []StatusInv
  BY AnswerInit, AnswerStep, StatusInit, StatusStep, <1>1, PTL DEF Spec
<1> QED
  BY <1>2, InvIsTrue, PTL
=============================================================================
