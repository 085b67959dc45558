------------------------ MODULE EmployeeBuilderProofs ------------------------
(***************************************************************************)
(* Proofs about the lifecycle of an employee, for every number of          *)
(* routines, connected systems, compilations and edits: the types, the     *)
(* connected system of a live build and the trials it was launched on, the *)
(* permission of its action and the build that a revision replaces.        *)
(***************************************************************************)
EXTENDS EmployeeBuilder, FiniteSetTheorems, SequenceTheorems, TLAPS

States == {"none", "open", "added", "valid", "gone"}

-----------------------------------------------------------------------------
(* The operators by their types.                                           *)

LEMMA ZeroStamp == 0 \in Stamps /\ NoEvidence \in Evidence
  BY BuilderAssumption DEF Stamps, Evidence, NoEvidence

LEMMA ClearedType ==
    /\ \A b \in Builds : /\ Cleared(b) \in Builds
                         /\ Cleared(b).spec = b.spec /\ Cleared(b).at = b.at
                         /\ Cleared(b).owner = b.owner
    /\ \A b \in Revisions :
           /\ Cleared(b) \in Revisions
           /\ Cleared(b).spec = b.spec /\ Cleared(b).at = b.at
           /\ Cleared(b).base = b.base /\ Cleared(b).of = b.of
  BY ZeroStamp DEF Cleared, Builds, Revisions

LEMMA UncompiledType ==
    ASSUME NEW b \in Builds
    PROVE  /\ Uncompiled(b) \in Builds
           /\ Uncompiled(b).spec = NoSpec
           /\ Uncompiled(b).owner = b.owner
  BY ZeroStamp DEF Uncompiled, Builds

LEMMA WithSpec ==
    ASSUME NEW s \in Specs \cup {NoSpec}
    PROVE  /\ \A b \in Builds : LET c == [b EXCEPT !.spec = s]
              IN c \in Builds /\ c.spec = s /\ c.at = b.at /\ c.owner = b.owner
           /\ \A b \in Revisions : LET c == [b EXCEPT !.spec = s]
              IN /\ c \in Revisions /\ c.spec = s /\ c.at = b.at
                 /\ c.base = b.base /\ c.of = b.of
  BY DEF Builds, Revisions

LEMMA RecordedType ==
    ASSUME NEW r \in Routines
    PROVE  /\ \A b \in Builds :
                 /\ Recorded(b, r) \in Builds
                 /\ Recorded(b, r).spec = b.spec /\ Recorded(b, r).at = b.at
                 /\ Recorded(b, r).owner = b.owner
           /\ \A b \in Revisions :
                 /\ Recorded(b, r) \in Revisions
                 /\ Recorded(b, r).spec = b.spec /\ Recorded(b, r).at = b.at
                 /\ Recorded(b, r).base = b.base /\ Recorded(b, r).of = b.of
<1>1. ASSUME NEW b \in Builds
      PROVE  /\ Recorded(b, r) \in Builds
             /\ Recorded(b, r).spec = b.spec /\ Recorded(b, r).at = b.at
             /\ Recorded(b, r).owner = b.owner
  <2>. DEFINE c == [b EXCEPT !.evidence[r] = b.at]
  <2>1. /\ c \in Builds /\ c.spec = b.spec /\ c.at = b.at
        /\ c.owner = b.owner
    BY DEF Builds, Evidence
  <2>2. LET d == [c EXCEPT !.tested = b.at]
        IN d \in Builds /\ d.spec = b.spec /\ d.at = b.at
           /\ d.owner = b.owner
    BY <2>1 DEF Builds
  <2> QED
    BY <2>1, <2>2 DEF Recorded
<1>2. ASSUME NEW b \in Revisions
      PROVE  /\ Recorded(b, r) \in Revisions
             /\ Recorded(b, r).spec = b.spec /\ Recorded(b, r).at = b.at
             /\ Recorded(b, r).base = b.base /\ Recorded(b, r).of = b.of
  <2>. DEFINE c == [b EXCEPT !.evidence[r] = b.at]
  <2>1. /\ c \in Revisions /\ c.spec = b.spec /\ c.at = b.at
        /\ c.base = b.base /\ c.of = b.of
    BY DEF Revisions, Evidence
  <2>2. LET d == [c EXCEPT !.tested = b.at]
        IN d \in Revisions /\ d.spec = b.spec /\ d.at = b.at
           /\ d.base = b.base /\ d.of = b.of
    BY <2>1 DEF Revisions
  <2> QED
    BY <2>1, <2>2 DEF Recorded
<1> QED
  BY <1>1, <1>2

LEMMA ChattedType ==
    /\ \A b \in Builds : /\ Chatted(b) \in Builds
                         /\ Chatted(b).spec = b.spec /\ Chatted(b).at = b.at
                         /\ Chatted(b).owner = b.owner
    /\ \A b \in Revisions :
           /\ Chatted(b) \in Revisions
           /\ Chatted(b).spec = b.spec /\ Chatted(b).at = b.at
           /\ Chatted(b).base = b.base /\ Chatted(b).of = b.of
  BY ZeroStamp DEF Chatted, Builds, Revisions

LEMMA EffectiveType ==
    ASSUME NEW s \in Specs, NEW b
    PROVE  /\ Effective(s, b) \in Specs
           /\ Effective(s, b).id = s.id /\ Effective(s, b).link = s.link
           /\ Effective(s, b).answer = s.answer
           /\ Effective(s, b).open = s.open
           /\ Effective(s, b).auto <=> b.owner = "automatic"
<1>1. (b.owner = "automatic") \in BOOLEAN
  OBVIOUS
<1> QED
  BY <1>1 DEF Effective, Specs

\* A system is bound by the way only if it is valid and needed.
LEMMA AutoBoundType ==
    ASSUME NEW s \in Specs
    PROVE  /\ AutoBound(s) \in Specs
           /\ AutoBound(s).id = s.id /\ AutoBound(s).auto = s.auto
           /\ AutoBound(s).answer = s.answer
           /\ AutoBound(s).open = s.open
           /\ AutoBound(s).link # s.link =>
                 "connection" \in needs /\ AutoBound(s).link \in Valid
<1>1. CASE "connection" \in needs /\ s.link = 0 /\ Cardinality(Valid) = 1
  <2>1. Valid # {}
    BY <1>1, FS_EmptySet
  <2>2. PICK c \in Valid : AutoBound(s) = [s EXCEPT !.link = c]
    BY <1>1, <2>1 DEF AutoBound
  <2>3. c \in Conns
    BY DEF Valid
  <2> QED
    BY <1>1, <2>2, <2>3 DEF Specs
<1>2. CASE ~("connection" \in needs /\ s.link = 0
               /\ Cardinality(Valid) = 1)
  BY <1>2 DEF AutoBound
<1> QED
  BY <1>1, <1>2

\* What is stored is the build itself, but for its permission and a system
\* bound by the way.
LEMMA StoredType ==
    ASSUME NEW b \in Builds, NEW s \in Specs
    PROVE  LET c == Stored(b, s)
           IN /\ c \in Builds /\ c.at = b.at /\ c.owner = b.owner
              /\ c.spec \in Specs /\ c.spec # NoSpec
              /\ c.spec.id = s.id /\ c.spec.answer = s.answer
              /\ c.spec.open = s.open
              /\ c.spec.auto <=> b.owner = "automatic"
              /\ c.spec.link # s.link =>
                    "connection" \in needs /\ c.spec.link \in Valid
<1>. DEFINE bound == AutoBound(s)
            d == IF bound # s THEN Cleared(b) ELSE b
            e == Effective(bound, b)
<1>1. /\ bound \in Specs
      /\ bound.id = s.id /\ bound.answer = s.answer
      /\ bound.open = s.open
      /\ bound.link # s.link =>
            "connection" \in needs /\ bound.link \in Valid
  BY AutoBoundType
<1>2. d \in Builds /\ d.at = b.at /\ d.owner = b.owner
  BY ClearedType
<1>3. /\ e \in Specs /\ e.id = bound.id /\ e.link = bound.link
      /\ e.answer = bound.answer
      /\ e.open = bound.open
      /\ e.auto <=> b.owner = "automatic"
  BY <1>1, EffectiveType
<1>4. Stored(b, s) = [d EXCEPT !.spec = e]
  BY DEF Stored
<1> HIDE DEF bound, d, e
<1>5. /\ Stored(b, s) \in Builds /\ Stored(b, s).at = b.at
      /\ Stored(b, s).owner = b.owner /\ Stored(b, s).spec = e
  BY <1>2, <1>3, <1>4, WithSpec
<1> QED
  BY <1>1, <1>3, <1>5, NoneAssumption

LEMMA NewSpecType ==
    ASSUME NEW id \in Stamps, NEW prev \in Specs \cup {NoSpec},
           NEW auto \in BOOLEAN
    PROVE  /\ NewSpec(id, prev, auto) \in Specs
           /\ NewSpec(id, prev, auto).link =
                 IF prev = NoSpec THEN 0 ELSE prev.link
<1>1. (IF prev = NoSpec THEN 0 ELSE prev.link) \in {0} \cup Conns
  BY DEF Specs
<1>2. /\ (IF prev = NoSpec THEN NoAnswer ELSE prev.answer) \in Given
      /\ \A a \in Given : (Asks /\ a = NoAnswer) \in BOOLEAN
  BY DEF Specs, Given
<1> QED
  BY <1>1, <1>2 DEF NewSpec, Specs

\* A compilation of a revision keeps the system of the build before, or
\* binds one that is valid and needed.
LEMMA StagedType ==
    ASSUME NEW id \in Stamps, NEW prev \in Specs \cup {NoSpec},
           NEW auto \in BOOLEAN
    PROVE  /\ Staged(id, prev, auto) \in Specs
           /\ \/ "connection" \in needs
              \/ prev # NoSpec /\ Staged(id, prev, auto).link = prev.link
              \/ Staged(id, prev, auto).link = 0
  BY NewSpecType, AutoBoundType DEF Staged

LEMMA SnapshotType ==
    ASSUME versions \in Seq(Versions), builder \in Builds, Snapshot,
           Len(versions) <= HistoryLimit
    PROVE  /\ versions' \in Seq(Versions) /\ Len(versions') <= HistoryLimit
           /\ \A i \in DOMAIN versions' :
                 \/ versions'[i].spec = builder.spec
                 \/ \E j \in DOMAIN versions :
                       versions'[i].spec = versions[j].spec
<1>. DEFINE new == [spec |-> builder.spec, owner |-> builder.owner]
            all == Append(versions, new)
<1>1. new \in Versions
  BY DEF Versions, Builds
<1>2. /\ all \in Seq(Versions) /\ Len(all) = Len(versions) + 1
      /\ \A i \in 1 .. Len(all) :
            all[i] = IF i <= Len(versions) THEN versions[i] ELSE new
  BY <1>1
<1>3. /\ Tail(all) \in Seq(Versions) /\ Len(Tail(all)) = Len(versions)
      /\ \A i \in 1 .. Len(versions) : Tail(all)[i] = all[i + 1]
  BY <1>2
<1>4. versions' = IF Len(all) > HistoryLimit THEN Tail(all) ELSE all
  BY DEF Snapshot
<1>5. versions' \in Seq(Versions) /\ Len(versions') <= HistoryLimit
  BY <1>2, <1>3, <1>4, BuilderAssumption
<1>6. \A i \in 1 .. Len(all) :
         \/ all[i].spec = builder.spec
         \/ \E j \in DOMAIN versions : all[i].spec = versions[j].spec
  BY <1>2
<1>7. ASSUME NEW i \in DOMAIN versions'
      PROVE  \/ versions'[i].spec = builder.spec
             \/ \E j \in DOMAIN versions :
                   versions'[i].spec = versions[j].spec
  BY <1>2, <1>3, <1>4, <1>6
<1> QED
  BY <1>5, <1>7

-----------------------------------------------------------------------------
(* The inductive invariant.                                                *)

Desks == [kind : {"edit", "delete", "callback", "chat"},
          conn : {0} \cup Conns, builder : Builds,
          pending : {NoRevision} \cup Revisions, enabled : BOOLEAN]

\* A value of compiled_at is not in the future.
Dated(p) == p # NoRevision => p.at <= now /\ p.base <= now

Types ==
    /\ needs \subseteq {"connection", "answer", "context"}
    /\ routines \subseteq Routines
    /\ enabled \in BOOLEAN /\ raced \in BOOLEAN
    /\ now \in Stamps /\ edits \in Nat /\ requests \in Nat
    /\ builder \in Builds /\ builder.at <= now
    /\ pending \in {NoRevision} \cup Revisions
    /\ Dated(pending)
    /\ versions \in Seq(Versions) /\ Len(versions) <= HistoryLimit
    /\ running \in Specs \cup {NoSpec}
    /\ conn \in [Conns -> [state : States, edition : Nat]]

\* What an endpoint has read, and the guards it passed.
Reads ==
    \/ desk = Idle
    \/ /\ desk \in Desks
       /\ desk.builder.at <= now
       /\ Dated(desk.pending)
       /\ desk.kind = "callback" =>
             /\ desk.conn \in Conns
             /\ IF desk.enabled /\ desk.pending # NoRevision
                THEN desk.pending.spec # NoSpec
                ELSE desk.builder.spec # NoSpec
       /\ desk.kind \in {"edit", "delete"} =>
             /\ desk.conn \in Conns
             /\ desk.enabled => ~Uses(desk.builder, desk.conn)

Bare(spec) == spec # NoSpec => spec.link = 0

\* An employee that needs no connected system has none anywhere.
Unneeded ==
    "connection" \notin needs =>
        /\ Bare(builder.spec)
        /\ pending # NoRevision => Bare(pending.spec)
        /\ \A i \in DOMAIN versions : Bare(versions[i].spec)
        /\ desk # Idle => /\ desk.kind = "chat"
                          /\ Bare(desk.builder.spec)
                          /\ desk.pending # NoRevision =>
                                Bare(desk.pending.spec)
        /\ \A c \in Conns : conn[c].state = "none"

\* What runs has the permission of the stored build, which the owner gave.
Granted ==
    builder.spec # NoSpec =>
        /\ running # NoSpec
        /\ running.auto <=> builder.owner = "automatic"
        /\ builder.spec.auto <=> builder.owner = "automatic"

\* A live build is complete, and its connected system valid.
Live ==
    enabled =>
        /\ builder.spec # NoSpec
        /\ "context" \notin needs => ~builder.spec.open
        /\ "connection" \in needs => builder.spec.link # 0
        /\ builder.spec.link # 0 => builder.spec.link \in Valid

\* A build has a compiled_at.  A revision was staged on a complete build,
\* which is still the stored one as long as compiled_at is the same.
Based ==
    /\ builder.spec = NoSpec <=> builder.at = 0
    /\ pending # NoRevision =>
          /\ pending.base # 0
          /\ "context" \notin needs => ~pending.of.open
          /\ pending.base = builder.at =>
                \/ pending.of = Base(builder.spec)
                \/ Reanswered(pending.of, builder.spec)

BuilderInv ==
    /\ Types /\ Reads /\ Unneeded
    /\ ~raced => Granted /\ Live /\ Based

-----------------------------------------------------------------------------
(* What a step does to the stored build and to the revision.               *)

\* Its permission is the owner's, and so is that of what runs; the owner of
\* a live employee does not widen it.
Permits ==
    \/ /\ UNCHANGED running
       /\ builder'.spec = builder.spec /\ builder'.owner = builder.owner
    \/ builder'.spec = NoSpec
    \/ /\ running' # NoSpec
       /\ enabled /\ builder'.owner = "automatic" =>
             builder.owner = "automatic"
       /\ running'.auto <=> builder'.owner = "automatic"
       /\ builder'.spec.auto <=> builder'.owner = "automatic"

\* Under the same compiled_at it only gets the answer that is missing, or
\* another one to what it may be told again.
Dates ==
    \/ /\ builder'.spec = NoSpec
       /\ \/ builder'.at = 0
          \/ builder.spec = NoSpec /\ builder'.at = builder.at
    \/ /\ builder'.spec # NoSpec
       /\ \/ builder'.at # 0 /\ pending' = NoRevision
          \/ builder'.at = now + 1
          \/ /\ builder.spec # NoSpec
             /\ builder'.at = builder.at
             /\ \/ Base(builder'.spec) = Base(builder.spec)
                \/ "context" \notin needs /\ builder.spec.open
                \/ Reanswered(Base(builder.spec), builder'.spec)

\* A live employee keeps a complete build, or becomes live with one.
Serves ==
    enabled' =>
        \/ /\ enabled
           /\ builder.spec # NoSpec =>
                 /\ builder'.spec # NoSpec
                 /\ ~builder.spec.open => ~builder'.spec.open
                 /\ \/ builder'.spec.link \in Valid'
                    \/ /\ builder'.spec.link = builder.spec.link
                       /\ builder.spec.link \in Valid =>
                             builder.spec.link \in Valid'
        \/ /\ builder'.spec # NoSpec
           /\ "context" \notin needs => ~builder'.spec.open
           /\ "connection" \in needs => builder'.spec.link # 0
           /\ builder'.spec.link # 0 => builder'.spec.link \in Valid'

\* The revision keeps its base, or is staged on the stored build.
Rests ==
    \/ pending' = NoRevision
    \/ /\ pending # NoRevision
       /\ pending'.base = pending.base /\ pending'.of = pending.of
    \/ /\ enabled
       /\ UNCHANGED builder
       /\ pending'.base = builder.at /\ pending'.of = Base(builder.spec)

\* A build that was told something else twice was told something else.
LEMMA ReansweredTwice ==
    ASSUME NEW of \in Bases \cup {NoSpec}, NEW spec \in Specs \cup {NoSpec},
           NEW new \in Specs, spec # NoSpec, new # NoSpec,
           of = Base(spec) \/ Reanswered(of, spec),
           Base(new) = Base(spec) \/ Reanswered(Base(spec), new)
    PROVE  of = Base(new) \/ Reanswered(of, new)
<1>1. /\ Base(spec) = [id |-> spec.id, answer |-> spec.answer,
                       open |-> spec.open, auto |-> spec.auto]
      /\ Base(new) = [id |-> new.id, answer |-> new.answer,
                      open |-> new.open, auto |-> new.auto]
  BY DEF Base
<1>2. Base(new) = Base(spec) =>
         new.open = spec.open /\ new.answer = spec.answer
  BY <1>1
<1>3. Reanswered(of, spec) /\ Base(new) = Base(spec) => Reanswered(of, new)
  BY <1>2 DEF Reanswered
<1>4. Reanswered(of, spec) /\ Reanswered(Base(spec), new) =>
         Reanswered(of, new)
  BY DEF Reanswered
<1> QED
  BY <1>3, <1>4

\* No step of a live employee widens the permission of what runs.
Unescalated == enabled /\ enabled' /\ ~raced' /\ running'.auto => running.auto

Advances == BuilderInv' /\ Unescalated

LEMMA InvFromStep ==
    ASSUME BuilderInv, UNCHANGED needs, raced => raced',
           Types', Reads', Unneeded',
           ~raced' => Permits /\ Dates /\ Serves /\ Rests
    PROVE  Advances
<1> SUFFICES ASSUME ~raced'
             PROVE  Granted' /\ Live' /\ Based' /\ Unescalated
  BY DEF BuilderInv, Advances, Unescalated
<1>1. Types /\ Granted /\ Live /\ Based
  BY DEF BuilderInv
<1>2. Granted'
  BY <1>1 DEF Granted, Permits
<1>3. Live'
  BY <1>1 DEF Live, Serves, Valid, Conns
<1>4. Unescalated
  BY <1>1, <1>2, <1>3 DEF Unescalated, Permits, Granted, Live
<1>5. /\ now \in Nat
      /\ pending # NoRevision => pending.base <= now /\ pending.base \in Nat
  BY <1>1 DEF Types, Dated, Revisions, Stamps
<1>6. builder'.spec = NoSpec <=> builder'.at = 0
  BY <1>1, <1>5 DEF Based, Dates
<1>7. Based'
  <2> SUFFICES ASSUME pending' # NoRevision
               PROVE  /\ pending'.base # 0
                      /\ "context" \notin needs => ~pending'.of.open
                      /\ pending'.base = builder'.at =>
                            \/ pending'.of = Base(builder'.spec)
                            \/ Reanswered(pending'.of, builder'.spec)
    BY <1>6 DEF Based, Reanswered
  <2>1. CASE /\ enabled /\ UNCHANGED builder
             /\ pending'.base = builder.at
             /\ pending'.of = Base(builder.spec)
    BY <2>1, <1>1 DEF Live, Based, Base
  <2>2. CASE /\ pending # NoRevision
             /\ pending'.base = pending.base /\ pending'.of = pending.of
    <3>1. CASE builder'.at = 0
      BY <1>1, <2>2, <3>1 DEF Based
    <3>2. CASE builder'.at = now + 1
      BY <1>1, <1>5, <2>2, <3>2 DEF Based
    <3>3. CASE /\ builder.spec # NoSpec
               /\ builder'.at = builder.at
               /\ \/ Base(builder'.spec) = Base(builder.spec)
                  \/ "context" \notin needs /\ builder.spec.open
                  \/ Reanswered(Base(builder.spec), builder'.spec)
      <4>1. /\ pending.base = builder.at =>
                  \/ pending.of = Base(builder.spec)
                  \/ Reanswered(pending.of, builder.spec)
            /\ pending.of \in Bases \cup {NoSpec}
            /\ builder.spec \in Specs \cup {NoSpec}
            /\ builder'.spec \in Specs \cup {NoSpec}
            /\ "context" \notin needs => ~pending.of.open
            /\ pending.base # 0
        BY <1>1, <2>2 DEF Based, Types, Builds, Revisions
      <4>2. CASE "context" \notin needs /\ builder.spec.open
        BY <1>1, <2>2, <3>3, <4>1, <4>2 DEF Based, Base, Reanswered
      <4>3. CASE /\ \/ Base(builder'.spec) = Base(builder.spec)
                    \/ Reanswered(Base(builder.spec), builder'.spec)
                 /\ pending.base = builder.at
        <5>1. builder'.spec \in Specs /\ builder'.spec # NoSpec
          BY <1>6, <3>3, <4>1, <4>3
        <5>2. \/ pending.of = Base(builder'.spec)
              \/ Reanswered(pending.of, builder'.spec)
          BY <3>3, <4>1, <4>3, <5>1, ReansweredTwice
        <5> QED
          BY <2>2, <4>1, <5>2
      <4> QED
        BY <2>2, <3>3, <4>1, <4>2, <4>3
    <3> QED
      BY <1>6, <3>1, <3>2, <3>3 DEF Dates
  <2> QED
    BY <2>1, <2>2 DEF Rests
<1> QED
  BY <1>2, <1>3, <1>4, <1>7

LEMMA InitBuilder == Init => BuilderInv
<1> SUFFICES ASSUME Init
             PROVE  BuilderInv
  OBVIOUS
<1>1. builder \in Builds /\ builder.at = 0 /\ builder.spec = NoSpec
  BY ZeroStamp DEF Init, Builds, Owners
<1>2. versions \in Seq(Versions) /\ Len(versions) = 0
  BY DEF Init
<1>3. Types
  <2>1. conn \in [Conns -> [state : States, edition : Nat]]
    BY DEF Init, States
  <2>2. /\ needs \subseteq {"connection", "answer", "context"}
        /\ routines \subseteq Routines
        /\ enabled \in BOOLEAN /\ raced \in BOOLEAN
    BY DEF Init
  <2>3. /\ now \in Stamps /\ edits \in Nat /\ requests \in Nat
        /\ builder.at <= now /\ Len(versions) <= HistoryLimit
    BY <1>1, <1>2, ZeroStamp, BuilderAssumption DEF Init
  <2> QED
    BY <1>1, <1>2, <2>1, <2>2, <2>3 DEF Init, Types, Dated
<1> QED
  BY <1>1, <1>2, <1>3
     DEF Init, BuilderInv, Dated, Reads, Unneeded, Bare, Granted, Live, Based

LEMMA TypesOK == Types => TypeOK
<1>1. \A x : x \in Stamps => x \in Nat
  BY DEF Stamps
<1> QED
  BY <1>1 DEF Types, TypeOK, Builds, Revisions, Versions, States

-----------------------------------------------------------------------------
(* Compilation and provisioning.                                           *)

LEMMA ProvisionType ==
    ASSUME NEW b \in Builds, b.spec \in Specs,
           running \in Specs \cup {NoSpec}, Provision(b)
    PROVE  /\ builder' = b
           /\ running' \in Specs /\ running' # NoSpec
           /\ running'.auto = b.spec.auto
<1>1. running # NoSpec =>
         [b.spec EXCEPT !.link = running.link] \in Specs
         /\ [b.spec EXCEPT !.link = running.link].auto = b.spec.auto
  BY DEF Specs
<1> QED
  BY <1>1, NoneAssumption DEF Provision

LEMMA StampType ==
    ASSUME Types, Stamp \/ UNCHANGED now
    PROVE  /\ now' \in Stamps /\ now <= now'
           /\ now \in Nat /\ builder.at \in Nat
           /\ pending # NoRevision => pending.base \in Nat
           /\ Stamp => now + 1 \in Stamps
  BY BuilderAssumption DEF Types, Stamp, Stamps, Builds, Revisions

\* The stored build, compiled if it was not.
LEMMA CompiledType ==
    ASSUME Types, StampNew
    PROVE  /\ Compiled \in Builds /\ Compiled.owner = builder.owner
           /\ Compiled.spec \in Specs /\ Compiled.spec # NoSpec
           /\ Compiled.spec.auto <=> builder.owner = "automatic"
           /\ Compiled.at <= now'
           /\ now' \in Stamps /\ now <= now'
           /\ builder.spec = NoSpec => Compiled.at = now + 1
           /\ builder.spec # NoSpec =>
                 /\ Compiled.at = builder.at
                 /\ Compiled.spec.id = builder.spec.id
                 /\ Compiled.spec.answer = builder.spec.answer
                 /\ Compiled.spec.open = builder.spec.open
                 /\ Compiled.spec.link # builder.spec.link =>
                       Compiled.spec.link \in Valid
           /\ "connection" \notin needs /\ Bare(builder.spec) =>
                 Bare(Compiled.spec)
<1>0. builder \in Builds /\ builder.spec \in Specs \cup {NoSpec}
  BY DEF Types, Builds
<1>1. CASE builder.spec # NoSpec
  <2>1. Compiled = Stored(builder, builder.spec) /\ UNCHANGED now
    BY <1>1 DEF Compiled, StampNew
  <2>2. /\ Compiled \in Builds /\ Compiled.at = builder.at
        /\ Compiled.owner = builder.owner
        /\ Compiled.spec \in Specs /\ Compiled.spec # NoSpec
        /\ Compiled.spec.id = builder.spec.id
        /\ Compiled.spec.answer = builder.spec.answer
        /\ Compiled.spec.open = builder.spec.open
        /\ Compiled.spec.auto <=> builder.owner = "automatic"
        /\ Compiled.spec.link # builder.spec.link =>
              "connection" \in needs /\ Compiled.spec.link \in Valid
    BY <1>0, <1>1, <2>1, StoredType
  <2>3. now' \in Stamps /\ now <= now' /\ builder.at <= now'
    BY <2>1 DEF Types, Stamps
  <2> QED
    BY <1>1, <2>2, <2>3 DEF Bare
<1>2. CASE builder.spec = NoSpec
  <2>. DEFINE b == [builder EXCEPT !.at = now + 1]
              n == NewSpec(now + 1, NoSpec, FALSE)
  <2>1. Compiled = Stored(b, n) /\ Stamp
    BY <1>2 DEF Compiled, StampNew
  <2>2. now + 1 \in Stamps /\ now' \in Stamps /\ now <= now'
        /\ now' = now + 1
    BY <2>1, StampType DEF Stamp
  <2>3. b \in Builds /\ b.at = now + 1 /\ b.owner = builder.owner
    BY <1>0, <2>2 DEF Builds
  <2>4. n \in Specs /\ n.link = 0
    BY <2>2, NewSpecType
  <2> HIDE DEF b, n
  <2>5. now + 1 <= now'
    BY <2>2 DEF Stamps
  <2>6. /\ Compiled \in Builds /\ Compiled.at = now + 1
        /\ Compiled.owner = builder.owner
        /\ Compiled.spec \in Specs /\ Compiled.spec # NoSpec
        /\ Compiled.spec.auto <=> builder.owner = "automatic"
        /\ Compiled.spec.link # 0 => "connection" \in needs
    BY <2>1, <2>3, <2>4, StoredType
  <2> QED
    BY <1>2, <2>2, <2>5, <2>6 DEF Bare
<1> QED
  BY <1>1, <1>2

LEMMA PreviousType ==
    ASSUME Types
    PROVE  /\ Previous \in Specs \cup {NoSpec}
           /\ Unneeded /\ "connection" \notin needs => Bare(Previous)
  BY DEF Types, Previous, Builds, Revisions, Unneeded

LEMMA RevisionType ==
    ASSUME NEW s \in Specs \cup {NoSpec}, NEW at \in Stamps,
           NEW base \in Stamps, NEW of \in Bases \cup {NoSpec}
    PROVE  LET p == Revision(s, at, base, of)
           IN /\ p \in Revisions /\ p.spec = s /\ p.at = at
              /\ p.base = base /\ p.of = of
  BY ZeroStamp DEF Revision, Revisions

LEMMA BaseType ==
    ASSUME NEW s \in Specs \cup {NoSpec}
    PROVE  Base(s) \in Bases \cup {NoSpec}
  BY DEF Base, Bases, Specs

\* What a step leaves alone stays as it was.
LEMMA ReadsStay ==
    ASSUME Reads, now \in Nat, now' \in Nat, now <= now', UNCHANGED desk
    PROVE  Reads'
<1>1. desk # Idle => desk.builder.at \in Nat
                     /\ (desk.pending # NoRevision =>
                            /\ desk.pending.at \in Nat
                            /\ desk.pending.base \in Nat)
  BY DEF Reads, Desks, Builds, Revisions, Stamps
<1> QED
  BY <1>1 DEF Reads, Dated, Uses

-----------------------------------------------------------------------------
(* Steps that change the stored build.                                     *)

\* The stored build becomes b.
LEMMA StoreKeepsInv ==
    ASSUME BuilderInv, UNCHANGED <<needs, routines, pending, desk, edits,
                                   requests, raced>>,
           NEW b \in Builds, builder' = b, b.at <= now',
           running' \in Specs \cup {NoSpec}, enabled' \in BOOLEAN,
           now' \in Stamps, now <= now',
           \/ UNCHANGED versions
           \/ Snapshot
           \/ versions' \in Seq(Versions) /\ Len(versions') <= HistoryLimit
              /\ "connection" \in needs,
           conn' \in [Conns -> [state : States, edition : Nat]],
           "connection" \notin needs => UNCHANGED conn /\ Bare(b.spec),
           ~raced => Permits /\ Dates /\ Serves
    PROVE  Advances
<1>1. Types /\ Reads /\ Unneeded
  BY DEF BuilderInv
<1>2. now \in Nat /\ now' \in Nat
  BY <1>1 DEF Types, Stamps
<1>3. /\ versions' \in Seq(Versions) /\ Len(versions') <= HistoryLimit
      /\ "connection" \notin needs =>
            \A i \in DOMAIN versions' :
                \/ versions'[i].spec = builder.spec
                \/ \E j \in DOMAIN versions :
                      versions'[i].spec = versions[j].spec
  BY <1>1, SnapshotType DEF Types
<1>4. Types'
  <2>1. Dated(pending)'
    BY <1>1, <1>2 DEF Types, Dated, Revisions, Stamps
  <2> QED
    BY <1>1, <1>3, <2>1 DEF Types
<1>5. Reads'
  BY <1>1, <1>2, ReadsStay
<1>6. Unneeded'
  BY <1>1, <1>3 DEF Unneeded, Bare
<1>7. pending' = NoRevision \/ Rests
  BY DEF Rests
<1>8. ~raced' => Permits /\ Dates /\ Serves /\ Rests
  BY <1>7 DEF Rests
<1> QED
  BY <1>4, <1>5, <1>6, <1>8, InvFromStep

\* A compiled build stays what it was, but for a system bound by the way.
LEMMA CompiledServes ==
    ASSUME BuilderInv, ~raced, StampNew, NEW b \in Builds,
           b.spec = Compiled.spec, b.at = Compiled.at,
           b.owner = Compiled.owner, Provision(b),
           UNCHANGED <<enabled, conn, needs>>
    PROVE  Permits /\ Dates /\ Serves
<1>1. Types /\ Granted /\ Live
  BY DEF BuilderInv
<1>. DEFINE c == Compiled
<1>2. /\ c.owner = builder.owner
      /\ c.spec \in Specs /\ c.spec # NoSpec
      /\ c.spec.auto <=> builder.owner = "automatic"
      /\ builder.spec = NoSpec => c.at = now + 1
      /\ builder.spec # NoSpec =>
            /\ c.at = builder.at
            /\ c.spec.id = builder.spec.id
            /\ c.spec.answer = builder.spec.answer
            /\ c.spec.open = builder.spec.open
            /\ c.spec.link # builder.spec.link => c.spec.link \in Valid
  BY <1>1, CompiledType
<1>3. /\ builder' = b /\ running' # NoSpec
      /\ running'.auto = b.spec.auto
  BY <1>1, <1>2, ProvisionType DEF Types
<1> HIDE DEF c
<1>4. Permits
  BY <1>2, <1>3 DEF c, Permits
<1>5. Dates
  <2>1. CASE builder.spec = NoSpec
    BY <1>2, <1>3, <2>1 DEF c, Dates
  <2>2. CASE builder.spec # NoSpec
    <3>1. c.spec.auto = builder.spec.auto
      <4>1. builder.spec.auto \in BOOLEAN /\ c.spec.auto \in BOOLEAN
        BY <1>1, <1>2, <2>2 DEF Types, Builds, Specs
      <4> QED
        BY <1>1, <1>2, <2>2, <4>1 DEF Granted
    <3>2. Base(c.spec) = Base(builder.spec)
      BY <1>2, <2>2, <3>1 DEF Base
    <3> QED
      BY <1>2, <1>3, <2>2, <3>2 DEF c, Dates
  <2> QED
    BY <2>1, <2>2
<1>6. Serves
  BY <1>1, <1>2, <1>3 DEF c, Serves, Live, Valid
<1> QED
  BY <1>4, <1>5, <1>6

LEMMA CompileSteps ==
    ASSUME BuilderInv, Compile \/ Chat
    PROVE  Advances
<1>1. Types /\ Reads /\ Unneeded
  BY DEF BuilderInv
<1>2. ASSUME StampNew, NEW b \in Builds, b.spec = Compiled.spec,
             b.at = Compiled.at, b.owner = Compiled.owner, Provision(b),
             UNCHANGED <<needs, routines, enabled, pending, versions, conn,
                         desk, raced, edits, requests>>
      PROVE  Advances
  <2>1. /\ Compiled.spec \in Specs
        /\ Compiled.at <= now' /\ now' \in Stamps /\ now <= now'
        /\ "connection" \notin needs /\ Bare(builder.spec) =>
              Bare(Compiled.spec)
    BY <1>1, <1>2, CompiledType
  <2>2. builder' = b /\ running' \in Specs
    BY <1>1, <1>2, <2>1, ProvisionType DEF Types
  <2>3. ~raced => Permits /\ Dates /\ Serves
    BY <1>2, CompiledServes
  <2> QED
    BY <1>1, <1>2, <2>1, <2>2, <2>3, StoreKeepsInv DEF Types, Unneeded
<1>3. CASE Compile
  <2>1. StampNew /\ Provision(Compiled) /\ Compiled \in Builds
    BY <1>1, <1>3, CompiledType DEF Compile
  <2> QED
    BY <1>2, <1>3, <2>1 DEF Compile, history
<1>4. CASE Chat
  <2>1. CASE /\ Staging /\ pending.spec # NoSpec
             /\ pending' = Chatted(pending)
             /\ UNCHANGED <<builder, running, now>>
    <3>1. pending \in Revisions /\ pending # NoRevision
      BY <1>1, <2>1 DEF Types, Staging
    <3>2. /\ pending' \in Revisions /\ pending'.spec = pending.spec
          /\ pending'.at = pending.at
          /\ pending'.base = pending.base /\ pending'.of = pending.of
      BY <2>1, <3>1, ChattedType
    <3>3. UNCHANGED <<needs, routines, enabled, versions, conn, desk, raced,
                      edits, requests, builder, running, now>>
      BY <1>4, <2>1 DEF Chat
    <3>4. Types'
      BY <1>1, <3>1, <3>2, <3>3 DEF Types, Dated
    <3>5. Reads' /\ Unneeded'
      BY <1>1, <3>1, <3>2, <3>3 DEF Reads, Dated, Unneeded, Uses
    <3>6. ~raced => Permits /\ Dates /\ Serves /\ Rests
      <4> SUFFICES ASSUME ~raced
                   PROVE  Permits /\ Dates /\ Serves /\ Rests
        OBVIOUS
      <4>1. enabled => builder.spec # NoSpec
        BY DEF BuilderInv, Live
      <4> QED
        BY <3>1, <3>2, <3>3, <4>1
           DEF Permits, Dates, Serves, Rests, Valid
    <3> QED
      BY <3>3, <3>4, <3>5, <3>6, InvFromStep
  <2>2. CASE StampNew /\ Provision(Chatted(Compiled)) /\ UNCHANGED pending
    <3>1. Compiled \in Builds
      BY <1>1, <2>2, CompiledType
    <3>2. /\ Chatted(Compiled) \in Builds
          /\ Chatted(Compiled).spec = Compiled.spec
          /\ Chatted(Compiled).at = Compiled.at
          /\ Chatted(Compiled).owner = Compiled.owner
      BY <3>1, ChattedType
    <3> QED
      BY <1>2, <1>4, <2>2, <3>2 DEF Chat
  <2>3. CASE /\ enabled /\ builder' = Chatted(builder)
             /\ UNCHANGED <<pending, running, now>>
    <3>1. /\ builder' \in Builds /\ builder'.spec = builder.spec
          /\ builder'.at = builder.at /\ builder'.owner = builder.owner
      BY <1>1, <2>3, ChattedType DEF Types
    <3>2. ~raced => Permits /\ Dates /\ Serves
      <4>1. ~raced /\ enabled => builder.spec # NoSpec
        BY DEF BuilderInv, Live
      <4> QED
        BY <1>4, <2>3, <3>1, <4>1 DEF Chat, Permits, Dates, Serves, Valid
    <3> QED
      BY <1>1, <1>4, <2>3, <3>1, <3>2, StoreKeepsInv
         DEF Chat, Types, Unneeded, Stamps
  <2> QED
    BY <1>4, <2>1, <2>2, <2>3 DEF Chat
<1> QED
  BY <1>3, <1>4

\* The steps of a draft: it is cleared, or a version is compiled again.
LEMMA DraftSteps ==
    ASSUME BuilderInv,
           Revise \/ \E i \in DOMAIN versions : Restore(versions[i])
    PROVE  Advances
<1> USE DEF history
<1>1. Types /\ Reads /\ Unneeded
  BY DEF BuilderInv
<1>2. now \in Nat /\ builder \in Builds
  BY <1>1 DEF Types, Stamps
<1>. DEFINE c == Uncompiled(builder)
<1>3. ASSUME NEW b \in Builds, b.spec = NoSpec, b.at = 0, Replace(b),
             Snapshot, ~enabled,
             UNCHANGED <<needs, routines, enabled, pending, conn, now, desk,
                         raced, edits, requests>>
      PROVE  Advances
  <2>1. Permits /\ Dates /\ Serves
    BY <1>3 DEF Replace, Permits, Dates, Serves
  <2> QED
    BY <1>1, <1>2, <1>3, <2>1, StoreKeepsInv DEF Replace, Types, Bare
<1>4. ASSUME NEW o \in Owners
      PROVE  /\ [c EXCEPT !.owner = o] \in Builds
             /\ [c EXCEPT !.owner = o].spec = NoSpec
             /\ [c EXCEPT !.owner = o].at = 0
             /\ [c EXCEPT !.owner = o].owner = o
  BY <1>2, ZeroStamp DEF Uncompiled, Builds
<1> HIDE DEF c
<1>5. "none" \in Owners
  BY DEF Owners
<1>6. CASE Revise
  BY <1>3, <1>4, <1>5, <1>6 DEF Revise, c
<1>7. ASSUME NEW i \in DOMAIN versions, Restore(versions[i])
      PROVE  Advances
  <2>. DEFINE v == versions[i]
              b == [c EXCEPT !.owner = v.owner]
  <2>1. v \in Versions
    BY <1>1, <1>7 DEF Types
  <2>2. v.spec \in Specs \cup {NoSpec} /\ v.owner \in Owners
    BY <2>1 DEF Versions
  <2>3. /\ ~enabled /\ Snapshot
        /\ UNCHANGED <<needs, routines, enabled, pending, conn, desk, raced,
                       edits, requests>>
        /\ IF v.spec # NoSpec
           THEN Stamp /\ Replace([b EXCEPT !.spec = Effective(v.spec, b),
                                            !.at = now + 1])
           ELSE Replace([b EXCEPT !.owner = "none"]) /\ UNCHANGED now
    BY <1>7 DEF Restore, c
  <2>4. b \in Builds /\ b.owner = v.owner
    BY <1>4, <2>2
  <2>5. CASE v.spec = NoSpec
    <3>1. [b EXCEPT !.owner = "none"] = [c EXCEPT !.owner = "none"]
      BY <1>2, UncompiledType DEF c, Builds
    <3> QED
      BY <1>3, <1>4, <1>5, <2>3, <2>5, <3>1
  <2>6. CASE v.spec # NoSpec
    <3>. DEFINE e == Effective(v.spec, b)
                d == [b EXCEPT !.spec = e, !.at = now + 1]
    <3>1. /\ now + 1 \in Stamps /\ now' = now + 1 /\ now <= now'
          /\ now' \in Stamps /\ now + 1 <= now'
      BY <1>1, <2>3, <2>6, StampType DEF Stamp
    <3>2. /\ e \in Specs /\ e.link = v.spec.link
          /\ e.auto <=> b.owner = "automatic"
      BY <2>2, <2>6, EffectiveType
    <3> HIDE DEF b, e
    <3>3. /\ d \in Builds /\ d.spec = e /\ d.at = now + 1
          /\ d.owner = b.owner
      BY <2>4, <3>1, <3>2 DEF Builds
    <3>4. builder' = d /\ running' = e
      BY <2>3, <2>6, <3>3 DEF Replace, e, b
    <3> HIDE DEF d
    <3>5. Permits /\ Dates /\ Serves
      BY <2>3, <3>2, <3>3, <3>4, NoneAssumption
         DEF Permits, Dates, Serves
    <3>6. "connection" \notin needs => Bare(e)
      BY <1>1, <2>6, <3>2 DEF Unneeded, Bare
    <3> QED
      BY <1>1, <2>3, <3>1, <3>2, <3>3, <3>4, <3>5, <3>6, StoreKeepsInv
         DEF Types
  <2> QED
    BY <2>5, <2>6
<1> QED
  BY <1>6, <1>7

\* The owner's permission is a build of its own.
LEMMA PermissionStep ==
    ASSUME BuilderInv, NEW mode \in {"ask", "automatic"},
           SetPermission(mode)
    PROVE  Advances
<1>. DEFINE a == [builder EXCEPT !.owner = mode, !.at = now + 1]
            b == Cleared(a)
            c == Stored(b, builder.spec)
<1>1. Types /\ Reads /\ Unneeded
  BY DEF BuilderInv
<1>2. /\ builder.spec \in Specs /\ builder.spec # NoSpec
      /\ builder \in Builds
  BY <1>1 DEF SetPermission, Types, Builds
<1>3. /\ now + 1 \in Stamps /\ now' = now + 1 /\ now' \in Stamps
      /\ now <= now' /\ now + 1 <= now'
  BY <1>1, StampType DEF SetPermission, Stamp
<1>4. a \in Builds /\ a.at = now + 1 /\ a.owner = mode
  BY <1>2, <1>3 DEF Builds, Owners
<1> HIDE DEF a
<1>5. b \in Builds /\ b.at = now + 1 /\ b.owner = mode
  BY <1>4, ClearedType
<1> HIDE DEF b
<1>6. /\ c \in Builds /\ c.at = now + 1 /\ c.owner = mode
      /\ c.spec \in Specs /\ c.spec # NoSpec
      /\ c.spec.answer = builder.spec.answer
      /\ c.spec.open = builder.spec.open
      /\ c.spec.auto <=> mode = "automatic"
      /\ c.spec.link # builder.spec.link =>
            "connection" \in needs /\ c.spec.link \in Valid
  BY <1>2, <1>5, StoredType
<1>7. Provision(c)
  BY DEF SetPermission, a, b
<1> HIDE DEF c
<1>8. /\ builder' = c /\ running' \in Specs /\ running' # NoSpec
      /\ running'.auto = c.spec.auto
  BY <1>1, <1>6, <1>7, ProvisionType DEF Types
<1>9. ~raced => Permits /\ Dates /\ Serves
  <2>1. ~raced /\ enabled /\ mode = "automatic" =>
           builder.owner = "automatic"
    BY <1>2 DEF SetPermission, BuilderInv, Granted
  <2>2. ~raced => Permits
    BY <1>6, <1>8, <2>1 DEF Permits
  <2> QED
    BY <1>6, <1>8, <1>2, <2>2 DEF SetPermission, Dates, Serves, Valid
<1>10. "connection" \notin needs => Bare(c.spec)
  BY <1>1, <1>2, <1>6 DEF Unneeded, Bare
<1> QED
  BY <1>1, <1>3, <1>6, <1>8, <1>9, <1>10, StoreKeepsInv
     DEF SetPermission, Types, history

-----------------------------------------------------------------------------
(* Steps that change the revision.                                         *)

\* The revision becomes p or is gone; the stored build stays.
LEMMA RevisionKeepsInv ==
    ASSUME BuilderInv, UNCHANGED <<needs, routines, builder, versions,
                                   running, enabled, desk, raced>>,
           NEW p, pending' = p, p \in {NoRevision} \cup Revisions,
           edits' \in Nat, requests' \in Nat, now' \in Stamps, now <= now',
           p # NoRevision => p.base <= now' /\ p.at <= now',
           conn' \in [Conns -> [state : States, edition : Nat]],
           Valid \subseteq Valid',
           "connection" \notin needs =>
               UNCHANGED conn /\ (p # NoRevision => Bare(p.spec)),
           ~raced => Rests
    PROVE  Advances
<1>1. Types /\ Reads /\ Unneeded
  BY DEF BuilderInv
<1>2. now \in Nat /\ now' \in Nat /\ builder.at \in Nat
  BY <1>1 DEF Types, Stamps, Builds
<1>3. Types' /\ Reads' /\ Unneeded'
  BY <1>1, <1>2, ReadsStay DEF Types, Dated, Unneeded
<1>4. ~raced => Permits /\ Dates /\ Serves
  <2>1. ~raced /\ enabled => builder.spec # NoSpec
    BY DEF BuilderInv, Live
  <2> QED
    BY <2>1 DEF Permits, Dates, Serves
<1> QED
  BY <1>3, <1>4, InvFromStep

LEMMA RevisionSteps ==
    ASSUME BuilderInv,
           \/ Stage \/ Rebuild \/ Discard
           \/ \E i \in DOMAIN versions : StageVersion(versions[i])
    PROVE  Advances
<1> USE DEF history, settings
<1>1. Types /\ Reads /\ Unneeded
  BY DEF BuilderInv
<1>2. /\ builder.spec \in Specs \cup {NoSpec} /\ builder.at \in Stamps
      /\ builder.at <= now /\ now \in Nat
      /\ Base(builder.spec) \in Bases \cup {NoSpec}
  BY <1>1, BaseType DEF Types, Builds, Stamps
<1>3. /\ Previous \in Specs \cup {NoSpec}
      /\ "connection" \notin needs => Bare(Previous)
  BY <1>1, PreviousType
<1>4. Stamp => /\ now + 1 \in Stamps /\ now' = now + 1 /\ now' \in Stamps
               /\ now <= now' /\ now + 1 <= now'
  BY <1>1, StampType DEF Stamp
<1>5. ASSUME NEW prev \in Specs \cup {NoSpec}, NEW auto \in BOOLEAN, Stamp,
             "connection" \notin needs => Bare(prev)
      PROVE  /\ Staged(now + 1, prev, auto) \in Specs
             /\ "connection" \notin needs =>
                   Bare(Staged(now + 1, prev, auto))
  BY <1>4, <1>5, StagedType DEF Bare
<1>6. pending # NoRevision =>
         /\ pending \in Revisions /\ pending.base \in Stamps
         /\ pending.base <= now /\ pending.of \in Bases \cup {NoSpec}
         /\ pending.base \in Nat /\ pending.at <= now
  BY <1>1 DEF Types, Dated, Revisions, Stamps
<1>7. CASE Stage
  <2>. DEFINE first == pending = NoRevision
              base == IF first THEN builder.at ELSE pending.base
              of == IF first THEN Base(builder.spec) ELSE pending.of
  <2>1. PICK auto \in BOOLEAN :
           pending' = Revision(Staged(now + 1, Previous, auto), now + 1,
                               base, of)
    BY <1>7 DEF Stage
  <2>. DEFINE s == Staged(now + 1, Previous, auto)
  <2>2. /\ enabled /\ Stamp
        /\ UNCHANGED <<needs, routines, builder, versions, running, enabled,
                       desk, raced, conn, edits, requests>>
    BY <1>7 DEF Stage
  <2>3. s \in Specs /\ ("connection" \notin needs => Bare(s))
    BY <1>3, <1>5, <2>2
  <2>4. base \in Stamps /\ of \in Bases \cup {NoSpec}
        /\ base <= now /\ base \in Nat
    BY <1>2, <1>6 DEF Stamps
  <2> HIDE DEF s
  <2>5. /\ pending' \in Revisions /\ pending'.spec = s
        /\ pending'.base = base /\ pending'.of = of
        /\ pending'.at = now + 1
    BY <1>4, <2>1, <2>2, <2>3, <2>4, RevisionType DEF s
  <2>6. base <= now'
    BY <1>2, <1>4, <2>2, <2>4
  <2>7. Rests
    BY <2>2, <2>5 DEF Rests
  <2> HIDE DEF base, of
  <2> QED
    BY <1>1, <1>4, <2>2, <2>3, <2>5, <2>6, <2>7, RevisionKeepsInv
       DEF Types, Valid
<1>8. CASE Rebuild
  <2>1. PICK auto \in BOOLEAN :
           pending' = [Cleared(pending) EXCEPT
                           !.spec = Staged(now + 1, Previous, auto),
                           !.at = now + 1]
    BY <1>8 DEF Rebuild
  <2>. DEFINE s == Staged(now + 1, Previous, auto)
  <2>2. /\ pending # NoRevision /\ Stamp
        /\ UNCHANGED <<needs, routines, builder, versions, running, enabled,
                       desk, raced, conn, edits, requests>>
    BY <1>8 DEF Rebuild
  <2>3. s \in Specs /\ ("connection" \notin needs => Bare(s))
    BY <1>3, <1>5, <2>2
  <2>4. /\ Cleared(pending) \in Revisions
        /\ Cleared(pending).base = pending.base
        /\ Cleared(pending).of = pending.of
    BY <1>6, <2>2, ClearedType
  <2> HIDE DEF s
  <2>5. /\ pending' \in Revisions /\ pending'.spec = s
        /\ pending'.base = pending.base /\ pending'.of = pending.of
        /\ pending'.at = now + 1
    BY <1>4, <2>1, <2>2, <2>3, <2>4 DEF s, Revisions
  <2>6. pending'.base <= now'
    BY <1>2, <1>4, <1>6, <2>2, <2>5
  <2>7. Rests
    BY <2>2, <2>5 DEF Rests
  <2> QED
    BY <1>1, <1>4, <2>2, <2>3, <2>5, <2>6, <2>7, RevisionKeepsInv
       DEF Types, Valid
<1>9. CASE Discard
  <2>1. Rests
    BY <1>9 DEF Discard, Rests
  <2> QED
    BY <1>1, <1>9, <2>1, RevisionKeepsInv DEF Discard, Types, Valid, Stamps
<1>10. ASSUME NEW i \in DOMAIN versions, StageVersion(versions[i])
       PROVE  Advances
  <2>. DEFINE v == versions[i]
              of == Base(builder.spec)
  <2>1. /\ v.spec \in Specs \cup {NoSpec}
        /\ "connection" \notin needs => Bare(v.spec)
    <3>1. v \in Versions
      BY <1>1, <1>10 DEF Types
    <3> QED
      BY <1>1, <1>10, <3>1 DEF Versions, Unneeded
  <2>2. /\ enabled
        /\ UNCHANGED <<needs, routines, builder, versions, running, enabled,
                       desk, raced, conn, edits, requests>>
    BY <1>10 DEF StageVersion
  <2>3. PICK s \in Specs \cup {NoSpec}, at \in Stamps :
           /\ pending' = Revision(s, at, builder.at, of)
           /\ (Stamp \/ UNCHANGED now) /\ at <= now'
           /\ "connection" \notin needs => Bare(s)
    <3>1. CASE /\ Stamp
               /\ \E auto \in BOOLEAN :
                    pending' = Revision(IF v.spec # NoSpec THEN v.spec
                                   ELSE Staged(now + 1, builder.spec, auto),
                                   now + 1, builder.at, of)
      <4>1. PICK auto \in BOOLEAN :
               pending' = Revision(IF v.spec # NoSpec THEN v.spec
                                   ELSE Staged(now + 1, builder.spec, auto),
                                   now + 1, builder.at, of)
        BY <3>1
      <4>2. /\ Staged(now + 1, builder.spec, auto) \in Specs
            /\ "connection" \notin needs =>
                  Bare(Staged(now + 1, builder.spec, auto))
        BY <1>1, <1>2, <1>5, <3>1 DEF Unneeded
      <4>3. now + 1 \in Stamps /\ now + 1 <= now'
        BY <1>4, <3>1
      <4>4. CASE v.spec # NoSpec
        <5>1. pending' = Revision(v.spec, now + 1, builder.at, of)
          BY <4>1, <4>4
        <5> QED
          BY <2>1, <3>1, <4>3, <5>1
      <4>5. CASE v.spec = NoSpec
        <5>1. pending' = Revision(Staged(now + 1, builder.spec, auto),
                                  now + 1, builder.at, of)
          BY <4>1, <4>5
        <5> QED
          BY <3>1, <4>2, <4>3, <5>1
      <4> QED
        BY <4>4, <4>5
    <3>2. CASE /\ pending' = Revision(NoSpec, 0, builder.at, of)
               /\ UNCHANGED now
      <4>1. 0 <= now'
        BY <1>2, <3>2
      <4> QED
        BY <3>2, <4>1, ZeroStamp DEF Bare
    <3> QED
      BY <1>10, <3>1, <3>2 DEF StageVersion
  <2>4. /\ pending' \in Revisions /\ pending'.spec = s
        /\ pending'.base = builder.at /\ pending'.of = of
        /\ pending'.at = at
    <3>1. of \in Bases \cup {NoSpec} /\ builder.at \in Stamps
      BY <1>2
    <3> HIDE DEF of
    <3> QED
      BY <2>3, <3>1, RevisionType
  <2>5. /\ now' \in Stamps /\ now <= now' /\ builder.at <= now'
        /\ at <= now'
    <3>1. now' \in Stamps /\ now <= now' /\ now' \in Nat /\ at <= now'
      BY <1>1, <1>4, <2>3 DEF Types, Stamps
    <3>2. builder.at \in Nat
      BY <1>2 DEF Stamps
    <3> QED
      BY <1>2, <3>1, <3>2
  <2>6. Rests
    BY <2>2, <2>4 DEF Rests
  <2> QED
    BY <1>1, <2>2, <2>3, <2>4, <2>5, <2>6, RevisionKeepsInv
       DEF Types, Valid
<1> QED
  BY <1>7, <1>8, <1>9, <1>10

\* The employee goes live, with the stored build or with a revision, or is
\* paused.
LEMMA LaunchSteps ==
    ASSUME BuilderInv, Launch \/ Deactivate \/ Apply
    PROVE  Advances
<1> USE DEF history, settings
<1>1. Types /\ Reads /\ Unneeded
  BY DEF BuilderInv
<1>2. now \in Nat
  BY <1>1 DEF Types, Stamps
<1>3. CASE Launch \/ Deactivate
  <2>1. UNCHANGED <<needs, routines, builder, pending, versions, running,
                    conn, now, desk, raced, edits, requests>>
    BY <1>3 DEF Launch, Deactivate
  <2>2. /\ enabled' \in BOOLEAN
        /\ enabled' => Ready(builder.spec)
    BY <1>3 DEF Launch, Deactivate
  <2>3. Types' /\ Reads' /\ Unneeded'
    BY <1>1, <1>2, <2>1, <2>2, ReadsStay DEF Types, Dated, Unneeded
  <2>4. Permits /\ Dates /\ Rests
    <3>1. Base(builder'.spec) = Base(builder.spec)
      BY <2>1
    <3> QED
      BY <2>1, <3>1 DEF Permits, Dates, Rests
  <2>5. Serves
    <3>1. enabled' => \/ "connection" \in needs
                      \/ builder.spec.link = 0
      BY <1>1, <2>2 DEF Unneeded, Bare, Ready
    <3> QED
      BY <2>1, <2>2, <3>1 DEF Serves, Ready, Valid, Conns
  <2> QED
    BY <2>1, <2>3, <2>4, <2>5, InvFromStep
<1>4. CASE Apply
  <2>. DEFINE a == [builder EXCEPT !.at = pending.at,
                                   !.tested = pending.tested]
              b == Stored(a, pending.spec)
  <2>1. /\ pending \in Revisions /\ pending.spec # NoSpec
        /\ pending.spec \in Specs /\ pending.at # 0
    BY <1>1, <1>4 DEF Apply, Types, Tested, Revisions
  <2>2. /\ a \in Builds /\ a.owner = builder.owner
        /\ a.at = pending.at
    BY <1>1, <2>1 DEF Types, Builds, Revisions
  <2>3. /\ pending # NoRevision /\ Ready(b.spec) /\ Replace(b)
        /\ Snapshot /\ pending' = NoRevision
        /\ UNCHANGED <<needs, routines, enabled, conn, now, desk, raced,
                       edits, requests>>
    BY <1>4 DEF Apply
  <2> HIDE DEF a
  <2>4. /\ b \in Builds /\ b.spec \in Specs /\ b.spec # NoSpec
        /\ b.owner = builder.owner /\ b.at = pending.at
        /\ b.spec.auto <=> builder.owner = "automatic"
        /\ b.spec.link # pending.spec.link => "connection" \in needs
    BY <2>1, <2>2, StoredType
  <2>5. builder' = b /\ running' = b.spec
    BY <2>3 DEF Replace
  <2> HIDE DEF b
  <2>6. /\ versions' \in Seq(Versions) /\ Len(versions') <= HistoryLimit
        /\ \A i \in DOMAIN versions' :
              \/ versions'[i].spec = builder.spec
              \/ \E j \in DOMAIN versions :
                    versions'[i].spec = versions[j].spec
    BY <1>1, <2>3, SnapshotType DEF Types
  <2>7. Types'
    BY <1>1, <2>3, <2>4, <2>5, <2>6 DEF Types, Dated
  <2>8. Reads'
    BY <1>1, <1>2, <2>3, ReadsStay
  <2>9. "connection" \notin needs => Bare(b.spec)
    BY <1>1, <2>1, <2>3, <2>4 DEF Unneeded, Bare
  <2>10. Unneeded'
    BY <1>1, <2>3, <2>5, <2>6, <2>9 DEF Unneeded, Bare
  <2>11. Permits /\ Dates /\ Rests
    BY <2>1, <2>3, <2>4, <2>5 DEF Permits, Dates, Rests
  <2>12. Serves
    BY <2>3, <2>4, <2>5, <2>9 DEF Serves, Ready, Valid, Conns, Bare
  <2> QED
    BY <2>3, <2>7, <2>8, <2>10, <2>11, <2>12, InvFromStep
<1> QED
  BY <1>3, <1>4

-----------------------------------------------------------------------------
(* Trials, setup and connected systems.                                    *)

\* A trial of the revision or of the stored build.
LEMMA PreviewStep ==
    ASSUME BuilderInv, NEW r \in Routines, Preview(r)
    PROVE  Advances
<1> USE DEF history, settings
<1>1. Types /\ Reads /\ Unneeded
  BY DEF BuilderInv
<1>2. now \in Nat /\ now <= now'
  BY <1>1 DEF Types, Stamps, Preview
<1>3. UNCHANGED <<needs, routines, enabled, versions, conn, now, desk, raced,
                  edits, requests>>
  BY DEF Preview
<1>4. CASE Staging
  <2>1. /\ pending \in Revisions /\ pending # NoRevision
        /\ pending' = Recorded(pending, r)
        /\ UNCHANGED <<builder, running>>
    BY <1>1, <1>4 DEF Types, Staging, Preview, Target, Save
  <2>2. /\ pending' \in Revisions /\ pending'.spec = pending.spec
        /\ pending'.at = pending.at
        /\ pending'.base = pending.base /\ pending'.of = pending.of
    BY <2>1, RecordedType
  <2>3. Rests
    BY <2>1, <2>2 DEF Rests
  <2> QED
    BY <1>1, <1>2, <1>3, <2>1, <2>2, <2>3, RevisionKeepsInv
       DEF Types, Dated, Valid, Unneeded
<1>5. CASE ~Staging
  <2>1. /\ builder \in Builds /\ builder.spec # NoSpec
        /\ builder' = Recorded(builder, r)
        /\ UNCHANGED <<pending, running>>
    BY <1>1, <1>5 DEF Types, Preview, Target, Save
  <2>2. /\ builder' \in Builds /\ builder'.spec = builder.spec
        /\ builder'.at = builder.at /\ builder'.owner = builder.owner
    BY <2>1, RecordedType
  <2>3. Permits /\ Dates /\ Serves
    BY <1>3, <2>1, <2>2 DEF Permits, Dates, Serves, Valid
  <2> QED
    BY <1>1, <1>2, <1>3, <2>1, <2>2, <2>3, StoreKeepsInv
       DEF Types, Unneeded
<1> QED
  BY <1>4, <1>5

\* The target gets a connected system or the answer it lacks.
LEMMA AmendKeepsInv ==
    ASSUME BuilderInv, NEW s \in Specs, MayAmend, Amend(s),
           s.id = Target.spec.id, s.auto = Target.spec.auto,
           \/ s.answer = Target.spec.answer /\ s.open = Target.spec.open
           \/ Target.spec.open /\ (s.open <=> "context" \in needs),
           "connection" \notin needs => UNCHANGED conn /\ Bare(s),
           conn' \in [Conns -> [state : States, edition : Nat]],
           Valid \subseteq Valid',
           UNCHANGED <<needs, routines, enabled, versions, now, desk, raced,
                       edits, requests>>
    PROVE  Advances
<1>1. Types /\ Reads /\ Unneeded
  BY DEF BuilderInv
<1>2. now \in Nat /\ now <= now'
  BY <1>1 DEF Types, Stamps
<1>3. CASE Staging
  <2>. DEFINE p == [Cleared(pending) EXCEPT !.spec = s]
  <2>1. /\ pending \in Revisions /\ pending # NoRevision
        /\ pending' = p
        /\ UNCHANGED <<builder, running>>
    BY <1>1, <1>3 DEF Types, Staging, Amend
  <2>2. /\ p \in Revisions /\ p.spec = s /\ p.at = pending.at
        /\ p.base = pending.base /\ p.of = pending.of
    BY <2>1, ClearedType, WithSpec
  <2> HIDE DEF p
  <2>3. Rests
    BY <2>1, <2>2 DEF Rests
  <2> QED
    BY <1>1, <1>2, <2>1, <2>2, <2>3, RevisionKeepsInv
       DEF Types, Dated
<1>4. CASE ~Staging
  <2>. DEFINE b == [Cleared(builder) EXCEPT !.spec = s]
  <2>1. /\ builder \in Builds /\ builder.spec # NoSpec /\ ~enabled
        /\ Target = builder /\ Provision(b) /\ UNCHANGED pending
    BY <1>1, <1>4 DEF Types, Staging, Amend, MayAmend, Target
  <2>2. /\ b \in Builds /\ b.spec = s /\ b.at = builder.at
        /\ b.owner = builder.owner
    BY <2>1, ClearedType, WithSpec
  <2> HIDE DEF b
  <2>3. /\ builder' = b /\ running' \in Specs /\ running' # NoSpec
        /\ running'.auto = s.auto
    BY <1>1, <2>1, <2>2, ProvisionType DEF Types
  <2>4. ~raced => Permits
    BY <2>1, <2>2, <2>3 DEF BuilderInv, Granted, Permits
  <2>5. Dates /\ Serves
    <3>1. /\ builder.spec \in Specs /\ s \in Specs /\ s # NoSpec
          /\ Target.spec = builder.spec /\ builder'.spec = s
          /\ builder'.at = builder.at /\ ~enabled'
      BY <2>1, <2>2, <2>3, NoneAssumption DEF Builds
    <3>2. /\ Base(s) = [id |-> s.id, answer |-> s.answer,
                        open |-> s.open, auto |-> s.auto]
          /\ Base(builder.spec) =
                [id |-> builder.spec.id, answer |-> builder.spec.answer,
                 open |-> builder.spec.open, auto |-> builder.spec.auto]
      BY <2>1, <3>1 DEF Base
    <3>3. \/ Base(s) = Base(builder.spec)
          \/ "context" \notin needs /\ builder.spec.open
          \/ Reanswered(Base(builder.spec), s)
      <4>1. CASE s.answer = Target.spec.answer /\ s.open = Target.spec.open
        BY <3>1, <3>2, <4>1
      <4>2. CASE /\ Target.spec.open /\ s.open /\ "context" \in needs
        <5>1. s.open = builder.spec.open
          <6>1. s.open \in BOOLEAN /\ builder.spec.open \in BOOLEAN
            BY <3>1 DEF Specs
          <6> QED
            BY <3>1, <4>2, <6>1
        <5>2. Base(s) = [Base(builder.spec) EXCEPT !.answer = s.answer]
          BY <3>1, <3>2, <5>1
        <5>3. Base(builder.spec) # NoSpec
          <6>1. Base(builder.spec) \in Bases
            BY <3>1, <3>2 DEF Specs, Bases
          <6> QED
            BY <6>1, NoneAssumption
        <5> QED
          BY <3>1, <4>2, <5>2, <5>3 DEF Reanswered
      <4> QED
        BY <3>1, <4>1, <4>2
    <3> QED
      BY <2>1, <3>1, <3>3 DEF Dates, Serves
  <2> QED
    BY <1>1, <1>2, <2>1, <2>2, <2>3, <2>4, <2>5, StoreKeepsInv DEF Types
<1> QED
  BY <1>3, <1>4

LEMMA TargetType ==
    ASSUME Types, Target.spec # NoSpec
    PROVE  /\ Target.spec \in Specs
           /\ Unneeded /\ "connection" \notin needs => Bare(Target.spec)
  BY DEF Types, Target, Staging, Builds, Revisions, Unneeded

LEMMA SetupSteps ==
    ASSUME BuilderInv,
           \/ \E answer \in Answers : SaveAnswer(answer)
           \/ \E c \in Conns : Bind(c) \/ ProvideAccess(c)
    PROVE  Advances
<1> USE DEF history
<1>1. Types /\ Unneeded
  BY DEF BuilderInv
<1>2. ASSUME NEW answer \in Answers, SaveAnswer(answer)
      PROVE  Advances
  <2>. DEFINE a == [Target.spec EXCEPT !.answer = answer]
              s == [a EXCEPT !.open = "context" \in needs]
  <2>1. /\ Target.spec \in Specs
        /\ "connection" \notin needs => Bare(Target.spec)
    BY <1>1, <1>2, TargetType DEF SaveAnswer, MayAmend
  <2>2. /\ s \in Specs /\ s.id = Target.spec.id
        /\ s.auto = Target.spec.auto /\ s.link = Target.spec.link
        /\ s.open <=> "context" \in needs
    <3>1. /\ a \in Specs /\ a.id = Target.spec.id
          /\ a.auto = Target.spec.auto /\ a.link = Target.spec.link
      BY <2>1 DEF Specs, Given
    <3>2. ("context" \in needs) \in BOOLEAN
      OBVIOUS
    <3> HIDE DEF a
    <3> QED
      BY <3>1, <3>2 DEF Specs
  <2>3. "connection" \notin needs => Bare(s)
    BY <2>1, <2>2, NoneAssumption DEF Bare
  <2>4. MayAmend /\ Amend(s) /\ Target.spec.open
    BY <1>2 DEF SaveAnswer
  <2> HIDE DEF s
  <2> QED
    BY <1>1, <1>2, <2>2, <2>3, <2>4, AmendKeepsInv
       DEF SaveAnswer, Types, Valid
<1>3. ASSUME NEW c \in Conns, Bind(c)
      PROVE  Advances
  <2>. DEFINE s == [Target.spec EXCEPT !.link = c]
  <2>1. Target.spec \in Specs
    BY <1>1, <1>3, TargetType DEF Bind, MayAmend
  <2>2. /\ s \in Specs /\ s.id = Target.spec.id
        /\ s.auto = Target.spec.auto /\ s.answer = Target.spec.answer
        /\ s.open = Target.spec.open
    BY <2>1, <1>3 DEF Specs
  <2>3. MayAmend /\ Amend(s)
    BY <1>3 DEF Bind
  <2> HIDE DEF s
  <2> QED
    BY <1>1, <1>3, <2>2, <2>3, AmendKeepsInv DEF Bind, Types, Valid
<1>4. ASSUME NEW c \in Conns, ProvideAccess(c)
      PROVE  Advances
  <2>. DEFINE s == [Target.spec EXCEPT !.link = c]
  <2>1. Target.spec \in Specs
    BY <1>1, <1>4, TargetType DEF ProvideAccess, MayAmend
  <2>2. /\ s \in Specs /\ s.id = Target.spec.id
        /\ s.auto = Target.spec.auto /\ s.answer = Target.spec.answer
        /\ s.open = Target.spec.open
    BY <2>1, <1>4 DEF Specs
  <2>3. MayAmend /\ Amend(s)
    BY <1>4 DEF ProvideAccess
  <2> HIDE DEF s
  <2>4. /\ conn' \in [Conns -> [state : States, edition : Nat]]
        /\ Valid \subseteq Valid'
    BY <1>1, <1>4 DEF ProvideAccess, Types, States, Valid
  <2> QED
    BY <1>1, <1>4, <2>2, <2>3, <2>4, AmendKeepsInv
       DEF ProvideAccess, Types
<1> QED
  BY <1>2, <1>3, <1>4

\* Steps that leave the settings alone: connected systems, and what an
\* endpoint reads.
LEMMA ConnectionSteps ==
    ASSUME BuilderInv,
           \/ \E c \in Conns : CreateConnection(c) \/ Validate(c)
                                  \/ Authorize(c)
           \/ \E c \in Conns : BeginEdit(c) \/ BeginDelete(c)
                                  \/ BeginCallback(c)
           \/ BeginFreeTest \/ GiveUp
    PROVE  Advances
<1> USE DEF history, settings
<1>1. Types /\ Reads /\ Unneeded
  BY DEF BuilderInv
<1>2. UNCHANGED <<needs, routines, enabled, builder, pending, versions,
                  running, now, raced, edits, requests>>
  BY DEF CreateConnection, Validate, Authorize, BeginEdit, BeginDelete,
         BeginCallback, BeginFreeTest, GiveUp, Read
<1>3. SUFFICES Types' /\ Reads' /\ Unneeded' /\ Valid \subseteq Valid'
  <2>1. Permits /\ Dates /\ Rests
    BY <1>2 DEF Permits, Dates, Rests
  <2>2. Serves \/ raced
    <3>1. ~raced /\ enabled => builder.spec # NoSpec
      BY DEF BuilderInv, Live
    <3> QED
      BY <1>2, <1>3, <3>1 DEF Serves
  <2> QED
    BY <1>2, <1>3, <2>1, <2>2, InvFromStep
<1>4. ASSUME NEW c \in Conns,
             CreateConnection(c) \/ Validate(c) \/ Authorize(c)
      PROVE  Types' /\ Reads' /\ Unneeded' /\ Valid \subseteq Valid'
  <2>1. UNCHANGED desk
    BY <1>4 DEF CreateConnection, Validate, Authorize
  <2>2. /\ conn' \in [Conns -> [state : States, edition : Nat]]
        /\ Valid \subseteq Valid'
    <3>1. CASE CreateConnection(c)
      BY <1>1, <3>1 DEF CreateConnection, Unused, Types, States, Valid
    <3>2. CASE Validate(c)
      BY <1>1, <3>2 DEF Validate, Types, States, Valid
    <3>3. CASE Authorize(c)
      <4>1. /\ conn' = [d \in Conns |->
                   IF d = c THEN [conn[d] EXCEPT !.state = "open"]
                   ELSE IF conn[d].state = "open"
                        THEN [conn[d] EXCEPT !.state = "gone"] ELSE conn[d]]
            /\ conn[c].state = "none"
        BY <3>3 DEF Authorize, Unused
      <4>2. \A d \in Conns : conn[d] \in [state : States, edition : Nat]
        BY <1>1 DEF Types
      <4>3. \A d \in Conns : conn'[d] \in [state : States, edition : Nat]
        BY <4>1, <4>2 DEF States
      <4>4. \A d \in Conns : conn[d].state = "valid" => conn'[d] = conn[d]
        BY <4>1
      <4> QED
        BY <4>1, <4>3, <4>4 DEF Valid
    <3> QED
      BY <1>4, <3>1, <3>2, <3>3
  <2>3. "connection" \notin needs => FALSE
    BY <1>1, <1>4
       DEF CreateConnection, Validate, Authorize, Unneeded
  <2> QED
    BY <1>1, <1>2, <2>1, <2>2, <2>3 DEF Types, Dated, Reads, Unneeded
<1>5. ASSUME UNCHANGED conn,
             \/ desk' = Idle
             \/ \E k \in {"edit", "delete", "callback", "chat"},
                   c \in {0} \cup Conns :
                   /\ desk' = [kind |-> k, conn |-> c, builder |-> builder,
                               pending |-> pending, enabled |-> enabled]
                   /\ k # "chat" => c \in Conns /\ conn[c].state # "none"
                   /\ k = "callback" => Target.spec # NoSpec
                   /\ k \in {"edit", "delete"} =>
                         ~(enabled /\ LiveUses(c))
      PROVE  Types' /\ Reads' /\ Unneeded' /\ Valid \subseteq Valid'
  <2>1. Types'
    BY <1>1, <1>2, <1>5 DEF Types, Dated
  <2>2. CASE desk' = Idle
    BY <1>1, <1>2, <1>5, <2>1, <2>2 DEF Reads, Unneeded, Valid
  <2>3. CASE desk' # Idle
    <3>1. PICK k \in {"edit", "delete", "callback", "chat"},
                   c \in {0} \cup Conns :
                   /\ desk' = [kind |-> k, conn |-> c, builder |-> builder,
                               pending |-> pending, enabled |-> enabled]
                   /\ k # "chat" => c \in Conns /\ conn[c].state # "none"
                   /\ k = "callback" => Target.spec # NoSpec
                   /\ k \in {"edit", "delete"} =>
                         ~(enabled /\ LiveUses(c))
      BY <1>5, <2>3
    <3>2. /\ desk' \in Desks /\ desk'.kind = k /\ desk'.conn = c
          /\ desk'.builder = builder /\ desk'.pending = pending
          /\ desk'.enabled = enabled
      BY <1>1, <3>1 DEF Types, Desks
    <3>3. Reads'
      BY <1>1, <1>2, <3>1, <3>2
         DEF Reads, Types, Dated, Target, Staging, LiveUses, Uses
    <3>4. Unneeded'
      BY <1>1, <1>2, <1>5, <3>1, <3>2 DEF Unneeded
    <3> QED
      BY <1>5, <2>1, <3>3, <3>4 DEF Valid
  <2> QED
    BY <2>2, <2>3
<1>6. ASSUME NEW c \in Conns, BeginEdit(c)
      PROVE  Types' /\ Reads' /\ Unneeded' /\ Valid \subseteq Valid'
  BY <1>5, <1>6 DEF BeginEdit, Read, MayEdit
<1>7. ASSUME NEW c \in Conns, BeginDelete(c)
      PROVE  Types' /\ Reads' /\ Unneeded' /\ Valid \subseteq Valid'
  BY <1>5, <1>7 DEF BeginDelete, Read
<1>8. ASSUME NEW c \in Conns, BeginCallback(c)
      PROVE  Types' /\ Reads' /\ Unneeded' /\ Valid \subseteq Valid'
  BY <1>5, <1>8 DEF BeginCallback, Read
<1>9. CASE BeginFreeTest \/ GiveUp
  BY <1>5, <1>9 DEF BeginFreeTest, GiveUp, Read
<1> QED
  BY <1>4, <1>6, <1>7, <1>8, <1>9

-----------------------------------------------------------------------------
(* An endpoint writes back what it read.                                   *)

LEMMA UntestedType ==
    ASSUME NEW c
    PROVE  /\ \A b \in Builds :
                 /\ Untested(b, c) \in Builds
                 /\ Untested(b, c).spec = b.spec /\ Untested(b, c).at = b.at
                 /\ Untested(b, c).owner = b.owner
           /\ \A b \in Revisions : b # NoRevision =>
                 /\ Untested(b, c) \in Revisions
                 /\ Untested(b, c).spec = b.spec /\ Untested(b, c).at = b.at
                 /\ Untested(b, c).base = b.base /\ Untested(b, c).of = b.of
           /\ Untested(NoRevision, c) = NoRevision
  BY ZeroStamp DEF Untested, Builds, Revisions

\* The endpoint ends with b for the build and p for the revision.
LEMMA EndKeepsInv ==
    ASSUME BuilderInv, Ends, desk # Idle, edits' \in Nat,
           NEW b \in Builds, builder' = b, b.at <= now,
           NEW p \in {NoRevision} \cup Revisions, pending' = p, Dated(p),
           "connection" \notin needs =>
               /\ UNCHANGED conn /\ Bare(b.spec)
               /\ p # NoRevision => Bare(p.spec),
           running' \in Specs \cup {NoSpec},
           conn' \in [Conns -> [state : States, edition : Nat]],
           ~raced' => Permits /\ Dates /\ Serves /\ Rests
    PROVE  Advances
<1>1. Types /\ Reads /\ Unneeded
  BY DEF BuilderInv
<1>2. /\ desk' = Idle /\ requests' = requests + 1
      /\ raced' = (raced \/ Overtaken)
      /\ UNCHANGED <<needs, routines, enabled, versions, now>>
  BY DEF Ends
<1>3. raced' \in BOOLEAN /\ (raced => raced')
  BY <1>2
<1>4. Types'
  BY <1>1, <1>2, <1>3 DEF Types, Dated
<1>5. Reads' /\ Unneeded'
  BY <1>1, <1>2 DEF Reads, Unneeded
<1> QED
  BY <1>2, <1>3, <1>4, <1>5, InvFromStep

LEMMA CommitSteps ==
    ASSUME BuilderInv,
           CommitEdit \/ CommitDelete \/ CommitCallback \/ CommitFreeTest
    PROVE  Advances
<1>1. Types /\ Reads /\ Unneeded
  BY DEF BuilderInv
<1>2. desk # Idle /\ Ends
  BY DEF CommitEdit, CommitDelete, CommitCallback, CommitFreeTest
<1>3. /\ desk \in Desks /\ desk.builder \in Builds
      /\ desk.pending \in {NoRevision} \cup Revisions
      /\ desk.builder.at <= now /\ Dated(desk.pending)
      /\ builder \in Builds /\ pending \in {NoRevision} \cup Revisions
      /\ builder.at <= now /\ Dated(pending)
  BY <1>1, <1>2 DEF Reads, Desks, Types
<1>4. /\ raced' = (raced \/ Overtaken)
      /\ UNCHANGED <<needs, routines, enabled, versions, now>>
  BY <1>2 DEF Ends
<1>5. ~raced' => /\ desk.builder = builder /\ desk.pending = pending
                 /\ desk.enabled = enabled /\ ~raced
  BY <1>2, <1>4 DEF Overtaken
<1>6. "connection" \notin needs =>
         /\ Bare(desk.builder.spec)
         /\ desk.pending # NoRevision => Bare(desk.pending.spec)
         /\ Bare(builder.spec)
         /\ pending # NoRevision => Bare(pending.spec)
         /\ desk.kind = "chat"
  BY <1>1, <1>2 DEF Unneeded
<1>7. ~raced /\ enabled => builder.spec # NoSpec
  BY DEF BuilderInv, Live
<1>8. running \in Specs \cup {NoSpec} /\ edits \in Nat
      /\ conn \in [Conns -> [state : States, edition : Nat]]
  BY <1>1 DEF Types
\* The build and the revision are what was read, but for their evidence.
<1>9. ASSUME UNCHANGED running, edits' \in Nat,
             builder' \in Builds, builder'.at <= now,
             pending' \in {NoRevision} \cup Revisions, Dated(pending'),
             conn' \in [Conns -> [state : States, edition : Nat]],
             "connection" \notin needs =>
                 /\ UNCHANGED conn /\ Bare(builder'.spec)
                 /\ pending' # NoRevision => Bare(pending'.spec),
             ~raced' =>
                 /\ builder'.spec = builder.spec /\ builder'.at = builder.at
                 /\ builder'.owner = builder.owner
                 /\ pending' # NoRevision =>
                       /\ pending # NoRevision
                       /\ pending'.base = pending.base
                       /\ pending'.of = pending.of
                 /\ enabled /\ builder.spec.link \in Valid =>
                       builder.spec.link \in Valid'
      PROVE  Advances
  <2>1. ~raced' => Permits /\ Dates /\ Serves /\ Rests
    BY <1>4, <1>5, <1>7, <1>9 DEF Permits, Dates, Serves, Rests
  <2> QED
    BY <1>2, <1>8, <1>9, <2>1, EndKeepsInv
<1>10. CASE CommitEdit
  <2>. DEFINE b == Untested(desk.builder, desk.conn)
              p == Untested(desk.pending, desk.conn)
  <2>1. /\ b \in Builds /\ b.spec = desk.builder.spec
        /\ b.at = desk.builder.at /\ b.owner = desk.builder.owner
    BY <1>3, UntestedType
  <2>2. desk.pending = NoRevision => p = NoRevision
    BY UntestedType
  <2>3. desk.pending # NoRevision =>
           /\ p \in Revisions /\ p.spec = desk.pending.spec
           /\ p.at = desk.pending.at /\ p.base = desk.pending.base
           /\ p.of = desk.pending.of
    BY <1>3, UntestedType
  <2>4. \/ builder' = b /\ pending' = p
        \/ UNCHANGED <<builder, pending>>
    BY <1>10 DEF CommitEdit
  <2>5. /\ desk.kind = "edit" /\ UNCHANGED running
        /\ conn' = [conn EXCEPT ![desk.conn] =
                       [state |-> "added", edition |-> @.edition + 1]]
        /\ edits' = edits + 1
    BY <1>10 DEF CommitEdit
  <2> HIDE DEF b, p
  <2>6. desk.conn \in Conns
        /\ (desk.enabled => ~Uses(desk.builder, desk.conn))
    BY <1>1, <1>2, <2>5 DEF Reads
  <2>7. conn' \in [Conns -> [state : States, edition : Nat]]
    BY <1>8, <2>5, <2>6 DEF States
  <2>8. "connection" \in needs
    BY <1>6, <2>5
  <2>9. ~raced' /\ enabled /\ builder.spec.link \in Valid =>
           builder.spec.link \in Valid'
    BY <1>5, <1>7, <1>8, <2>5, <2>6 DEF Uses, Valid
  <2> QED
    BY <1>3, <1>5, <1>8, <1>9, <2>1, <2>2, <2>3, <2>4, <2>5, <2>7, <2>8,
       <2>9 DEF Dated
<1>11. CASE CommitDelete
  <2>1. /\ desk.kind = "delete"
        /\ UNCHANGED <<builder, pending, running, edits>>
        /\ conn' = [conn EXCEPT ![desk.conn].state = "gone"]
    BY <1>11 DEF CommitDelete
  <2>2. desk.conn \in Conns
        /\ (desk.enabled => ~Uses(desk.builder, desk.conn))
    BY <1>1, <1>2, <2>1 DEF Reads
  <2>3. conn' \in [Conns -> [state : States, edition : Nat]]
    BY <1>8, <2>1, <2>2 DEF States
  <2>4. ~raced' /\ enabled /\ builder.spec.link \in Valid =>
           builder.spec.link \in Valid'
    BY <1>5, <1>7, <1>8, <2>1, <2>2 DEF Uses, Valid
  <2> QED
    BY <1>3, <1>6, <1>8, <1>9, <2>1, <2>3, <2>4 DEF Dated
<1>12. CASE CommitFreeTest
  <2>1. /\ builder' = Chatted(desk.builder) /\ pending' = desk.pending
        /\ UNCHANGED <<running, conn, edits>>
    BY <1>12 DEF CommitFreeTest
  <2>2. /\ builder' \in Builds /\ builder'.spec = desk.builder.spec
        /\ builder'.at = desk.builder.at
        /\ builder'.owner = desk.builder.owner
    BY <1>3, <2>1, ChattedType
  <2> QED
    BY <1>3, <1>5, <1>6, <1>8, <1>9, <2>1, <2>2 DEF Valid
<1>13. CASE CommitCallback
  <2>1. /\ desk.kind = "callback" /\ UNCHANGED edits
        /\ conn' = [conn EXCEPT ![desk.conn].state = "valid"]
    BY <1>13 DEF CommitCallback
  <2>2. /\ desk.conn \in Conns
        /\ IF desk.enabled /\ desk.pending # NoRevision
           THEN desk.pending.spec # NoSpec
           ELSE desk.builder.spec # NoSpec
    BY <1>1, <1>2, <2>1 DEF Reads
  <2>3. /\ conn' \in [Conns -> [state : States, edition : Nat]]
        /\ desk.conn \in Valid' /\ Valid \subseteq Valid'
    BY <1>8, <2>1, <2>2 DEF States, Valid
  <2>4. "connection" \in needs
    BY <1>6, <2>1
  <2>5. CASE desk.enabled /\ desk.pending # NoRevision
    <3>. DEFINE c == Cleared(desk.pending)
    <3>1. /\ builder' = desk.builder /\ UNCHANGED running
          /\ pending' = [c EXCEPT !.spec.link = desk.conn]
      BY <1>13, <2>5 DEF CommitCallback
    <3>2. /\ c \in Revisions /\ c.spec = desk.pending.spec
          /\ c.at = desk.pending.at /\ c.base = desk.pending.base
          /\ c.of = desk.pending.of
      BY <1>3, <2>5, ClearedType
    <3> HIDE DEF c
    <3>3. c.spec \in Specs
      BY <2>2, <2>5, <3>2 DEF Revisions
    <3>4. [c.spec EXCEPT !.link = desk.conn] \in Specs
      BY <2>2, <3>3 DEF Specs
    <3>5. pending' = [c EXCEPT !.spec =
                                   [c.spec EXCEPT !.link = desk.conn]]
      BY <3>1
    <3>6. /\ pending' \in Revisions /\ pending'.at = c.at
          /\ pending'.base = c.base /\ pending'.of = c.of
      BY <3>2, <3>4, <3>5, WithSpec
    <3> QED
      BY <1>3, <1>5, <1>8, <1>9, <2>1, <2>3, <2>4, <2>5, <3>1, <3>2, <3>6
         DEF Dated
  <2>6. CASE ~(desk.enabled /\ desk.pending # NoRevision)
    <3>. DEFINE c == Cleared(desk.builder)
                b == [c EXCEPT !.spec.link = desk.conn]
                n == [c.spec EXCEPT !.link = desk.conn]
    <3>1. Provision(b) /\ pending' = desk.pending
      BY <1>13, <2>6 DEF CommitCallback
    <3>2. /\ c \in Builds /\ c.spec = desk.builder.spec
          /\ c.at = desk.builder.at /\ c.owner = desk.builder.owner
      BY <1>3, ClearedType
    <3> HIDE DEF c
    <3>3. c.spec \in Specs
      BY <2>2, <2>6, <3>2 DEF Builds
    <3>4. /\ n \in Specs /\ n.id = c.spec.id /\ n.auto = c.spec.auto
          /\ n.answer = c.spec.answer
          /\ n.open = c.spec.open /\ n.link = desk.conn
      BY <2>2, <3>3 DEF Specs
    <3>5. b = [c EXCEPT !.spec = n]
      OBVIOUS
    <3> HIDE DEF b, n
    <3>6. b \in Builds /\ b.spec = n /\ b.at = c.at /\ b.owner = c.owner
      BY <3>2, <3>4, <3>5, WithSpec
    <3>7. /\ builder' = b /\ running' \in Specs /\ running' # NoSpec
          /\ running'.auto = n.auto
      BY <1>8, <3>1, <3>4, <3>6, ProvisionType
    <3>8. ~raced' => Permits /\ Dates /\ Serves /\ Rests
      <4> SUFFICES ASSUME ~raced'
                   PROVE  Permits /\ Dates /\ Serves /\ Rests
        OBVIOUS
      <4>1. /\ builder.spec # NoSpec
            /\ n.auto <=> builder.owner = "automatic"
        BY <1>5, <2>2, <2>6, <3>2, <3>4 DEF BuilderInv, Granted
      <4>2. Permits
        BY <1>5, <3>2, <3>6, <3>7, <4>1 DEF Permits
      <4>3. Base(n) = Base(builder.spec)
        BY <1>5, <3>2, <3>4, <4>1, NoneAssumption DEF Base
      <4>4. Dates
        BY <1>5, <3>2, <3>4, <3>6, <3>7, <4>1, <4>3, NoneAssumption
           DEF Dates
      <4>5. Serves
        BY <1>4, <1>5, <2>3, <3>2, <3>4, <3>6, <3>7, NoneAssumption
           DEF Serves
      <4>6. Rests
        BY <1>5, <3>1 DEF Rests
      <4> QED
        BY <4>2, <4>4, <4>5, <4>6
    <3> QED
      BY <1>2, <1>3, <1>8, <2>1, <2>3, <2>4, <3>1, <3>2, <3>6, <3>7, <3>8,
         EndKeepsInv
  <2> QED
    BY <2>5, <2>6
<1> QED
  BY <1>10, <1>11, <1>12, <1>13

-----------------------------------------------------------------------------
(* Trials.  The operators take the state they speak of as arguments: the   *)
(* routines, the trials seen and the rows of connected systems.            *)

EditionIn(spec, rows) == IF spec.link = 0 THEN 0 ELSE rows[spec.link].edition

TrialsOf(rs) == IF rs = {} THEN {"chat"} ELSE rs

Seen(spec, t, seen) ==
    \E e \in 0 .. MaxEdits : <<Body(spec), e, t>> \in seen

\* Every trial was made with the build, one with its system as it is now.
Proven(spec, rs, seen, rows) ==
    /\ \A t \in TrialsOf(rs) : Seen(spec, t, seen)
    /\ \E t \in TrialsOf(rs) :
          <<Body(spec), EditionIn(spec, rows), t>> \in seen

\* The evidence a build or a revision holds is that of trials made with it.
Backed(b, rs, seen, rows) ==
    b.spec # NoSpec =>
        /\ b.at # 0
        /\ \A r \in rs : b.evidence[r] = b.at => Seen(b.spec, r, seen)
        /\ b.tested = b.at => Proven(b.spec, rs, seen, rows)

\* A compiled_at in the evidence is not in the future, and never that of the
\* staged revision unless the revision holds it.
Apart ==
    /\ builder.tested <= now /\ \A r \in Routines : builder.evidence[r] <= now
    /\ pending # NoRevision =>
          /\ pending.tested <= now
          /\ pending.at # 0 =>
                /\ pending.at # builder.at
                /\ \A r \in Routines : builder.evidence[r] # pending.at

\* A connected system is edited no more often than edits are counted.
Counted ==
    /\ edits <= MaxEdits
    /\ \A c \in Conns : conn[c].edition <= edits
    /\ desk # Idle /\ desk.kind = "edit" => edits < MaxEdits

LiveTried ==
    enabled /\ Body(builder.spec) \notin waived =>
        Proven(builder.spec, routines, previewed, conn)

TrialInv ==
    /\ Counted
    /\ ~raced =>
          /\ Apart /\ LiveTried
          /\ Backed(builder, routines, previewed, conn)
          /\ pending # NoRevision =>
                Backed(pending, routines, previewed, conn)

\* A trial of a build that may yet go live is not forgotten.
Remember == \A x \in previewed : x[1] \in Known => x \in previewed'

SameEditions == \A c \in Conns : conn'[c].edition = conn[c].edition

LEMMA TriedRemembers ==
    ASSUME NEW spec, NEW t, Tried(spec, t)
    PROVE  /\ Remember
           /\ spec # NoSpec /\ t \in Trials => Trial(spec, t) \in previewed'
  BY DEF Tried, Remember

LEMMA StoredIsKnown ==
    /\ builder.spec # NoSpec => Body(builder.spec) \in Known
    /\ pending # NoRevision /\ pending.spec # NoSpec =>
          Body(pending.spec) \in Known
  BY DEF Known

\* What is remembered of a build whose trials were remembered.
LEMMA SpecRemembered ==
    ASSUME Remember, NEW spec, Body(spec) \in Known
    PROVE  \A e, t : <<Body(spec), e, t>> \in previewed =>
                        <<Body(spec), e, t>> \in previewed'
<1> SUFFICES ASSUME NEW e, NEW t, <<Body(spec), e, t>> \in previewed
             PROVE  <<Body(spec), e, t>> \in previewed'
  OBVIOUS
<1>1. <<Body(spec), e, t>>[1] = Body(spec)
  OBVIOUS
<1> QED
  BY <1>1 DEF Remember

LEMMA EditionType ==
    ASSUME Types, Counted, NEW spec \in Specs
    PROVE  /\ EditionIn(spec, conn) \in 0 .. MaxEdits
           /\ \A t : Trial(spec, t) = <<Body(spec), EditionIn(spec, conn), t>>
<1>1. spec.link \in {0} \cup Conns
  BY DEF Specs
<1>2. \A c \in Conns : conn[c].edition \in Nat
  BY DEF Types
<1>3. MaxEdits \in Nat /\ edits \in Nat
  BY BuilderAssumption DEF Types
<1> QED
  BY <1>1, <1>2, <1>3 DEF EditionIn, Trial, Edition, Counted

LEMMA EditionKept ==
    ASSUME SameEditions, NEW spec \in Specs
    PROVE  EditionIn(spec, conn') = EditionIn(spec, conn)
<1>1. spec.link \in {0} \cup Conns
  BY DEF Specs
<1> QED
  BY <1>1 DEF EditionIn, SameEditions

-----------------------------------------------------------------------------
(* The evidence of builds.                                                 *)

\* No trial is claimed.
Blank(b, rs) ==
    b.spec # NoSpec =>
        b.at # 0 /\ b.tested # b.at /\ \A r \in rs : b.evidence[r] # b.at

LEMMA BlankIsBacked ==
    ASSUME NEW b, NEW rs, NEW seen, NEW rows, Blank(b, rs)
    PROVE  Backed(b, rs, seen, rows)
  BY DEF Blank, Backed

LEMMA ClearedIsBlank ==
    /\ \A b \in Builds : /\ Cleared(b).tested = 0
                         /\ \A r \in Routines : Cleared(b).evidence[r] = 0
    /\ \A b \in Revisions : /\ Cleared(b).tested = 0
                            /\ \A r \in Routines : Cleared(b).evidence[r] = 0
  BY DEF Cleared, Builds, Revisions, NoEvidence

LEMMA ProvenKept ==
    ASSUME NEW s, NEW u, NEW rs, NEW seen, NEW seen2, NEW rows, NEW rows2,
           Proven(s, rs, seen, rows), Body(u) = Body(s),
           EditionIn(u, rows2) = EditionIn(s, rows),
           \A e, t : <<Body(s), e, t>> \in seen => <<Body(s), e, t>> \in seen2
    PROVE  Proven(u, rs, seen2, rows2)
  BY DEF Proven, Seen

\* The same build with no more evidence.
LEMMA BackedKept ==
    ASSUME NEW b, NEW c, NEW rs, NEW seen, NEW seen2, NEW rows, NEW rows2,
           Backed(b, rs, seen, rows), b.spec # NoSpec,
           Body(c.spec) = Body(b.spec), c.at = b.at,
           \A r \in rs : c.evidence[r] = c.at => b.evidence[r] = b.at,
           c.tested = c.at =>
               /\ b.tested = b.at
               /\ EditionIn(c.spec, rows2) = EditionIn(b.spec, rows),
           \A e, t : <<Body(b.spec), e, t>> \in seen =>
                        <<Body(b.spec), e, t>> \in seen2
    PROVE  Backed(c, rs, seen2, rows2)
<1>1. c.at # 0
  BY DEF Backed
<1>2. \A r \in rs : c.evidence[r] = c.at => Seen(c.spec, r, seen2)
  BY DEF Backed, Seen
<1>3. c.tested = c.at => Proven(c.spec, rs, seen2, rows2)
  BY ProvenKept DEF Backed
<1> QED
  BY <1>1, <1>2, <1>3 DEF Backed

LEMMA RecordedIsBacked ==
    ASSUME NEW b \in Builds \cup Revisions, NEW r \in routines,
           routines \subseteq Routines, NEW seen, NEW seen2, NEW rows,
           Backed(b, routines, seen, rows), b.spec # NoSpec,
           EditionIn(b.spec, rows) \in 0 .. MaxEdits,
           <<Body(b.spec), EditionIn(b.spec, rows), r>> \in seen2,
           \A e, t : <<Body(b.spec), e, t>> \in seen =>
                        <<Body(b.spec), e, t>> \in seen2
    PROVE  Backed(Recorded(b, r), routines, seen2, rows)
<1>. DEFINE c == [b EXCEPT !.evidence[r] = b.at]
            d == Recorded(b, r)
<1>1. /\ c.spec = b.spec /\ c.at = b.at /\ c.tested = b.tested
      /\ c.evidence[r] = b.at
      /\ \A q \in Routines \ {r} : c.evidence[q] = b.evidence[q]
  BY DEF Builds, Revisions, Evidence
<1>2. /\ d.spec = c.spec /\ d.at = c.at /\ d.evidence = c.evidence
      /\ d.tested = IF Complete(c) THEN b.at ELSE c.tested
  <2>1. LET e == [c EXCEPT !.tested = b.at]
        IN /\ e.spec = c.spec /\ e.at = c.at /\ e.evidence = c.evidence
           /\ e.tested = b.at
    BY DEF Builds, Revisions
  <2> QED
    BY <2>1 DEF Recorded
<1> HIDE DEF c, d
<1>3. Seen(b.spec, r, seen2)
  BY DEF Seen
<1>4. \A q \in routines : d.evidence[q] = d.at => Seen(d.spec, q, seen2)
  BY <1>1, <1>2, <1>3 DEF Backed, Seen
<1>5. d.tested = d.at => Proven(d.spec, routines, seen2, rows)
  <2>1. CASE Complete(c)
    BY <1>1, <1>2, <1>4, <2>1 DEF Complete, Proven, TrialsOf
  <2>2. CASE ~Complete(c)
    BY <1>1, <1>2, <2>2, ProvenKept DEF Backed
  <2> QED
    BY <2>1, <2>2
<1> QED
  BY <1>1, <1>2, <1>4, <1>5 DEF Backed, d

LEMMA ChattedIsBacked ==
    ASSUME NEW b \in Builds \cup Revisions,
           NEW seen, NEW seen2, NEW rows,
           Backed(b, routines, seen, rows),
           b.spec # NoSpec /\ routines = {} =>
               /\ EditionIn(b.spec, rows) \in 0 .. MaxEdits
               /\ <<Body(b.spec), EditionIn(b.spec, rows), "chat">> \in seen2,
           \A e, t : <<Body(b.spec), e, t>> \in seen =>
                        <<Body(b.spec), e, t>> \in seen2
    PROVE  Backed(Chatted(b), routines, seen2, rows)
<1>. DEFINE c == Chatted(b)
<1>1. /\ c.spec = b.spec /\ c.at = b.at /\ c.evidence = b.evidence
      /\ c.tested = IF b.spec = NoSpec \/ routines = {} THEN b.at
                    ELSE IF Complete(b) THEN b.tested ELSE 0
  BY DEF Chatted, Builds, Revisions
<1> HIDE DEF c
<1>2. CASE b.spec = NoSpec
  BY <1>1, <1>2 DEF Backed, c
<1>3. CASE b.spec # NoSpec /\ routines = {}
  <2>1. Proven(c.spec, routines, seen2, rows)
    BY <1>1, <1>3 DEF Proven, TrialsOf, Seen
  <2> QED
    BY <1>1, <1>3, <2>1 DEF Backed, c
<1>4. CASE b.spec # NoSpec /\ routines # {}
  <2>1. b.at # 0
    BY <1>4 DEF Backed
  <2>2. c.tested = c.at => b.tested = b.at
    BY <1>1, <1>4, <2>1
  <2> QED
    BY <1>1, <1>4, <2>2, BackedKept DEF c
<1> QED
  BY <1>2, <1>3, <1>4

-----------------------------------------------------------------------------
(* A step keeps TrialInv.                                                  *)

LEMMA TrialInvFrom ==
    ASSUME BuilderInv, TrialInv, Counted', UNCHANGED routines,
           raced => raced',
           ~raced' =>
               /\ Remember /\ Apart'
               /\ Backed(builder', routines, previewed', conn')
               /\ pending' # NoRevision =>
                     Backed(pending', routines, previewed', conn')
               /\ enabled' =>
                     \/ /\ enabled
                        /\ Body(builder'.spec) = Body(builder.spec)
                        /\ waived \subseteq waived'
                        /\ EditionIn(builder'.spec, conn') =
                              EditionIn(builder.spec, conn)
                     \/ Body(builder'.spec) \in waived'
                     \/ Proven(builder'.spec, routines, previewed', conn')
    PROVE  TrialInv'
<1> SUFFICES ASSUME ~raced'
             PROVE  LiveTried'
  BY DEF TrialInv
<1> SUFFICES ASSUME enabled', Body(builder'.spec) \notin waived'
             PROVE  Proven(builder'.spec, routines, previewed', conn')
  BY DEF LiveTried
<1>1. CASE /\ enabled
           /\ Body(builder'.spec) = Body(builder.spec)
           /\ waived \subseteq waived'
           /\ EditionIn(builder'.spec, conn') =
                 EditionIn(builder.spec, conn)
  <2>1. Body(builder.spec) \in Known
    BY <1>1, StoredIsKnown DEF BuilderInv, Live
  <2>2. Proven(builder.spec, routines, previewed, conn)
    BY <1>1 DEF TrialInv, LiveTried
  <2> QED
    BY <1>1, <2>1, <2>2, SpecRemembered, ProvenKept
<1> QED
  BY <1>1

\* Builds that a step leaves alone keep their evidence.
LEMMA StaysBacked ==
    ASSUME BuilderInv, TrialInv, ~raced, Remember, SameEditions
    PROVE  /\ Backed(builder, routines, previewed', conn')
           /\ pending # NoRevision =>
                 Backed(pending, routines, previewed', conn')
<1>1. Types
  BY DEF BuilderInv
<1>2. Backed(builder, routines, previewed', conn')
  <2>1. CASE builder.spec # NoSpec
    <3>1. EditionIn(builder.spec, conn') = EditionIn(builder.spec, conn)
      BY <1>1, <2>1, EditionKept DEF Types, Builds
    <3> QED
      BY <2>1, <3>1, StoredIsKnown, SpecRemembered, BackedKept DEF TrialInv
  <2>2. CASE builder.spec = NoSpec
    BY <2>2 DEF Backed
  <2> QED
    BY <2>1, <2>2
<1>3. ASSUME pending # NoRevision
      PROVE  Backed(pending, routines, previewed', conn')
  <2>1. CASE pending.spec # NoSpec
    <3>1. EditionIn(pending.spec, conn') = EditionIn(pending.spec, conn)
      BY <1>1, <1>3, <2>1, EditionKept DEF Types, Revisions
    <3> QED
      BY <1>3, <2>1, <3>1, StoredIsKnown, SpecRemembered, BackedKept
         DEF TrialInv
  <2>2. CASE pending.spec = NoSpec
    BY <2>2 DEF Backed
  <2> QED
    BY <2>1, <2>2
<1> QED
  BY <1>2, <1>3

LEMMA CountedStays ==
    ASSUME Counted, SameEditions, UNCHANGED edits,
           \/ UNCHANGED desk
           \/ desk' = Idle
           \/ desk'.kind = "edit" => edits < MaxEdits
    PROVE  Counted'
  BY DEF Counted, SameEditions

LEMMA Numbers ==
    ASSUME BuilderInv, TrialInv, ~raced
    PROVE  /\ now \in Nat /\ builder.at \in Nat /\ builder.at <= now
           /\ builder.tested \in Nat /\ builder.tested <= now
           /\ \A r \in Routines :
                 builder.evidence[r] \in Nat /\ builder.evidence[r] <= now
           /\ pending # NoRevision =>
                 /\ pending.at \in Nat /\ pending.at <= now
                 /\ pending.tested \in Nat /\ pending.tested <= now
  BY DEF BuilderInv, TrialInv, Types, Dated, Apart, Builds, Revisions,
         Evidence, Stamps

\* The settings stay as they are.
LEMMA QuietTrials ==
    ASSUME BuilderInv, TrialInv, Counted', SameEditions, raced => raced',
           UNCHANGED <<routines, builder, pending, previewed, waived, now>>,
           enabled' => enabled \/ raced
                          \/ Proven(builder.spec, routines, previewed', conn')
    PROVE  TrialInv'
<1>1. Remember /\ (Apart => Apart')
  BY DEF Remember, Apart
<1>2. ~raced /\ enabled =>
         EditionIn(builder.spec, conn') = EditionIn(builder.spec, conn)
  BY EditionKept DEF BuilderInv, Types, Builds, Live
<1> QED
  BY <1>1, <1>2, StaysBacked, TrialInvFrom DEF TrialInv

\* What Tested says of a build that holds its evidence.
LEMMA TestedIsProven ==
    ASSUME NEW b, NEW rs, NEW seen, NEW rows, Tested(b),
           Backed(b, rs, seen, rows)
    PROVE  Proven(b.spec, rs, seen, rows)
  BY DEF Tested, Backed

LEMMA QuietSteps ==
    ASSUME BuilderInv, TrialInv,
           \/ \E c \in Conns : CreateConnection(c) \/ Validate(c)
                                  \/ Authorize(c)
           \/ \E c \in Conns : BeginEdit(c) \/ BeginDelete(c)
                                  \/ BeginCallback(c)
           \/ BeginFreeTest \/ GiveUp \/ CommitDelete
           \/ Launch \/ Deactivate
    PROVE  TrialInv'
<1> USE DEF history, settings
<1>1. Types /\ Counted
  BY DEF BuilderInv, TrialInv
<1>2. UNCHANGED <<routines, builder, pending, previewed, waived, now, edits>>
  BY DEF CreateConnection, Validate, Authorize, BeginEdit, BeginDelete,
         BeginCallback, BeginFreeTest, GiveUp, CommitDelete, Launch,
         Deactivate, Read, Ends
<1>3. raced => raced'
  BY DEF CreateConnection, Validate, Authorize, BeginEdit, BeginDelete,
         BeginCallback, BeginFreeTest, GiveUp, CommitDelete, Launch,
         Deactivate, Read, Ends
<1>4. \A c \in Conns : conn[c] \in [state : States, edition : Nat]
  BY <1>1 DEF Types
<1>5. SameEditions
  <2>1. ASSUME NEW c \in Conns, Authorize(c)
        PROVE  SameEditions
    <3>1. conn' = [d \in Conns |->
                   IF d = c THEN [conn[d] EXCEPT !.state = "open"]
                   ELSE IF conn[d].state = "open"
                        THEN [conn[d] EXCEPT !.state = "gone"] ELSE conn[d]]
      BY <2>1 DEF Authorize
    <3>2. ASSUME NEW d \in Conns
          PROVE  conn'[d].edition = conn[d].edition
      BY <1>4, <3>1
    <3> QED
      BY <3>2 DEF SameEditions
  <2>2. ASSUME NEW c \in Conns, CreateConnection(c) \/ Validate(c)
        PROVE  SameEditions
    <3>1. PICK st \in States : conn' = [conn EXCEPT ![c].state = st]
      BY <2>2 DEF CreateConnection, Validate, States
    <3> QED
      BY <1>1, <1>4, <3>1 DEF SameEditions, Types
  <2>3. CASE CommitDelete
    <3>1. desk.conn \in Conns
      BY <2>3 DEF BuilderInv, Reads, CommitDelete
    <3> QED
      BY <1>1, <2>3, <3>1 DEF CommitDelete, SameEditions, Types
  <2>4. CASE UNCHANGED conn
    BY <2>4 DEF SameEditions
  <2> QED
    BY <2>1, <2>2, <2>3, <2>4
       DEF BeginEdit, BeginDelete, BeginCallback, BeginFreeTest, GiveUp,
           Launch, Deactivate, Read
<1>6. \/ UNCHANGED desk
      \/ desk' = Idle
      \/ desk'.kind = "edit" => edits < MaxEdits
  BY DEF CreateConnection, Validate, Authorize, BeginEdit, BeginDelete,
         BeginCallback, BeginFreeTest, GiveUp, CommitDelete, Launch,
         Deactivate, Read, Ends
<1>7. Counted'
  BY <1>1, <1>2, <1>5, <1>6, CountedStays
<1>8. enabled' => enabled \/ raced
                     \/ Proven(builder.spec, routines, previewed', conn')
  <2>1. CASE Launch
    <3>1. UNCHANGED conn
      BY <2>1 DEF Launch
    <3> QED
      BY <1>2, <2>1, <3>1, TestedIsProven DEF Launch, TrialInv
  <2>2. CASE ~Launch
    BY <2>2
       DEF CreateConnection, Validate, Authorize, BeginEdit, BeginDelete,
           BeginCallback, BeginFreeTest, GiveUp, CommitDelete,
           Deactivate, Read, Ends
  <2> QED
    BY <2>1, <2>2
<1> QED
  BY <1>2, <1>3, <1>5, <1>7, <1>8, QuietTrials

-----------------------------------------------------------------------------
(* Trials of builds that change.                                           *)

\* Storing a build clears the evidence just when it binds a system.
LEMMA StoredTrials ==
    ASSUME NEW b \in Builds, NEW s \in Specs
    PROVE  LET c == Stored(b, s)
           IN \/ /\ c.tested = b.tested /\ c.evidence = b.evidence
                 /\ Body(c.spec) = Body(s)
              \/ /\ "connection" \in needs /\ s.link = 0
                 /\ c.tested = 0 /\ \A r \in Routines : c.evidence[r] = 0
<1>. DEFINE bound == AutoBound(s)
            d == IF bound # s THEN Cleared(b) ELSE b
            e == Effective(bound, b)
<1>1. /\ bound \in Specs
      /\ bound # s => "connection" \in needs /\ s.link = 0
  BY AutoBoundType DEF AutoBound
<1>2. /\ d \in Builds
      /\ bound = s => d = b
      /\ bound # s => d.tested = 0 /\ \A r \in Routines : d.evidence[r] = 0
  BY ClearedType, ClearedIsBlank
<1>3. Body(e) = Body(bound)
  BY <1>1, EffectiveType DEF Body
<1>4. Stored(b, s) = [d EXCEPT !.spec = e]
  BY DEF Stored
<1> HIDE DEF bound, d, e
<1>5. /\ Stored(b, s).spec = e /\ Stored(b, s).tested = d.tested
      /\ Stored(b, s).evidence = d.evidence
  BY <1>2, <1>4 DEF Builds
<1> QED
  BY <1>1, <1>2, <1>3, <1>5

\* The stored build, compiled if it was not, claims no trial it did not have.
LEMMA CompiledTrials ==
    ASSUME BuilderInv, TrialInv, ~raced, StampNew
    PROVE  /\ Compiled.tested \in Nat /\ Compiled.tested <= now
           /\ \A r \in Routines : /\ Compiled.evidence[r] \in Nat
                                  /\ Compiled.evidence[r] <= now
           /\ \A r \in Routines : \/ Compiled.evidence[r] = 0
                                  \/ Compiled.evidence[r] =
                                        builder.evidence[r]
           /\ \/ Blank(Compiled, routines)
              \/ /\ builder.spec # NoSpec
                 /\ Compiled.at = builder.at
                 /\ Compiled.tested = builder.tested
                 /\ Compiled.evidence = builder.evidence
           /\ \/ Body(Compiled.spec) = Body(builder.spec)
              \/ ~enabled /\ Blank(Compiled, routines)
           /\ Compiled.at \in Nat /\ Compiled.at <= now'
           /\ now' \in Nat /\ now <= now'
           /\ pending # NoRevision => Compiled.at = builder.at
                                        \/ Compiled.at # pending.at
<1>1. Types /\ Apart /\ Live /\ Based
  BY DEF BuilderInv, TrialInv
<1>2. /\ builder \in Builds /\ builder.spec \in Specs \cup {NoSpec}
      /\ routines \subseteq Routines
  BY <1>1 DEF Types, Builds
<1>3. CASE builder.spec # NoSpec
  <2>1. Compiled = Stored(builder, builder.spec)
    BY <1>3 DEF Compiled
  <2>2. Compiled.at = builder.at /\ builder.at # 0
    BY <1>1, <1>2, <1>3, <2>1, StoredType DEF Based
  <2>5. now' = now
    BY <1>3 DEF StampNew
  <2>3. CASE /\ Compiled.tested = builder.tested
             /\ Compiled.evidence = builder.evidence
             /\ Body(Compiled.spec) = Body(builder.spec)
    BY <1>3, <2>2, <2>3, <2>5, Numbers
  <2>4. CASE /\ "connection" \in needs /\ builder.spec.link = 0
             /\ Compiled.tested = 0
             /\ \A r \in Routines : Compiled.evidence[r] = 0
    <3>1. ~enabled
      BY <1>1, <2>4 DEF Live
    <3>2. Blank(Compiled, routines)
      BY <1>2, <2>2, <2>4 DEF Blank
    <3> QED
      BY <2>2, <2>4, <2>5, <3>1, <3>2, Numbers
  <2> QED
    BY <1>2, <1>3, <2>1, <2>3, <2>4, StoredTrials
<1>4. CASE builder.spec = NoSpec
  <2>. DEFINE b == [builder EXCEPT !.at = now + 1]
              n == NewSpec(now + 1, NoSpec, FALSE)
  <2>1. Compiled = Stored(b, n) /\ Stamp
    BY <1>4 DEF Compiled, StampNew
  <2>2. now + 1 \in Stamps
    BY <1>1, <2>1, StampType
  <2>3. /\ b \in Builds /\ b.at = now + 1 /\ b.tested = builder.tested
        /\ b.evidence = builder.evidence
    BY <1>2, <2>2 DEF Builds
  <2>4. n \in Specs
    BY <2>2, NewSpecType
  <2> HIDE DEF b, n
  <2>5. /\ Compiled.at = now + 1
        /\ \/ /\ Compiled.tested = builder.tested
              /\ Compiled.evidence = builder.evidence
           \/ /\ Compiled.tested = 0
              /\ \A r \in Routines : Compiled.evidence[r] = 0
    BY <2>1, <2>3, <2>4, StoredType, StoredTrials
  <2>6. ~enabled
    BY <1>1, <1>4 DEF Live
  <2>7. /\ Compiled.tested \in Nat /\ Compiled.tested <= now
        /\ \A r \in Routines : /\ Compiled.evidence[r] \in Nat
                               /\ Compiled.evidence[r] <= now
    BY <2>5, Numbers
  <2>8. Blank(Compiled, routines)
    BY <1>2, <2>5, <2>7, Numbers DEF Blank
  <2>9. now' = now + 1
    BY <2>1 DEF Stamp
  <2> QED
    BY <2>5, <2>6, <2>7, <2>8, <2>9, Numbers
<1> QED
  BY <1>3, <1>4

\* The system of a build is part of it.
LEMMA BodyEdition ==
    ASSUME NEW s, NEW u, NEW rows, Body(u) = Body(s)
    PROVE  EditionIn(u, rows) = EditionIn(s, rows)
<1>1. Body(u).link = u.link /\ Body(s).link = s.link
  BY DEF Body
<1> QED
  BY <1>1 DEF EditionIn

\* A step that edits no connected system and begins nothing.
LEMMA TrialStep ==
    ASSUME BuilderInv, TrialInv, SameEditions,
           UNCHANGED <<routines, edits>>, desk' \in {desk, Idle},
           raced => raced',
           ~raced' =>
               /\ Remember /\ Apart'
               /\ \/ builder' = builder
                  \/ Backed(builder', routines, previewed', conn')
               /\ \/ pending' \in {pending, NoRevision}
                  \/ Backed(pending', routines, previewed', conn')
               /\ enabled' =>
                     \/ /\ enabled
                        /\ Body(builder'.spec) = Body(builder.spec)
                        /\ waived \subseteq waived'
                     \/ Body(builder'.spec) \in waived'
                     \/ Proven(builder'.spec, routines, previewed', conn')
    PROVE  TrialInv'
<1>1. Counted'
  BY CountedStays DEF TrialInv
<1>2. ASSUME ~raced'
      PROVE  /\ Backed(builder', routines, previewed', conn')
             /\ pending' # NoRevision =>
                   Backed(pending', routines, previewed', conn')
  BY <1>2, StaysBacked
<1>3. ASSUME ~raced', enabled, Body(builder'.spec) = Body(builder.spec)
      PROVE  EditionIn(builder'.spec, conn') =
                EditionIn(builder.spec, conn)
  <2>1. builder.spec \in Specs
    BY <1>3 DEF BuilderInv, Types, Live, Builds
  <2> QED
    BY <1>3, <2>1, EditionKept, BodyEdition
<1> QED
  BY <1>1, <1>2, <1>3, TrialInvFrom

\* The compiled build holds evidence of trials made with it.
LEMMA CompiledIsBacked ==
    ASSUME BuilderInv, TrialInv, ~raced, StampNew
    PROVE  \/ Backed(Compiled, routines, {}, conn)
           \/ /\ builder.spec # NoSpec
              /\ Body(Compiled.spec) = Body(builder.spec)
              /\ Backed(Compiled, routines, previewed, conn)
<1>1. CASE Blank(Compiled, routines)
  BY <1>1, BlankIsBacked
<1>2. CASE ~Blank(Compiled, routines)
  <2>1. /\ builder.spec # NoSpec /\ Compiled.at = builder.at
        /\ Compiled.tested = builder.tested
        /\ Compiled.evidence = builder.evidence
        /\ Body(Compiled.spec) = Body(builder.spec)
    BY <1>2, CompiledTrials
  <2>2. EditionIn(Compiled.spec, conn) = EditionIn(builder.spec, conn)
    BY <2>1, BodyEdition
  <2> QED
    BY <2>1, <2>2, BackedKept DEF TrialInv
<1> QED
  BY <1>1, <1>2

LEMMA CompileTrials ==
    ASSUME BuilderInv, TrialInv, Compile
    PROVE  TrialInv'
<1> USE DEF history
<1>1. /\ builder' = Compiled /\ StampNew /\ SameEditions
      /\ UNCHANGED <<routines, edits, desk, raced, previewed, waived,
                     enabled, pending, conn>>
  BY DEF Compile, Provision, SameEditions
<1> SUFFICES ASSUME ~raced
             PROVE  /\ Remember /\ Apart'
                    /\ Backed(builder', routines, previewed', conn')
                    /\ enabled' =>
                          /\ enabled
                          /\ Body(builder'.spec) = Body(builder.spec)
                          /\ waived \subseteq waived'
  BY <1>1, TrialStep
<1>2. Remember
  BY <1>1 DEF Remember
<1>3. Apart'
  <2>1. \A r \in Routines : \/ builder'.evidence[r] = 0
                           \/ builder'.evidence[r] = builder.evidence[r]
    BY <1>1, CompiledTrials
  <2> QED
    BY <1>1, <2>1, CompiledTrials, Numbers DEF Apart, TrialInv
<1>4. Backed(Compiled, routines, previewed, conn)
  BY <1>1, CompiledIsBacked DEF Backed, Proven, Seen, TrialsOf
<1> QED
  BY <1>1, <1>2, <1>3, <1>4, CompiledTrials

\* A chat test claims no more than that the build was tried.
LEMMA ChattedTrials ==
    ASSUME NEW b \in Builds \cup Revisions
    PROVE  /\ Chatted(b).spec = b.spec /\ Chatted(b).at = b.at
           /\ Chatted(b).evidence = b.evidence
           /\ Chatted(b).tested \in {b.at, b.tested, 0}
  BY DEF Chatted, Builds, Revisions

\* The trial that is remembered backs the build it was made with.
LEMMA TriedBacks ==
    ASSUME BuilderInv, TrialInv, UNCHANGED <<routines, conn>>,
           NEW b \in Builds \cup Revisions, Tried(b.spec, "chat"),
           \/ Backed(b, routines, {}, conn)
           \/ b.spec # NoSpec => /\ Body(b.spec) \in Known
                                 /\ Backed(b, routines, previewed, conn)
    PROVE  Backed(Chatted(b), routines, previewed', conn')
<1>1. ASSUME b.spec # NoSpec /\ routines = {}
      PROVE  /\ EditionIn(b.spec, conn) \in 0 .. MaxEdits
             /\ <<Body(b.spec), EditionIn(b.spec, conn), "chat">>
                   \in previewed'
  <2>1. b.spec \in Specs
    BY <1>1 DEF Builds, Revisions
  <2>2. Trial(b.spec, "chat") \in previewed'
    BY <1>1, TriedRemembers DEF Trials
  <2> QED
    BY <2>1, <2>2, EditionType DEF BuilderInv, TrialInv
<1>2. CASE Backed(b, routines, {}, conn)
  BY <1>1, <1>2, ChattedIsBacked
<1>3. CASE b.spec = NoSpec
  BY <1>3 DEF Backed, Chatted, Builds, Revisions
<1>4. CASE /\ b.spec # NoSpec /\ Body(b.spec) \in Known
           /\ Backed(b, routines, previewed, conn)
  BY <1>1, <1>4, TriedRemembers, SpecRemembered, ChattedIsBacked
<1> QED
  BY <1>2, <1>3, <1>4

LEMMA ChatTrials ==
    ASSUME BuilderInv, TrialInv, Chat
    PROVE  TrialInv'
<1>1. /\ SameEditions
      /\ UNCHANGED <<routines, edits, desk, raced, waived, enabled, conn>>
  BY DEF Chat, SameEditions
<1> SUFFICES ASSUME ~raced
             PROVE  /\ Remember /\ Apart'
                    /\ \/ builder' = builder
                       \/ Backed(builder', routines, previewed', conn')
                    /\ \/ pending' = pending
                       \/ Backed(pending', routines, previewed', conn')
                    /\ enabled' =>
                          /\ enabled
                          /\ Body(builder'.spec) = Body(builder.spec)
                          /\ waived \subseteq waived'
  BY <1>1, TrialStep
<1>2. Types /\ Apart
  BY DEF BuilderInv, TrialInv
<1>3. CASE /\ Staging /\ pending.spec # NoSpec
           /\ pending' = Chatted(pending)
           /\ Tried(pending.spec, "chat")
           /\ UNCHANGED <<builder, running, now>>
  <2>1. pending \in Revisions /\ pending # NoRevision
    BY <1>2, <1>3 DEF Types, Staging
  <2>2. Backed(pending', routines, previewed', conn')
    BY <1>1, <1>3, <2>1, StoredIsKnown, TriedBacks DEF TrialInv
  <2>3. Apart'
    BY <1>2, <1>3, <2>1, ChattedTrials, Numbers DEF Apart
  <2> QED
    BY <1>1, <1>3, <2>2, <2>3, TriedRemembers
<1>4. CASE /\ StampNew
           /\ Provision(Chatted(Compiled))
           /\ Tried(builder'.spec, "chat")
           /\ UNCHANGED pending
  <2>1. Compiled \in Builds
    BY <1>4, CompiledType DEF BuilderInv
  <2>2. /\ builder' = Chatted(Compiled)
        /\ builder'.spec = Compiled.spec
    BY <1>4, <2>1, ChattedTrials DEF Provision
  <2>3. Backed(builder', routines, previewed', conn')
    BY <1>1, <1>4, <2>1, <2>2, CompiledIsBacked, StoredIsKnown, TriedBacks
  <2>4. \A r \in Routines : \/ builder'.evidence[r] = 0
                            \/ builder'.evidence[r] = builder.evidence[r]
    BY <1>4, <2>1, <2>2, CompiledTrials, ChattedTrials
  <2>5. Apart'
    BY <1>2, <1>4, <2>1, <2>2, <2>4, CompiledTrials, ChattedTrials, Numbers
       DEF Apart
  <2>6. enabled => Body(builder'.spec) = Body(builder.spec)
    BY <1>4, <2>2, CompiledTrials
  <2> QED
    BY <1>1, <1>4, <2>3, <2>5, <2>6, TriedRemembers
<1>5. CASE /\ builder' = Chatted(builder)
           /\ Tried(builder.spec, "chat")
           /\ UNCHANGED <<pending, running, now>>
  <2>1. builder \in Builds
    BY <1>2 DEF Types
  <2>2. Backed(builder', routines, previewed', conn')
    BY <1>1, <1>5, <2>1, StoredIsKnown, TriedBacks DEF TrialInv
  <2>3. Apart'
    BY <1>2, <1>5, <2>1, ChattedTrials, Numbers DEF Apart
  <2> QED
    BY <1>1, <1>5, <2>1, <2>2, <2>3, ChattedTrials, TriedRemembers
<1> QED
  BY <1>3, <1>4, <1>5 DEF Chat

\* A preview adds the compiled_at of the build to its evidence.
LEMMA RecordedTrials ==
    ASSUME NEW b \in Builds \cup Revisions, NEW r \in Routines
    PROVE  /\ Recorded(b, r).spec = b.spec /\ Recorded(b, r).at = b.at
           /\ Recorded(b, r).tested \in {b.at, b.tested}
           /\ \A q \in Routines :
                 Recorded(b, r).evidence[q] \in {b.at, b.evidence[q]}
<1>. DEFINE c == [b EXCEPT !.evidence[r] = b.at]
<1>1. /\ c.spec = b.spec /\ c.at = b.at /\ c.tested = b.tested
      /\ \A q \in Routines : c.evidence[q] \in {b.at, b.evidence[q]}
      /\ c \in Builds \cup Revisions
  BY DEF Builds, Revisions, Evidence
<1> HIDE DEF c
<1>2. LET d == [c EXCEPT !.tested = b.at]
      IN /\ d.spec = c.spec /\ d.at = c.at /\ d.evidence = c.evidence
         /\ d.tested = b.at
  BY <1>1 DEF Builds, Revisions
<1> QED
  BY <1>1, <1>2 DEF Recorded, c

LEMMA PreviewTrials ==
    ASSUME BuilderInv, TrialInv, NEW r \in Routines, Preview(r)
    PROVE  TrialInv'
<1>1. /\ SameEditions
      /\ UNCHANGED <<routines, edits, desk, raced, waived, enabled, conn,
                     now>>
  BY DEF Preview, SameEditions
<1> SUFFICES ASSUME ~raced
             PROVE  /\ Remember /\ Apart'
                    /\ \/ builder' = builder
                       \/ Backed(builder', routines, previewed', conn')
                    /\ \/ pending' = pending
                       \/ Backed(pending', routines, previewed', conn')
                    /\ enabled' =>
                          /\ enabled
                          /\ Body(builder'.spec) = Body(builder.spec)
                          /\ waived \subseteq waived'
  BY <1>1, TrialStep
<1>2. Types /\ Apart /\ Counted /\ routines \subseteq Routines
  BY DEF BuilderInv, TrialInv, Types
<1>3. /\ r \in routines /\ Target.spec # NoSpec
      /\ Target \in Builds \cup Revisions
      /\ Tried(Target.spec, r)
  BY <1>2 DEF Preview, Target, Staging, Types
<1>4. /\ Body(Target.spec) \in Known
      /\ Backed(Target, routines, previewed, conn)
  BY <1>3, StoredIsKnown DEF Target, Staging, TrialInv
<1>5. Backed(Recorded(Target, r), routines, previewed', conn)
  <2>1. Target.spec \in Specs
    BY <1>3 DEF Builds, Revisions
  <2>2. Trial(Target.spec, r) \in previewed'
    BY <1>3, TriedRemembers DEF Trials
  <2>3. /\ EditionIn(Target.spec, conn) \in 0 .. MaxEdits
        /\ <<Body(Target.spec), EditionIn(Target.spec, conn), r>>
              \in previewed'
    BY <1>2, <2>1, <2>2, EditionType
  <2>4. \A e, t : <<Body(Target.spec), e, t>> \in previewed =>
                     <<Body(Target.spec), e, t>> \in previewed'
    BY <1>3, <1>4, TriedRemembers, SpecRemembered
  <2> QED
    BY <1>2, <1>3, <1>4, <2>3, <2>4, RecordedIsBacked
<1>6. CASE Staging
  <2>1. /\ Target = pending /\ pending' = Recorded(pending, r)
        /\ UNCHANGED builder /\ pending # NoRevision
    BY <1>6 DEF Preview, Save, Target, Staging
  <2>2. Apart'
    BY <1>1, <1>2, <1>3, <2>1, RecordedTrials, Numbers DEF Apart
  <2> QED
    BY <1>1, <1>3, <1>5, <2>1, <2>2, TriedRemembers
<1>7. CASE ~Staging
  <2>1. /\ Target = builder /\ builder' = Recorded(builder, r)
        /\ UNCHANGED pending
    BY <1>7 DEF Preview, Save, Target
  <2>2. Apart'
    BY <1>1, <1>2, <1>3, <2>1, RecordedTrials, Numbers DEF Apart
  <2>3. builder'.spec = builder.spec
    BY <1>3, <2>1, RecordedTrials
  <2> QED
    BY <1>1, <1>3, <1>5, <2>1, <2>2, <2>3, TriedRemembers
<1> QED
  BY <1>6, <1>7

LEMMA UncompiledTrials ==
    ASSUME NEW b \in Builds
    PROVE  /\ Uncompiled(b).spec = NoSpec /\ Uncompiled(b).at = 0
           /\ Uncompiled(b).tested = 0 /\ Uncompiled(b).evidence = b.evidence
           /\ Uncompiled(b) \in Builds
  BY ZeroStamp DEF Uncompiled, Builds

LEMMA DraftTrials ==
    ASSUME BuilderInv, TrialInv,
           Revise \/ \E i \in DOMAIN versions : Restore(versions[i])
    PROVE  TrialInv'
<1> USE DEF history
<1>1. /\ SameEditions /\ ~enabled
      /\ UNCHANGED <<routines, edits, desk, raced, waived, enabled, conn,
                     previewed, pending>>
  BY DEF Revise, Restore, SameEditions
<1> SUFFICES ASSUME ~raced
             PROVE  Apart' /\ Backed(builder', routines, previewed', conn')
  BY <1>1, TrialStep DEF Remember
<1>2. Types /\ Apart
  BY DEF BuilderInv, TrialInv
<1>. DEFINE u == Uncompiled(builder)
<1>3. /\ u.spec = NoSpec /\ u.at = 0 /\ u.tested = 0
      /\ u.evidence = builder.evidence /\ u \in Builds
  BY <1>2, UncompiledTrials DEF Types
<1> HIDE DEF u
<1>4. ASSUME NEW o, builder' = [u EXCEPT !.owner = o], UNCHANGED now
      PROVE  Apart' /\ Backed(builder', routines, previewed', conn')
  <2>1. /\ builder'.spec = NoSpec /\ builder'.at = 0 /\ builder'.tested = 0
        /\ builder'.evidence = builder.evidence
    BY <1>3, <1>4 DEF Builds
  <2> QED
    BY <1>1, <1>2, <1>4, <2>1, Numbers DEF Apart, Backed
<1>5. ASSUME NEW b, b = [u EXCEPT !.owner = b.owner],
             NEW spec, spec # NoSpec, Stamp,
             builder' = [b EXCEPT !.spec = spec, !.at = now + 1]
      PROVE  Apart' /\ Backed(builder', routines, previewed', conn')
  <2>1. b.tested = 0 /\ b.evidence = builder.evidence
    BY <1>3, <1>5 DEF Builds
  <2>2. DOMAIN b = DOMAIN u
    BY <1>5
  <2>3. /\ builder'.spec = spec /\ builder'.at = now + 1
        /\ builder'.tested = 0 /\ builder'.evidence = builder.evidence
    BY <1>3, <1>5, <2>1, <2>2 DEF Builds
  <2>4. now' = now + 1
    BY <1>5 DEF Stamp
  <2>5. routines \subseteq Routines
    BY <1>2 DEF Types
  <2>6. Apart'
    BY <1>1, <1>2, <2>3, <2>4, Numbers DEF Apart
  <2>7. Blank(builder', routines)
    BY <2>3, <2>5, Numbers DEF Blank
  <2> QED
    BY <2>6, <2>7, BlankIsBacked
<1>6. CASE Revise
  BY <1>4, <1>6 DEF Revise, Replace, u
<1>7. ASSUME NEW i \in DOMAIN versions, Restore(versions[i])
      PROVE  Apart' /\ Backed(builder', routines, previewed', conn')
  <2>. DEFINE v == versions[i]
              b == [u EXCEPT !.owner = v.owner]
  <2>1. v \in Versions
    BY <1>2 DEF Types
  <2>2. b.owner = v.owner
    BY <1>3 DEF Builds
  <2>3. CASE v.spec = NoSpec
    <3>1. builder' = [b EXCEPT !.owner = "none"] /\ UNCHANGED now
      BY <1>7, <2>3 DEF Restore, Replace, u
    <3>2. builder' = [u EXCEPT !.owner = "none"]
      BY <3>1
    <3> QED
      BY <1>4, <3>1, <3>2
  <2>4. CASE v.spec # NoSpec
    <3>1. /\ builder' = [b EXCEPT !.spec = Effective(v.spec, b),
                                  !.at = now + 1]
          /\ Stamp
      BY <1>7, <2>4 DEF Restore, Replace, u
    <3>2. v.spec \in Specs
      BY <2>1, <2>4 DEF Versions
    <3>3. Effective(v.spec, b) # NoSpec
      BY <3>2, EffectiveType, NoneAssumption
    <3> QED
      BY <1>5, <2>2, <3>1, <3>3
  <2> QED
    BY <2>3, <2>4
<1> QED
  BY <1>6, <1>7

LEMMA PermissionTrials ==
    ASSUME BuilderInv, TrialInv, NEW mode \in {"ask", "automatic"},
           SetPermission(mode)
    PROVE  TrialInv'
<1> USE DEF history
<1>1. /\ SameEditions /\ builder.spec # NoSpec /\ Stamp
      /\ UNCHANGED <<routines, edits, desk, raced, waived, enabled, conn,
                     previewed, pending>>
  BY DEF SetPermission, SameEditions
<1> SUFFICES ASSUME ~raced
             PROVE  /\ Apart'
                    /\ Backed(builder', routines, previewed', conn')
                    /\ enabled => Body(builder'.spec) = Body(builder.spec)
  BY <1>1, TrialStep DEF Remember
<1>2. Types /\ Apart /\ Live
  BY DEF BuilderInv, TrialInv
<1>. DEFINE o == [builder EXCEPT !.owner = mode, !.at = now + 1]
            c == Cleared(o)
            s == Stored(c, builder.spec)
<1>3. /\ builder \in Builds /\ builder.spec \in Specs
      /\ now + 1 \in Stamps /\ routines \subseteq Routines
  BY <1>1, <1>2, StampType DEF Types, Builds
<1>4. o \in Builds /\ o.at = now + 1
  BY <1>3 DEF Builds, Owners
<1> HIDE DEF o
<1>5. /\ c \in Builds /\ c.at = now + 1 /\ c.tested = 0
      /\ \A r \in Routines : c.evidence[r] = 0
  BY <1>4, ClearedType, ClearedIsBlank
<1> HIDE DEF c
<1>6. /\ s.at = now + 1 /\ s.tested = 0
      /\ \A r \in Routines : s.evidence[r] = 0
      /\ \/ Body(s.spec) = Body(builder.spec)
         \/ "connection" \in needs /\ builder.spec.link = 0
  BY <1>3, <1>5, StoredType, StoredTrials
<1>7. builder' = s
  BY DEF SetPermission, Provision, c, o
<1> HIDE DEF s
<1>8. now' = now + 1
  BY <1>1 DEF Stamp
<1>9. Apart'
  BY <1>1, <1>2, <1>6, <1>7, <1>8, Numbers DEF Apart
<1>10. Blank(builder', routines)
  BY <1>3, <1>6, <1>7, Numbers DEF Blank
<1> QED
  BY <1>2, <1>6, <1>7, <1>9, <1>10, BlankIsBacked DEF Live

\* A revision that is staged or built again claims no trial.
LEMMA RevisionTrials ==
    ASSUME BuilderInv, TrialInv,
           \/ Stage \/ Rebuild \/ Discard
           \/ \E i \in DOMAIN versions : StageVersion(versions[i])
    PROVE  TrialInv'
<1> USE DEF history
<1>1. /\ SameEditions
      /\ UNCHANGED <<routines, edits, desk, raced, waived, enabled, conn,
                     previewed, builder>>
  BY DEF Stage, Rebuild, Discard, StageVersion, SameEditions
<1> SUFFICES ASSUME ~raced
             PROVE  /\ Apart'
                    /\ \/ pending' = NoRevision
                       \/ Backed(pending', routines, previewed', conn')
  BY <1>1, TrialStep DEF Remember
<1>2. Types /\ Apart /\ routines \subseteq Routines
  BY DEF BuilderInv, TrialInv, Types
<1>3. ASSUME pending'.tested = 0, \A r \in Routines : pending'.evidence[r] = 0,
             \/ pending'.at = now + 1 /\ Stamp
             \/ pending'.at = 0 /\ pending'.spec = NoSpec /\ UNCHANGED now
      PROVE  Apart' /\ Backed(pending', routines, previewed', conn')
  <2>1. /\ now' \in Nat /\ now <= now'
        /\ \/ pending'.at = now + 1
           \/ pending'.at = 0 /\ pending'.spec = NoSpec
    BY <1>3, Numbers DEF Stamp
  <2>2. Apart'
    BY <1>1, <1>2, <1>3, <2>1, Numbers DEF Apart
  <2>3. Blank(pending', routines)
    BY <1>2, <1>3, <2>1, Numbers DEF Blank
  <2> QED
    BY <2>2, <2>3, BlankIsBacked
<1>4. \A spec, at, base, of :
         LET r == Revision(spec, at, base, of)
         IN /\ r.spec = spec /\ r.at = at /\ r.tested = 0
            /\ \A q \in Routines : r.evidence[q] = 0
  BY DEF Revision, NoEvidence
<1>5. CASE Stage
  BY <1>3, <1>4, <1>5 DEF Stage
<1>6. CASE Rebuild
  <2>1. PICK auto \in BOOLEAN :
           pending' = [Cleared(pending) EXCEPT
                           !.spec = Staged(now + 1, Previous, auto),
                           !.at = now + 1]
    BY <1>6 DEF Rebuild
  <2>2. Stamp /\ pending \in Revisions
    BY <1>2, <1>6 DEF Rebuild, Types
  <2>3. /\ Cleared(pending) \in Revisions /\ Cleared(pending).tested = 0
        /\ \A r \in Routines : Cleared(pending).evidence[r] = 0
    BY <2>2, ClearedType, ClearedIsBlank
  <2>4. /\ pending'.at = now + 1 /\ pending'.tested = 0
        /\ \A r \in Routines : pending'.evidence[r] = 0
    BY <2>1, <2>3 DEF Revisions
  <2> QED
    BY <1>3, <2>2, <2>4
<1>7. CASE Discard
  BY <1>1, <1>2, <1>7, Numbers DEF Discard, Apart
<1>8. ASSUME NEW i \in DOMAIN versions, StageVersion(versions[i])
      PROVE  Apart' /\ Backed(pending', routines, previewed', conn')
  <2>1. CASE Stamp /\ \E spec, at, base, of :
                         /\ at = now + 1
                         /\ pending' = Revision(spec, at, base, of)
    BY <1>3, <1>4, <2>1
  <2>2. CASE UNCHANGED now /\ \E base, of :
                                 pending' = Revision(NoSpec, 0, base, of)
    BY <1>3, <1>4, <2>2
  <2> QED
    BY <1>8, <2>1, <2>2 DEF StageVersion
<1> QED
  BY <1>5, <1>6, <1>7, <1>8

LEMMA ApplyTrials ==
    ASSUME BuilderInv, TrialInv, Apply
    PROVE  TrialInv'
<1>1. /\ SameEditions /\ pending' = NoRevision /\ pending # NoRevision
      /\ Tested(pending)
      /\ UNCHANGED <<routines, edits, desk, raced, enabled, conn, now,
                     previewed>>
  BY DEF Apply, SameEditions
<1> SUFFICES ASSUME ~raced
             PROVE  /\ Apart'
                    /\ Backed(builder', routines, previewed, conn)
                    /\ \/ Body(builder'.spec) \in waived'
                       \/ Proven(builder'.spec, routines, previewed, conn)
  BY <1>1, TrialStep DEF Remember
<1>2. Types /\ Apart /\ routines \subseteq Routines
  BY DEF BuilderInv, TrialInv, Types
<1>. DEFINE o == [builder EXCEPT !.at = pending.at,
                                 !.tested = pending.tested]
            b == Stored(o, pending.spec)
<1>3. /\ builder' = b
      /\ waived' = waived \cup ({Body(b.spec)} \ {Body(pending.spec)})
  BY DEF Apply, Replace
<1>4. /\ pending.spec \in Specs /\ pending.at # 0 /\ pending.at \in Stamps
      /\ pending.tested = pending.at /\ pending.spec # NoSpec
  BY <1>1, <1>2 DEF Tested, Types, Revisions
<1>5. /\ o \in Builds /\ o.at = pending.at /\ o.tested = pending.tested
      /\ o.evidence = builder.evidence
  BY <1>2, <1>4 DEF Types, Builds
<1> HIDE DEF o
<1>6. /\ b.at = pending.at
      /\ \/ /\ b.tested = pending.at /\ b.evidence = builder.evidence
            /\ Body(b.spec) = Body(pending.spec)
         \/ b.tested = 0 /\ \A r \in Routines : b.evidence[r] = 0
  BY <1>4, <1>5, StoredType, StoredTrials
<1> HIDE DEF b
<1>7. Proven(pending.spec, routines, previewed, conn)
  BY <1>1, TestedIsProven DEF TrialInv
<1>8. Body(b.spec) = Body(pending.spec) =>
         Proven(b.spec, routines, previewed, conn)
  BY <1>7, BodyEdition, ProvenKept
<1>9. Apart'
  BY <1>1, <1>2, <1>3, <1>4, <1>6, Numbers DEF Apart
<1>10. \A r \in routines : b.evidence[r] # b.at
  BY <1>1, <1>2, <1>4, <1>6 DEF Apart
<1>11. Backed(b, routines, previewed, conn)
  BY <1>4, <1>6, <1>8, <1>10 DEF Backed
<1> QED
  BY <1>3, <1>8, <1>9, <1>11

\* A new system or answer takes the evidence of the build away.
LEMMA ClearedTrials ==
    ASSUME NEW b \in Builds \cup Revisions, NEW spec,
           routines \subseteq Routines, b.at # 0
    PROVE  LET c == [Cleared(b) EXCEPT !.spec = spec]
           IN /\ c.spec = spec /\ c.at = b.at /\ c.tested = 0
              /\ \A r \in Routines : c.evidence[r] = 0
              /\ Blank(c, routines)
<1>. DEFINE c == [Cleared(b) EXCEPT !.spec = spec]
<1>1. /\ c.spec = spec /\ c.at = b.at /\ c.tested = 0
      /\ \A r \in Routines : c.evidence[r] = 0
  BY DEF Cleared, NoEvidence, Builds, Revisions
<1> QED
  BY <1>1 DEF Blank

LEMMA SetupTrials ==
    ASSUME BuilderInv, TrialInv,
           \/ \E answer \in Answers : SaveAnswer(answer)
           \/ \E c \in Conns : Bind(c) \/ ProvideAccess(c)
    PROVE  TrialInv'
<1> USE DEF history
<1>1. /\ UNCHANGED <<routines, edits, desk, raced, waived, enabled, now,
                     previewed>>
      /\ MayAmend
  BY DEF SaveAnswer, Bind, ProvideAccess
<1>2. PICK spec : Amend(spec)
  BY DEF SaveAnswer, Bind, ProvideAccess
<1>3. Types /\ routines \subseteq Routines
  BY DEF BuilderInv, Types
<1>4. SameEditions
  <2>1. ASSUME NEW c \in Conns, ProvideAccess(c)
        PROVE  SameEditions
    <3>1. conn' = [conn EXCEPT ![c].state = "valid"]
      BY <2>1 DEF ProvideAccess
    <3>2. \A d \in Conns : conn[d] \in [state : States, edition : Nat]
      BY <1>3 DEF Types
    <3> QED
      BY <1>3, <3>1, <3>2 DEF SameEditions, Types
  <2>2. CASE UNCHANGED conn
    BY <2>2 DEF SameEditions
  <2> QED
    BY <2>1, <2>2 DEF SaveAnswer, Bind
<1> SUFFICES ASSUME ~raced
             PROVE  /\ Apart'
                    /\ \/ builder' = builder
                       \/ Backed(builder', routines, previewed', conn')
                    /\ \/ pending' = pending
                       \/ Backed(pending', routines, previewed', conn')
                    /\ enabled => builder' = builder
  BY <1>1, <1>4, TrialStep DEF Remember
<1>5. Apart /\ Target.at # 0 /\ Target \in Builds \cup Revisions
  BY <1>1, <1>3 DEF TrialInv, MayAmend, Target, Staging, Backed, Types
<1>. DEFINE c == [Cleared(Target) EXCEPT !.spec = spec]
<1>6. /\ c.at = Target.at /\ c.tested = 0
      /\ \A r \in Routines : c.evidence[r] = 0
      /\ Blank(c, routines)
  BY <1>3, <1>5, ClearedTrials
<1>7. CASE Staging
  <2>1. pending' = c /\ Target = pending /\ UNCHANGED builder
    BY <1>2, <1>7 DEF Amend, Target
  <2>2. Apart'
    BY <1>1, <1>5, <1>6, <1>7, <2>1, Numbers DEF Apart, Staging
  <2> QED
    BY <1>6, <2>1, <2>2, BlankIsBacked
<1>8. CASE ~Staging
  <2>1. builder' = c /\ Target = builder /\ UNCHANGED pending
    BY <1>2, <1>8 DEF Amend, Provision, Target
  <2>2. ~enabled
    BY <1>1, <1>8 DEF MayAmend, Staging
  <2>3. Apart'
    BY <1>1, <1>5, <1>6, <2>1, Numbers DEF Apart
  <2> QED
    BY <1>6, <2>1, <2>2, <2>3, BlankIsBacked
<1> QED
  BY <1>7, <1>8

-----------------------------------------------------------------------------
(* Trials when an endpoint ends.                                           *)

\* What an endpoint writes back that was not overtaken.
LEMMA NotOvertaken ==
    ASSUME Ends, desk # Idle, ~raced'
    PROVE  /\ ~raced /\ desk.builder = builder /\ desk.pending = pending
           /\ desk.enabled = enabled
  BY DEF Ends, Overtaken

LEMMA UntestedTrials ==
    ASSUME NEW b \in Builds \cup Revisions, NEW c, b # NoRevision
    PROVE  /\ Untested(b, c).spec = b.spec /\ Untested(b, c).at = b.at
           /\ Untested(b, c).evidence = b.evidence
           /\ Untested(b, c).tested = IF Uses(b, c) THEN 0 ELSE b.tested
  BY DEF Untested, Builds, Revisions

\* Builds lose the trials made with the connected system as it was before.
LEMMA EditTrials ==
    ASSUME BuilderInv, TrialInv, CommitEdit
    PROVE  TrialInv'
<1>1. /\ desk # Idle /\ desk' = Idle /\ Ends
      /\ raced => raced'
      /\ edits' = edits + 1
      /\ UNCHANGED <<routines, waived, enabled, now, previewed>>
  BY DEF CommitEdit, Ends
<1>2. Types /\ Counted /\ edits \in Nat
  BY DEF BuilderInv, TrialInv, Types
<1>3. /\ desk.conn \in Conns /\ edits < MaxEdits
      /\ desk.enabled => ~Uses(desk.builder, desk.conn)
  BY <1>1, <1>2 DEF BuilderInv, Reads, CommitEdit, Counted
<1>4. /\ \A c \in Conns : conn'[c].edition = IF c = desk.conn
                             THEN conn[c].edition + 1 ELSE conn[c].edition
  <2>1. conn' = [conn EXCEPT ![desk.conn] =
                    [state |-> "added", edition |-> @.edition + 1]]
    BY DEF CommitEdit
  <2> QED
    BY <1>2, <1>3, <2>1 DEF Types
<1>5. Counted'
  <2>1. MaxEdits \in Nat /\ \A c \in Conns : conn[c].edition \in Nat
    BY <1>2, BuilderAssumption DEF Types
  <2> QED
    BY <1>1, <1>2, <1>3, <1>4, <2>1 DEF Counted
<1> SUFFICES ASSUME ~raced'
             PROVE  /\ Apart'
                    /\ Backed(builder', routines, previewed', conn')
                    /\ pending' # NoRevision =>
                          Backed(pending', routines, previewed', conn')
                    /\ enabled =>
                          /\ Body(builder'.spec) = Body(builder.spec)
                          /\ EditionIn(builder'.spec, conn') =
                                EditionIn(builder.spec, conn)
  BY <1>1, <1>5, TrialInvFrom DEF Remember
<1>6. /\ desk.builder = builder /\ desk.pending = pending /\ ~raced
      /\ desk.enabled = enabled
  BY <1>1, NotOvertaken
<1>7. Apart /\ Live
  BY <1>6 DEF TrialInv, BuilderInv
<1>8. /\ builder' = Untested(builder, desk.conn)
      /\ pending' = Untested(pending, desk.conn)
  BY <1>6 DEF CommitEdit
<1>9. ASSUME NEW spec \in Specs, spec.link # desk.conn
      PROVE  EditionIn(spec, conn') = EditionIn(spec, conn)
  <2>1. spec.link \in {0} \cup Conns
    BY DEF Specs
  <2> QED
    BY <1>4, <1>9, <2>1 DEF EditionIn
<1>10. ASSUME NEW b \in Builds \cup Revisions, b # NoRevision,
              Backed(b, routines, previewed, conn),
              NEW c, c = Untested(b, desk.conn)
       PROVE  Backed(c, routines, previewed', conn')
  <2>1. /\ c.spec = b.spec /\ c.at = b.at /\ c.evidence = b.evidence
        /\ c.tested = IF Uses(b, desk.conn) THEN 0 ELSE b.tested
    BY <1>10, UntestedTrials
  <2>2. CASE b.spec = NoSpec
    BY <2>1, <2>2 DEF Backed
  <2>3. CASE b.spec # NoSpec
    <3>1. b.spec \in Specs /\ b.at # 0
      BY <1>10, <2>3 DEF Backed, Builds, Revisions
    <3>2. c.tested = c.at =>
             /\ b.tested = b.at
             /\ EditionIn(c.spec, conn') = EditionIn(b.spec, conn)
      BY <1>9, <2>1, <2>3, <3>1 DEF Uses
    <3> QED
      BY <1>1, <1>10, <2>1, <2>3, <3>2, BackedKept
  <2> QED
    BY <2>2, <2>3
<1>11. /\ builder \in Builds /\ builder # NoRevision
       /\ pending # NoRevision => pending \in Revisions
  BY <1>2, NoneAssumption DEF Types
<1>12. /\ Backed(builder', routines, previewed', conn')
       /\ pending' # NoRevision =>
             Backed(pending', routines, previewed', conn')
  <2>1. Backed(builder', routines, previewed', conn')
    BY <1>6, <1>8, <1>10, <1>11 DEF TrialInv
  <2>2. pending = NoRevision => pending' = NoRevision
    BY <1>8 DEF Untested
  <2>3. pending # NoRevision =>
           Backed(pending', routines, previewed', conn')
    BY <1>6, <1>8, <1>10, <1>11 DEF TrialInv
  <2> QED
    BY <2>1, <2>2, <2>3
<1>13. Apart'
  <2>1. pending = NoRevision => pending' = NoRevision
    BY <1>8 DEF Untested
  <2> QED
    BY <1>1, <1>6, <1>7, <1>8, <1>11, <2>1, UntestedTrials, Numbers DEF Apart
<1>14. ASSUME enabled
       PROVE  /\ Body(builder'.spec) = Body(builder.spec)
              /\ EditionIn(builder'.spec, conn') =
                    EditionIn(builder.spec, conn)
  <2>1. builder'.spec = builder.spec
    BY <1>8, <1>11, UntestedTrials
  <2>2. builder.spec \in Specs /\ builder.spec.link # desk.conn
    BY <1>3, <1>6, <1>7, <1>11, <1>14 DEF Live, Uses, Builds
  <2> QED
    BY <1>9, <2>1, <2>2
<1> QED
  BY <1>12, <1>13, <1>14

LEMMA CallbackTrials ==
    ASSUME BuilderInv, TrialInv, CommitCallback
    PROVE  TrialInv'
<1>1. /\ desk # Idle /\ desk' = Idle /\ Ends
      /\ raced => raced'
      /\ UNCHANGED <<routines, edits, enabled, now, previewed>>
  BY DEF CommitCallback, Ends
<1>2. Types /\ routines \subseteq Routines
  BY DEF BuilderInv, Types
<1>3. /\ desk.conn \in Conns
      /\ IF desk.enabled /\ desk.pending # NoRevision
         THEN desk.pending.spec # NoSpec
         ELSE desk.builder.spec # NoSpec
  BY <1>1 DEF BuilderInv, Reads, CommitCallback
<1>4. SameEditions
  <2>1. conn' = [conn EXCEPT ![desk.conn].state = "valid"]
    BY DEF CommitCallback
  <2>2. \A d \in Conns : conn[d] \in [state : States, edition : Nat]
    BY <1>2 DEF Types
  <2> QED
    BY <1>2, <1>3, <2>1, <2>2 DEF SameEditions, Types
<1> SUFFICES ASSUME ~raced'
             PROVE  /\ Apart'
                    /\ \/ builder' = builder
                       \/ Backed(builder', routines, previewed', conn')
                    /\ \/ pending' = pending
                       \/ Backed(pending', routines, previewed', conn')
                    /\ enabled => \/ builder' = builder
                                     /\ waived' = waived
                                  \/ Body(builder'.spec) \in waived'
  BY <1>1, <1>4, TrialStep DEF Remember
<1>5. /\ desk.builder = builder /\ desk.pending = pending /\ ~raced
      /\ desk.enabled = enabled
  BY <1>1, NotOvertaken
<1>6. Apart
  BY <1>5 DEF TrialInv
<1>7. \A b \in Builds \cup Revisions :
         [Cleared(b) EXCEPT !.spec.link = desk.conn] =
            [Cleared(b) EXCEPT !.spec = [Cleared(b).spec EXCEPT
                                            !.link = desk.conn]]
  OBVIOUS
<1>8. CASE enabled /\ pending # NoRevision
  <2>1. /\ pending' = [Cleared(pending) EXCEPT !.spec.link = desk.conn]
        /\ builder' = builder /\ UNCHANGED waived
    BY <1>5, <1>8 DEF CommitCallback
  <2>2. pending \in Revisions /\ pending.at # 0
    BY <1>2, <1>3, <1>5, <1>8 DEF Types, TrialInv, Backed
  <2>3. /\ pending'.at = pending.at /\ pending'.tested = 0
        /\ Blank(pending', routines)
    BY <1>2, <1>7, <2>1, <2>2, ClearedTrials
  <2>4. Apart'
    BY <1>1, <1>6, <1>8, <2>1, <2>3, Numbers DEF Apart
  <2> QED
    BY <2>1, <2>3, <2>4, BlankIsBacked
<1>9. CASE ~(enabled /\ pending # NoRevision)
  <2>1. /\ builder' = [Cleared(builder) EXCEPT !.spec.link = desk.conn]
        /\ pending' = pending
        /\ enabled => Body(builder'.spec) \in waived'
    BY <1>5, <1>9 DEF CommitCallback, Provision
  <2>2. builder \in Builds /\ builder.at # 0
    BY <1>2, <1>3, <1>5, <1>9 DEF Types, TrialInv, Backed
  <2>3. /\ builder'.at = builder.at /\ builder'.tested = 0
        /\ \A r \in Routines : builder'.evidence[r] = 0
        /\ Blank(builder', routines)
    BY <1>2, <1>7, <2>1, <2>2, ClearedTrials
  <2>4. Apart'
    BY <1>1, <1>6, <2>1, <2>3, Numbers DEF Apart
  <2> QED
    BY <2>1, <2>3, <2>4, BlankIsBacked
<1> QED
  BY <1>8, <1>9

LEMMA FreeTestTrials ==
    ASSUME BuilderInv, TrialInv, CommitFreeTest
    PROVE  TrialInv'
<1>1. /\ desk # Idle /\ desk' = Idle /\ Ends
      /\ raced => raced'
      /\ UNCHANGED <<routines, edits, enabled, now, conn, waived>>
  BY DEF CommitFreeTest, Ends
<1>2. Types /\ SameEditions
  BY <1>1 DEF BuilderInv, SameEditions
<1> SUFFICES ASSUME ~raced'
             PROVE  /\ Remember /\ Apart' /\ pending' = pending
                    /\ Backed(builder', routines, previewed', conn')
                    /\ Body(builder'.spec) = Body(builder.spec)
  BY <1>1, <1>2, TrialStep
<1>3. /\ desk.builder = builder /\ desk.pending = pending /\ ~raced
  BY <1>1, NotOvertaken
<1>4. /\ builder' = Chatted(builder) /\ pending' = pending
      /\ Tried(builder.spec, "chat")
  BY <1>3 DEF CommitFreeTest
<1>5. Apart /\ builder \in Builds
  BY <1>2, <1>3 DEF TrialInv, Types
<1>6. Backed(builder', routines, previewed', conn')
  BY <1>1, <1>3, <1>4, <1>5, StoredIsKnown, TriedBacks DEF TrialInv
<1>7. Apart'
  BY <1>1, <1>3, <1>4, <1>5, ChattedTrials, Numbers DEF Apart
<1> QED
  BY <1>4, <1>5, <1>6, <1>7, ChattedTrials, TriedRemembers

-----------------------------------------------------------------------------
(* The invariant and the theorems.                                         *)

LEMMA NextBuilder == BuilderInv /\ [Next]_vars => Advances
<1> SUFFICES ASSUME BuilderInv, [Next]_vars
             PROVE  Advances
  OBVIOUS
<1>1. CASE Next
  BY <1>1, CompileSteps, DraftSteps, PermissionStep, RevisionSteps,
     LaunchSteps, PreviewStep, SetupSteps, ConnectionSteps, CommitSteps
     DEF Next
<1>2. CASE UNCHANGED vars
  <2>1. UNCHANGED <<needs, routines, enabled, builder, pending, versions,
                    running, conn, now, desk, raced, edits, requests>>
    BY <1>2 DEF vars, settings, history
  <2>2. Types' /\ Reads' /\ Unneeded'
    BY <2>1 DEF BuilderInv, Types, Dated, Reads, Uses, Unneeded
  <2>3. ~raced' => Granted' /\ Live' /\ Based'
    BY <2>1 DEF BuilderInv, Granted, Live, Based, Valid, Reanswered
  <2> QED
    BY <2>1, <2>2, <2>3 DEF Advances, BuilderInv, Unescalated
<1> QED
  BY <1>1, <1>2

LEMMA InvariantBuilder == Spec => []BuilderInv
<1>1. BuilderInv /\ [Next]_vars => BuilderInv'
  BY NextBuilder DEF Advances
<1> QED
  BY InitBuilder, <1>1, PTL DEF Spec

\* The settings of every employee keep their types through all endpoints, the
\* writes of stale settings included, and the history its limit.
THEOREM SettingsAreTyped == Spec => []TypeOK
<1>1. BuilderInv => TypeOK
  BY TypesOK DEF BuilderInv
<1> QED
  BY <1>1, InvariantBuilder, PTL

\* For every number of systems, edits and compilations: the connected system
\* that a live build names is there and validated.
THEOREM LiveSystemsAreValid == Spec => []LiveIsConnected
<1>1. BuilderInv => LiveIsConnected
  BY DEF BuilderInv, Live, LiveIsConnected
<1> QED
  BY <1>1, InvariantBuilder, PTL

\* No step of an employee that stays live gives its action the permission to
\* run without asking.
THEOREM LiveIsNotEscalated == Spec => NoLiveEscalation
<1>1. BuilderInv /\ [Next]_vars =>
         [enabled /\ enabled' /\ ~raced' /\ running'.auto =>
             running.auto]_vars
  BY NextBuilder DEF Advances, Unescalated
<1> QED
  BY <1>1, InvariantBuilder, PTL DEF Spec, NoLiveEscalation

\* A revision replaces the build it was staged on: nothing compiled,
\* restored or permitted since is lost, and nothing answered since but to what
\* a build may be told again and again.
THEOREM RevisionsReplaceTheirBase == Spec => ReplacesItsBase
<1>1. BuilderInv /\ Apply /\ ~raced =>
         \/ pending.of = Base(builder.spec)
         \/ Reanswered(pending.of, builder.spec)
  BY DEF BuilderInv, Apply, OnItsBase, Based
<1>2. BuilderInv /\ [Next]_vars =>
         [Apply /\ ~raced => \/ pending.of = Base(builder.spec)
                            \/ Reanswered(pending.of, builder.spec)]_vars
  BY <1>1
<1> QED
  BY <1>2, InvariantBuilder, PTL DEF Spec, ReplacesItsBase

\* Every routine of a live build was previewed with that build, at least one
\* of them since its connected system changed last, but for the builds that
\* a shortcut of the code put live and for stale writes.
THEOREM LiveBuildsWereTried == Spec => []LiveIsTested
<1>1. Init => TrialInv
  <2> SUFFICES ASSUME Init
               PROVE  TrialInv
    OBVIOUS
  <2>1. /\ builder.spec = NoSpec /\ builder.tested = 0
        /\ \A r \in Routines : builder.evidence[r] = 0
        /\ pending = NoRevision /\ now = 0 /\ edits = 0 /\ desk = Idle
        /\ ~enabled /\ \A c \in Conns : conn[c].edition = 0
    BY DEF Init, NoEvidence
  <2>2. Counted /\ Apart /\ LiveTried
    BY <2>1, BuilderAssumption DEF Counted, Apart, LiveTried
  <2> QED
    BY <2>1, <2>2 DEF TrialInv, Backed
<1>2. BuilderInv /\ TrialInv /\ [Next]_vars => TrialInv'
  <2> SUFFICES ASSUME BuilderInv, TrialInv, [Next]_vars
               PROVE  TrialInv'
    OBVIOUS
  <2>1. CASE Next
    BY <2>1, CompileTrials, DraftTrials, ChatTrials, PermissionTrials,
       RevisionTrials, ApplyTrials, PreviewTrials, SetupTrials, QuietSteps,
       EditTrials, CallbackTrials, FreeTestTrials DEF Next
  <2>2. CASE UNCHANGED vars
    <3>1. /\ SameEditions /\ Remember
          /\ UNCHANGED <<routines, edits, desk, raced, enabled, waived,
                         builder, pending, previewed, conn, now>>
      BY <2>2 DEF vars, settings, history, SameEditions, Remember
    <3>2. ~raced => Apart'
      BY <3>1 DEF Apart, TrialInv
    <3> QED
      BY <3>1, <3>2, TrialStep
  <2> QED
    BY <2>1, <2>2
<1>3. BuilderInv /\ TrialInv => LiveIsTested
  <2> SUFFICES ASSUME BuilderInv, TrialInv, enabled, ~raced,
                      Body(builder.spec) \notin waived
               PROVE  /\ \A t \in Trials : \E e \in 0 .. MaxEdits :
                             <<Body(builder.spec), e, t>> \in previewed
                      /\ \E t \in Trials :
                            Trial(builder.spec, t) \in previewed
    BY DEF LiveIsTested
  <2>1. Types /\ Counted /\ builder.spec \in Specs
    BY DEF BuilderInv, TrialInv, Types, Builds, Live
  <2>2. Proven(builder.spec, routines, previewed, conn)
    BY DEF TrialInv, LiveTried
  <2>3. Trials = TrialsOf(routines)
    BY DEF Trials, TrialsOf
  <2>4. \A t \in Trials : \E e \in 0 .. MaxEdits :
           <<Body(builder.spec), e, t>> \in previewed
    BY <2>2, <2>3 DEF Proven, Seen
  <2>5. \E t \in Trials : Trial(builder.spec, t) \in previewed
    BY <2>1, <2>2, <2>3, EditionType DEF Proven
  <2> QED
    BY <2>4, <2>5
<1> QED
  BY <1>1, <1>2, <1>3, InvariantBuilder, PTL DEF Spec
=============================================================================
