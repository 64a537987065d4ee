------------------------ MODULE MicroProjection_proofs ------------------------
(***************************************************************************)
(* Proofs about MicroProjection: the automatic choice changes exactly on   *)
(* sustained evidence, for any applications, rates and durations; and what *)
(* it says about the foreground (Presence) is always current and           *)
(* consistent, for any processes and lifetimes.                            *)
(***************************************************************************)
EXTENDS MicroProjection, Presence, DataLemmas, TLAPS

(* No key, time or rate is None.                                            *)
LEMMA NoneIsNoValue ==
  /\ None \notin Nat /\ None \notin Apps
  /\ \A n \in Nat : n # None
  BY SourceAssumption, ProjectionAssumption

(* Among applications that send, one is the leader.                         *)
LEMMA LeaderExists ==
  ASSUME NEW g \in [Apps -> Scores], Sending(g) # {}
  PROVE  Leader(g) \in Sending(g)
  <1> DEFINE Shortfall == {MaxRate - g[k] : k \in Sending(g)}
  <1>1. \A k \in Sending(g) : k \in Nat /\ g[k] \in 0..MaxRate /\ k \in Apps
    BY ProjectionAssumption DEF Sending, Scores
  <1>2. Shortfall \subseteq Nat /\ Shortfall # {}
    BY <1>1, ProjectionAssumption
  <1>3. PICK m \in Shortfall : \A s \in Shortfall : m <= s
    <2> HIDE DEF Shortfall
    <2> QED
      BY <1>2, LeastNumber
  <1> DEFINE Best == {k \in Sending(g) : MaxRate - g[k] = m}
  <1>4. Best \subseteq Nat /\ Best # {}
    BY <1>1, <1>3
  <1>5. PICK k \in Best : \A other \in Best : k <= other
    <2> HIDE DEF Best
    <2> QED
      BY <1>4, LeastNumber
  <1>6. k \in Sending(g) /\ m = MaxRate - g[k]
    BY <1>5
  <1>7. ASSUME NEW other \in Sending(g)
        PROVE  g[other] < g[k] \/ (g[other] = g[k] /\ k <= other)
    <2>1. m <= MaxRate - g[other]
      BY <1>3
    <2>2. g[other] <= g[k]
      BY <2>1, <1>6, <1>1, ProjectionAssumption
    <2>3. CASE g[other] = g[k]
      BY <2>3, <1>5, <1>6
    <2>4. CASE g[other] # g[k]
      BY <2>2, <2>4, <1>1, <1>6
    <2> QED
      BY <2>3, <2>4
  <1> QED
    BY <1>6, <1>7 DEF Leader

(* What is known of a source after a snapshot.                              *)
LEMMA ReceiveKeepsSource ==
  ASSUME SourceTypeOK, SourceInv, NEW s \in Statuses, SourceReceive(s)
  PROVE  SourceTypeOK' /\ SourceInv'
  <1> USE NoneIsNoValue, SourceAssumption DEF SourceReceive, FailureAfter
  <1>1. SourceTypeOK'
    BY DEF SourceTypeOK
  <1>2. s # None
    OBVIOUS
  <1> QED
    BY <1>1, <1>2 DEF SourceTypeOK, SourceInv, MayFollow

(* What _select_auto leaves: no challenger, or the leader that is faster    *)
(* than a sending choice, new or not yet sustained.                         *)
LEMMA SelectAutoResult ==
  ASSUME NEW g \in [Apps -> Scores],
         NEW a \in Apps \cup {None}, NEW ch \in Apps \cup {None},
         since \in Nat, now \in Nat, SelectAuto(g, a, ch)
  PROVE  /\ auto' \in Apps \cup {None} /\ challenger' \in Apps \cup {None} /\ since' \in Nat
         /\ challenger' # None =>
              /\ a \in Sending(g) /\ auto' = a
              /\ challenger' = Leader(g) /\ challenger' # a /\ g[challenger'] > g[a]
  <1>1. Sending(g) # {} => Leader(g) \in Apps
    BY LeaderExists DEF Sending
  <1>2. a \in Sending(g) => Sending(g) # {} /\ a \in Apps
    BY DEF Sending
  <1> QED
    BY <1>1, <1>2 DEF SelectAuto, Chosen, NobodySends, NewChallenger

(* A usable snapshot without a followed application.                        *)
LEMMA AutoReceive ==
  ASSUME IInv, NEW g \in [Apps -> Scores],
         SourceReceive("available"), SelectAuto(g, auto, AfterGap), focus = None,
         groups' = g, lead' = LeadAfter("available", g), UNCHANGED focus
  PROVE  /\ IInv'
         /\ auto' # auto /\ auto \in Sending(g) =>
              auto' # None /\ lead'[auto'] # None /\ now - lead'[auto'] >= ChallengerSeconds
  <1> USE NoneIsNoValue
  <1>1. SourceTypeOK' /\ SourceInv'
    BY ReceiveKeepsSource DEF IInv, TypeOK, Statuses
  <1>2. /\ now \in Nat /\ since \in Nat /\ received \in Nat \cup {None}
        /\ auto \in Apps \cup {None} /\ challenger \in Apps \cup {None}
        /\ AfterGap \in Apps \cup {None} /\ ChallengerSeconds \in Nat \ {0}
    BY SourceAssumption, ProjectionAssumption DEF IInv, TypeOK, SourceTypeOK, AfterGap
  <1>3. /\ received' = now /\ now' = now /\ status' = "available" /\ failure' = "no"
    BY DEF SourceReceive, FailureAfter
  <1>4. /\ auto' \in Apps \cup {None} /\ challenger' \in Apps \cup {None} /\ since' \in Nat
        /\ challenger' # None =>
              /\ auto \in Sending(g) /\ auto' = auto
              /\ challenger' = Leader(g) /\ challenger' # auto /\ g[challenger'] > g[auto]
    BY <1>2, SelectAutoResult
  <1>5. \A k \in Apps : lead[k] \in Nat \cup {None} /\ lead'[k] \in Nat \cup {None}
    BY <1>2 DEF IInv, TypeOK, LeadAfter
  <1>6. TypeOK'
    BY <1>1, <1>4, <1>2 DEF IInv, TypeOK, LeadAfter
  <1>7. ChallengerIsCurrent' /\ EvidenceInv'
        /\ (auto' # auto /\ auto \in Sending(g) =>
              auto' # None /\ lead'[auto'] # None /\ now - lead'[auto'] >= ChallengerSeconds)
    <2>1. CASE \A k \in Apps : ~Leads(g, k)
      <3>1. \A k \in Apps : lead'[k] = None
        BY <2>1 DEF LeadAfter
      <3>2. ~(auto \in Sending(g) /\ Leader(g) # auto /\ g[Leader(g)] > g[auto])
        BY <2>1, LeaderExists DEF Leads, Sending
      <3>3. challenger' = None
        BY <1>4, <3>2
      <3>4. auto \in Sending(g) => auto' = auto
        BY <3>2 DEF SelectAuto, Chosen, NobodySends
      <3> QED
        BY <3>1, <3>3, <3>4 DEF ChallengerIsCurrent, EvidenceInv
    <2>2. CASE \E k \in Apps : Leads(g, k)
      <3> DEFINE leader == Leader(g)
      <3>1. leader \in Apps /\ Leads(g, leader) /\ \A k \in Apps : Leads(g, k) => k = leader
        BY <2>2 DEF Leads
      <3>2. /\ auto \in Sending(g) /\ leader # auto /\ g[leader] > g[auto]
            /\ Sending(g) # {} /\ leader # None /\ auto # None
        BY <3>1, <1>2 DEF Leads, Sending
      <3>3. /\ \A k \in Apps : k # leader => lead'[k] = None
            /\ lead'[leader] = IF lead[leader] = None \/ Gap THEN now ELSE lead[leader]
        BY <3>1 DEF LeadAfter
      <3>4. CASE AfterGap # leader
        <4>1. auto' = auto /\ challenger' = leader /\ since' = now
          BY <3>2, <3>4 DEF SelectAuto, Chosen, NobodySends, NewChallenger
        <4>2. lead[leader] # None => Gap
          BY <3>1, <3>2, <3>4 DEF IInv, EvidenceInv, AfterGap
        <4>3. lead'[leader] = now
          BY <3>3, <4>2
        <4>4. Leads(groups, challenger)'
          BY <4>1, <3>2 DEF Leads
        <4>5. EvidenceInv'
          <5>1. received' # None /\ now <= received' /\ received' - now < ChallengerSeconds
            BY <1>2, <1>3
          <5>2. \A k \in Apps : lead'[k] # None => k = leader /\ lead'[k] = now
            BY <3>3, <4>3
          <5> QED
            BY <4>1, <4>3, <5>1, <5>2 DEF EvidenceInv
        <4> QED
          BY <4>1, <4>4, <4>5, <1>2, <1>3 DEF ChallengerIsCurrent
      <3>5. CASE AfterGap = leader
        <4>1. ~Gap /\ challenger = leader
          BY <3>2, <3>5 DEF AfterGap
        <4>2. /\ lead[leader] = since /\ lead'[leader] = since
              /\ received # None /\ since <= now
          <5>1. lead[leader] = since /\ since # None
            BY <4>1, <3>2, <1>2 DEF IInv, EvidenceInv
          <5>2. received # None /\ since <= received /\ received <= now
            BY <5>1, <3>1 DEF IInv, EvidenceInv, SourceInv
          <5> QED
            BY <5>1, <5>2, <4>1, <3>3, <1>2
        <4>3. CASE Sustained
          <5>1. auto' = leader /\ challenger' = None /\ since' = since
            BY <3>2, <3>5, <4>3 DEF SelectAuto, Chosen, NobodySends, NewChallenger
          <5>2. EvidenceInv'
            BY <5>1, <4>2, <3>1, <3>3, <1>2, <1>3 DEF EvidenceInv
          <5> QED
            BY <5>1, <5>2, <4>2, <4>3, <3>2, <1>2 DEF ChallengerIsCurrent, Sustained
        <4>4. CASE ~Sustained
          <5>1. auto' = auto /\ challenger' = leader /\ since' = since
            BY <3>2, <3>5, <4>4 DEF SelectAuto, Chosen, NobodySends, NewChallenger
          <5>2. now - since < ChallengerSeconds
            BY <4>4, <1>2 DEF Sustained
          <5>3. Leads(groups, challenger)'
            BY <5>1, <3>2 DEF Leads
          <5>4. EvidenceInv'
            BY <5>1, <5>2, <4>2, <3>1, <3>3, <1>2, <1>3 DEF EvidenceInv
          <5> QED
            BY <5>1, <5>3, <5>4, <4>2, <1>3 DEF ChallengerIsCurrent
        <4> QED
          BY <4>3, <4>4
      <3> QED
        BY <3>4, <3>5
    <2> QED
      BY <2>1, <2>2
  <1> QED
    BY <1>1, <1>6, <1>7 DEF IInv

(* A choice that a step leaves without evidence is a safe one.              *)
LEMMA NoEvidence ==
  ASSUME TypeOK', SourceInv', challenger' = None, \A k \in Apps : lead'[k] = None
  PROVE  IInv'
  BY DEF IInv, ChallengerIsCurrent, EvidenceInv

(* Every step keeps the invariant, and none replaces a sending choice       *)
(* without evidence.                                                        *)
LEMMA NextStep ==
  ASSUME IInv, Next
  PROVE  /\ IInv'
         /\ auto' # auto /\ auto \in Sending(groups') /\ focus = None =>
              auto' # None /\ lead'[auto'] # None /\ now - lead'[auto'] >= ChallengerSeconds
  <1> USE NoneIsNoValue
  <1>0. /\ TypeOK /\ SourceTypeOK /\ SourceInv
        /\ NoLead \in [Apps -> Nat \cup {None}]
        /\ \A k \in Apps : NoLead[k] = None
    BY DEF IInv, TypeOK, NoLead
  <1>1. ASSUME NEW s \in Statuses, NEW g \in [Apps -> Scores], Receive(s, g)
        PROVE  /\ IInv'
               /\ auto' # auto /\ auto \in Sending(groups') /\ focus = None =>
                    auto' # None /\ lead'[auto'] # None /\ now - lead'[auto'] >= ChallengerSeconds
    <2>1. CASE s = "available" /\ focus = None
      BY <1>1, <2>1, AutoReceive DEF Receive
    <2>2. CASE ~(s = "available" /\ focus = None)
      <3>1. /\ auto' = auto /\ since' = since /\ focus' = focus /\ groups' = g
            /\ challenger' \in {None, AfterGap}
            /\ s # "available" => challenger' = None
        BY <1>1, <2>2 DEF Receive, Chosen
      <3>2. challenger' = None
        BY <3>1, <2>2 DEF IInv, ChallengerIsCurrent, AfterGap
      <3>3. \A k \in Apps : lead'[k] = None
        BY <1>1, <2>2 DEF Receive, LeadAfter
      <3>4. SourceTypeOK' /\ SourceInv'
        BY <1>0, <1>1, ReceiveKeepsSource DEF Receive
      <3>5. lead' \in [Apps -> Nat \cup {None}]
        BY <1>1, <2>2 DEF Receive, LeadAfter
      <3>6. TypeOK'
        BY <1>0, <3>1, <3>2, <3>4, <3>5 DEF TypeOK
      <3> QED
        BY <3>1, <3>2, <3>3, <3>4, <3>6, NoEvidence
    <2> QED
      BY <2>1, <2>2
  <1>2. CASE Fail
    <2>1. SourceTypeOK' /\ SourceInv'
      BY <1>0, <1>2 DEF Fail, SourceFail, SourceTypeOK, SourceInv
    <2>2. /\ groups' = groups /\ auto' = auto /\ since' = since /\ focus' = focus
          /\ challenger' = None /\ lead' = NoLead
      BY <1>2 DEF Fail, AfterFailure
    <2>3. TypeOK'
      BY <1>0, <2>1, <2>2 DEF TypeOK
    <2>4. \A k \in Apps : lead'[k] = None
      BY <1>0, <2>2
    <2> QED
      BY <2>1, <2>2, <2>3, <2>4, NoEvidence
  <1>3. ASSUME NEW k \in Apps, Follow(k)
        PROVE  IInv' /\ auto' = auto
    <2>1. SourceTypeOK' /\ SourceInv'
      BY <1>0, <1>3 DEF Follow, sourceVars, SourceTypeOK, SourceInv
    <2> QED
      BY <1>0, <1>3, <2>1, NoEvidence DEF Follow, TypeOK
  <1>4. CASE focus # None /\ Unfollow
    <2>1. SourceTypeOK' /\ SourceInv'
      BY <1>0, <1>4 DEF Unfollow, sourceVars, SourceTypeOK, SourceInv
    <2>2. /\ auto' \in Apps \cup {None} /\ challenger' = None /\ since' \in Nat
      <3>1. CASE Source = "active"
        <4>1. None \notin Sending(groups)
          BY <1>0 DEF Sending, TypeOK
        <4>2. groups \in [Apps -> Scores]
              /\ since \in Nat /\ now \in Nat
          BY <1>0 DEF TypeOK, SourceTypeOK
        <4>3. SelectAuto(groups, None, None)
          BY <1>4, <3>1 DEF Unfollow
        <4> QED
          BY <4>1, <4>2, <4>3, SelectAutoResult
      <3>2. CASE Source # "active"
        BY <1>0, <1>4, <3>2 DEF Unfollow, Chosen, TypeOK
      <3> QED
        BY <3>1, <3>2
    <2>3. TypeOK'
      BY <1>0, <1>4, <2>1, <2>2 DEF Unfollow, TypeOK
    <2> QED
      BY <1>0, <1>4, <2>1, <2>2, <2>3, NoEvidence DEF Unfollow
  <1>5. CASE Tick /\ UNCHANGED <<groups, choiceVars, focus, lead>>
    <2>1. SourceTypeOK' /\ SourceInv'
      BY <1>0, <1>5, SourceAssumption DEF Tick, SourceTypeOK, SourceInv
    <2>2. TypeOK'
      BY <1>0, <1>5, <2>1 DEF choiceVars, TypeOK
    <2>3. ChallengerIsCurrent' /\ EvidenceInv'
      BY <1>5 DEF Tick, choiceVars, IInv, ChallengerIsCurrent, EvidenceInv, Leads
    <2> QED
      BY <1>5, <2>1, <2>2, <2>3 DEF IInv, choiceVars
  <1> QED
    BY <1>1, <1>2, <1>3, <1>4, <1>5 DEF Next, Fail

(* The inductive invariant of the projection.                               *)
THEOREM InductiveInvariant == Spec => []IInv
  <1>1. Init => IInv
    <2> SUFFICES ASSUME Init PROVE IInv
      OBVIOUS
    <2>1. TypeOK
      BY SourceAssumption, ProjectionAssumption DEF Init, Scores, SourceInit, TypeOK, SourceTypeOK
    <2> QED
      BY <2>1, SourceAssumption DEF Init, SourceInit, SourceInv, IInv, ChallengerIsCurrent, EvidenceInv, Statuses
  <1>2. IInv /\ [Next]_vars => IInv'
    <2> SUFFICES ASSUME IInv, [Next]_vars PROVE IInv'
      OBVIOUS
    <2>1. CASE Next
      BY <2>1, NextStep
    <2>2. CASE UNCHANGED vars
      BY <2>2 DEF vars, sourceVars, choiceVars, IInv, TypeOK, SourceTypeOK, SourceInv,
                  ChallengerIsCurrent, EvidenceInv, Leads
    <2> QED
      BY <2>1, <2>2
  <1> QED
    BY <1>1, <1>2, PTL DEF Spec

(* A challenger is always the current leader: no evidence outlives a        *)
(* failure, a follow or a source that went away.                            *)
THEOREM ChallengerCurrent == Spec => []ChallengerIsCurrent
  <1>1. IInv => ChallengerIsCurrent
    BY DEF IInv
  <1> QED
    BY <1>1, InductiveInvariant, PTL

(* An application that led for ChallengerSeconds has been chosen.           *)
THEOREM LeaderChosen == Spec => []SustainedLeaderIsChosen
  <1>1. IInv => SustainedLeaderIsChosen
    <2> SUFFICES ASSUME IInv, NEW k \in Apps,
                        lead[k] # None, received - lead[k] >= ChallengerSeconds
                 PROVE  auto = k
      BY DEF SustainedLeaderIsChosen
    <2>1. /\ received # None /\ received \in Nat /\ since \in Nat
          /\ challenger # None => lead[challenger] = since
          /\ \/ challenger = k /\ received - since < ChallengerSeconds
             \/ auto = k
      BY DEF IInv, TypeOK, SourceTypeOK, EvidenceInv
    <2>2. challenger = k => ~(received - since < ChallengerSeconds)
      BY <2>1, NoneIsNoValue, ProjectionAssumption
    <2> QED
      BY <2>1, <2>2
  <1> QED
    BY <1>1, InductiveInvariant, PTL

(* A sending choice is never replaced without that evidence.                *)
THEOREM SwitchesNeedEvidence == Spec => SwitchNeedsEvidence
  <1>1. IInv /\ [Next]_vars =>
          [auto' # auto /\ auto \in Sending(groups') /\ focus = None =>
             /\ auto' # None /\ lead'[auto'] # None
             /\ now - lead'[auto'] >= ChallengerSeconds]_vars
    BY NextStep
  <1> QED
    BY <1>1, InductiveInvariant, PTL DEF Spec, SwitchNeedsEvidence

-----------------------------------------------------------------------------
(* Presence: processes, keys and the context of a selection.                *)
Unique(procs) == \A p, q \in procs : p.pid = q.pid => p = q

LEMMA NoneIsNoKey ==
  None \notin Keys /\ None \notin Pids
  <1>1. None \notin Keys
    BY PresenceAssumption, Zenon DEF Keys
  <1>2. None \notin Pids
    BY PresenceAssumption, Zenon
  <1> QED
    BY <1>1, <1>2

LEMMA KeyTypes ==
  ASSUME NEW p \in Processes
  PROVE  /\ KeyOf(p) \in Keys /\ KeyOf(p) \in {Program, Identity(p)} /\ KeyOf(p) # None
         /\ p.pid \in Pids /\ p.pid # None /\ Identity(p)[1] = p.pid
         /\ p.born # 0 => Identity(p) \in Identities
  <1>1. p.pid \in Pids /\ p.born \in Lives \cup {0}
    BY DEF Processes
  <1>2. Identity(p) \in Pids \X (Lives \cup {0}) /\ Identity(p)[1] = p.pid
    BY <1>1 DEF Identity
  <1>3. KeyOf(p) \in {Program, Identity(p)}
    BY DEF KeyOf, Identity
  <1>4. KeyOf(p) \in Keys
    BY <1>2, <1>3 DEF Keys, Seen
  <1>5. KeyOf(p) # None /\ p.pid # None
    BY <1>1, <1>4, NoneIsNoKey
  <1>6. p.born # 0 => Identity(p) \in Identities
    BY <1>1 DEF Identity, Identities
  <1> QED
    BY <1>1, <1>2, <1>3, <1>4, <1>5, <1>6

LEMMA SendingTypes ==
  ASSUME NEW procs \in SUBSET Processes
  PROVE  SendingKeys(procs) \subseteq Keys
  BY KeyTypes DEF SendingKeys

LEMMA ContextTypes ==
  ASSUME NEW procs \in SUBSET Processes, NEW key
  PROVE  /\ Context(procs, key).members = {Identity(p) : p \in Members(procs, key)}
         /\ Context(procs, key).key # None =>
              Context(procs, key).key = key /\ key \in Keys /\ Members(procs, key) # {}
         /\ Members(procs, key) # {} => Context(procs, key).key = key
         /\ Context(procs, key).trusted = {p.pid : p \in {m \in Members(procs, key) : m.born # 0}}
         /\ Context(procs, key).complete => \A p \in Members(procs, key) : p.born # 0
  BY KeyTypes DEF Context, Members

(* With one row per pid, the process that has a pid is the foreground       *)
(* context, and if the selection trusts the pid it is a member.             *)
LEMMA OneForeground ==
  ASSUME NEW procs \in SUBSET Processes, Unique(procs), NEW pid,
         NEW q \in procs, q.pid = pid, q.born # 0
  PROVE  /\ ForegroundContext(procs, pid) = {<<KeyOf(q), Identity(q)>>}
         /\ {p \in procs : p.pid = pid} = {q}
         /\ FindForeground(procs, pid) = KeyOf(q)
  <1>1. {p \in procs : p.pid = pid} = {q} /\ {p \in procs : p.pid = pid /\ p.born # 0} = {q}
    BY DEF Unique
  <1> QED
    BY <1>1 DEF ForegroundContext, FindForeground

LEMMA FrontOfContext ==
  ASSUME NEW procs \in SUBSET Processes, Unique(procs), NEW pid,
         ForegroundContext(procs, pid) # {}
  PROVE  /\ pid \in Pids
         /\ {Identity(p) : p \in {q \in procs : q.pid = pid}}
              = {x[2] : x \in ForegroundContext(procs, pid)}
         /\ \E q \in procs : q.pid = pid /\ q.born # 0 /\ FindForeground(procs, pid) = KeyOf(q)
  <1>1. PICK q \in procs : q.pid = pid /\ q.born # 0
    BY DEF ForegroundContext
  <1>2. /\ ForegroundContext(procs, pid) = {<<KeyOf(q), Identity(q)>>}
        /\ {p \in procs : p.pid = pid} = {q} /\ FindForeground(procs, pid) = KeyOf(q)
    BY <1>1, OneForeground
  <1> QED
    BY <1>1, <1>2, KeyTypes

LEMMA TrustedForeground ==
  ASSUME NEW procs \in SUBSET Processes, Unique(procs), NEW key,
         NEW pid \in Context(procs, key).trusted
  PROVE  /\ ForegroundContext(procs, pid)
              = {<<Context(procs, key).key, i>> : i \in {m \in Context(procs, key).members : m[1] = pid}}
         /\ ForegroundContext(procs, pid) # {}
         /\ FindForeground(procs, pid) = key
  <1>0. pid \in {p.pid : p \in {m \in Members(procs, key) : m.born # 0}}
    BY DEF Context
  <1>1. PICK q \in Members(procs, key) : q.pid = pid /\ q.born # 0
    BY <1>0
  <1>2. q \in procs /\ KeyOf(q) = key /\ q \in Processes
    BY DEF Members
  <1>3. /\ ForegroundContext(procs, pid) = {<<KeyOf(q), Identity(q)>>}
        /\ {p \in procs : p.pid = pid} = {q} /\ FindForeground(procs, pid) = KeyOf(q)
    BY <1>1, <1>2, OneForeground
  <1>4. Context(procs, key).key = key
    BY ContextTypes
  <1>5. {m \in Context(procs, key).members : m[1] = pid} = {Identity(q)}
    <2>1. \A p \in Members(procs, key) : Identity(p)[1] = pid => p = q
      BY <1>3, KeyTypes DEF Members
    <2>2. Identity(q)[1] = pid
      BY <1>1, <1>2, KeyTypes
    <2>3. q \in Members(procs, key)
      BY <1>1
    <2>4. \A m \in Context(procs, key).members : m[1] = pid => m = Identity(q)
      BY <2>1, ContextTypes
    <2>5. Identity(q) \in Context(procs, key).members
      BY <2>3 DEF Context
    <2> QED
      BY <2>2, <2>4, <2>5
  <1> QED
    BY <1>2, <1>3, <1>4, <1>5

LEMMA PresenceStarts == PresenceInit => PresenceInv
  <1> SUFFICES ASSUME PresenceInit PROVE PresenceInv
    OBVIOUS
  <1>1. PresenceTypeOK
    BY PresenceAssumption DEF PresenceInit, PresenceTypeOK
  <1> QED
    BY <1>1 DEF PresenceInit, PresenceInv, OneRowPerPid, BadgeInv, SpotlightInv, ForegroundInv,
                Forgotten

(* The views after anything but a poll: the caches keep what is still true. *)
LEMMA ViewsKeepEvidence ==
  ASSUME PresenceInv, Refresh \/ Invalidate, processes' \in SUBSET Processes, Unique(processes')
  PROVE  BadgeInv' /\ SpotlightInv' /\ ForegroundInv' /\ presence' \in {"foreground", "background", "unknown"}
  <1>1. CASE Invalidate
    BY <1>1 DEF Invalidate, Forgotten, BadgeInv, SpotlightInv, ForegroundInv
  <1>2. CASE Refresh
    <2>1. /\ presence' = IF context = Context(processes', selected') THEN presence ELSE "unknown"
          /\ context' = Context(processes', selected') /\ polled' = polled
          /\ foreground' = IF CachedForeground(processes', foreground) = None THEN Forgotten
                           ELSE foreground
          /\ presence \in {"foreground", "background", "unknown"}
      BY <1>2 DEF Refresh, Recheck, PresenceInv, PresenceTypeOK
    <2>2. BadgeInv'
      BY <2>1 DEF PresenceInv, BadgeInv
    <2>3. SpotlightInv'
      BY <2>1 DEF PresenceInv, SpotlightInv, Forgotten
    <2>4. ForegroundInv'
      <3> SUFFICES ASSUME presence' = "foreground"
                   PROVE  /\ foreground'.pid = polled'.pid
                          /\ foreground'.identity
                               = {<<context'.key, i>> : i \in {m \in context'.members : m[1] = polled'.pid}}
        BY DEF ForegroundInv
      <3>1. /\ presence = "foreground" /\ context = Context(processes', selected')
            /\ context' = context
        BY <2>1
      <3>2. /\ polled.pid \in Pids /\ polled.pid \in context.trusted
            /\ foreground.pid = polled.pid
            /\ foreground.identity
                 = {<<context.key, i>> : i \in {m \in context.members : m[1] = polled.pid}}
        BY <3>1 DEF PresenceInv, BadgeInv, ForegroundInv, Resolve
      <3>3. /\ ForegroundContext(processes', polled.pid) = foreground.identity
            /\ foreground.identity # {}
        BY <3>1, <3>2, TrustedForeground
      <3>4. CachedForeground(processes', foreground) # None
        BY <3>2, <3>3, NoneIsNoKey DEF CachedForeground
      <3> QED
        BY <2>1, <3>1, <3>2, <3>4
    <2> QED
      BY <2>1, <2>2, <2>3, <2>4
  <1> QED
    BY <1>1, <1>2

LEMMA PollKeepsEvidence ==
  ASSUME PresenceInv, NEW pid \in Pids \cup {None}, Poll(pid), UNCHANGED <<processes, selected>>
  PROVE  BadgeInv' /\ SpotlightInv' /\ ForegroundInv' /\ presence' \in {"foreground", "background", "unknown"}
  <1>1. processes \in SUBSET Processes /\ Unique(processes) /\ selected \in Keys \cup {None}
    BY DEF PresenceInv, PresenceTypeOK, OneRowPerPid, Unique
  <1>2. PICK c : c = Context(processes, selected)
    OBVIOUS
  <1>3. /\ c.key # None => c.key = selected /\ selected \in Keys
        /\ c.members = {Identity(p) : p \in Members(processes, selected)}
    BY <1>1, <1>2, ContextTypes
  <1>4. /\ presence' = Resolve(c, pid) /\ context' = c
        /\ foreground' = [pid |-> pid, identity |-> ForegroundContext(processes, pid)]
        /\ polled' = [pid |-> pid, members |-> c.members, key |-> selected,
                      front |-> {Identity(p) : p \in {q \in processes : q.pid = pid}}]
    BY <1>2, <1>3 DEF Poll
  <1>5. polled' # None
    <2>1. \A p \in processes : Identity(p) \in Seen
      BY <1>1 DEF Processes, Identity, Seen
    <2>2. polled' \in Polls
      BY <1>1, <1>3, <1>4, <2>1 DEF Polls, Members
    <2> QED
      BY <2>2, PresenceAssumption
  <1>6. presence' \in {"foreground", "background", "unknown"}
          /\ (presence' # "unknown" => c.key # None /\ pid # None)
          /\ (presence' = "foreground" => pid \in c.trusted)
    BY <1>4 DEF Resolve
  <1>7. BadgeInv'
    <2> SUFFICES ASSUME presence' # "unknown"
                 PROVE  /\ context'.key \in Keys /\ polled'.key = context'.key
                        /\ polled'.members = context'.members
                        /\ polled'.pid \in Pids /\ presence' = Resolve(context', polled'.pid)
      BY <1>5 DEF BadgeInv
    <2> QED
      BY <1>3, <1>4, <1>6
  <1>8. SpotlightInv'
    <2> SUFFICES ASSUME ForegroundContext(processes, pid) # {}
                 PROVE  /\ foreground'.pid = polled'.pid /\ polled'.pid \in Pids
                        /\ polled'.front = {x[2] : x \in ForegroundContext(processes, pid)}
      BY <1>4, <1>5 DEF SpotlightInv
    <2> QED
      BY <1>1, <1>4, FrontOfContext
  <1>9. ForegroundInv'
    <2> SUFFICES ASSUME presence' = "foreground"
                 PROVE  ForegroundContext(processes, pid)
                          = {<<c.key, i>> : i \in {m \in c.members : m[1] = pid}}
      BY <1>4 DEF ForegroundInv
    <2> QED
      BY <1>1, <1>2, <1>6, TrustedForeground
  <1> QED
    BY <1>6, <1>7, <1>8, <1>9

(* The rows of an enumeration, and whose key an identity is recorded with.  *)
LEMMA EnumerationTypes ==
  ASSUME PresenceInv, NEW procs \in Enumerations
  PROVE  procs \in SUBSET Processes /\ Unique(procs)
  <1>1. \A pid \in Pids : Enumerated(pid) \subseteq Processes
    <2> SUFFICES ASSUME NEW pid \in Pids, NEW p \in Enumerated(pid) PROVE p \in Processes
      OBVIOUS
    <2>1. PICK born \in Lives \cup {0}, known \in BOOLEAN, rate \in Rates \cup {None} :
            p = [pid |-> pid, born |-> born, path |-> known, rate |-> rate]
      <3>1. life[pid] \in Lives
        BY DEF PresenceInv, PresenceTypeOK
      <3> QED
        BY <3>1, Zenon DEF Enumerated
    <2> QED
      BY <2>1 DEF Processes
  <1> QED
    BY <1>1 DEF Enumerations, Unique

LEMMA AttributedTypes ==
  ASSUME PresenceInv, NEW procs \in SUBSET Processes
  PROVE  /\ DOMAIN Attributed(procs) \subseteq Identities
         /\ \A i \in DOMAIN Attributed(procs) : Attributed(procs)[i] \in {Program, i}
  <1> DEFINE certain(i) == {p \in procs : Identity(p) = i /\ p.born # 0 /\ p.rate # None}
             new == {Identity(p) : p \in {q \in procs : q.born # 0 /\ q.rate # None}}
             key(i) == IF i \in DOMAIN attributed THEN attributed[i]
                       ELSE KeyOf(CHOOSE p \in certain(i) : TRUE)
  <1>1. Attributed(procs) = [i \in DOMAIN attributed \cup new |-> key(i)]
    BY DEF Attributed
  <1>2. ASSUME NEW i \in new PROVE i \in Identities /\ KeyOf(CHOOSE p \in certain(i) : TRUE) \in {Program, i}
    <2>1. \E p \in certain(i) : TRUE
      OBVIOUS
    <2>2. PICK q \in certain(i) : q = CHOOSE p \in certain(i) : TRUE
      BY <2>1
    <2> QED
      BY <2>2, KeyTypes
  <1>3. /\ DOMAIN attributed \subseteq Identities
        /\ \A i \in DOMAIN attributed : attributed[i] \in {Program, i}
    BY DEF PresenceInv, PresenceTypeOK
  <1>4. \A i \in DOMAIN attributed \cup new : i \in Identities /\ key(i) \in {Program, i}
    BY <1>2, <1>3
  <1> HIDE DEF new, key
  <1> QED
    BY <1>1, <1>4

(* Everything but a poll: the state the caches are compared with is typed,  *)
(* and the views are refreshed or invalidated.                              *)
LEMMA ViewsKeepPresence ==
  ASSUME PresenceInv, Refresh \/ Invalidate,
         life' \in [Pids -> Lives], processes' \in SUBSET Processes, Unique(processes'),
         usable' \in BOOLEAN, visible' \in BOOLEAN, focused' \in BOOLEAN,
         attributed' = attributed \/ \E procs \in SUBSET Processes : attributed' = Attributed(procs),
         selected' \in Keys \cup {None}, focused' => selected' \in Keys
  PROVE  PresenceInv'
  <1>1. /\ DOMAIN attributed' \subseteq Identities
        /\ \A i \in DOMAIN attributed' : attributed'[i] \in {Program, i}
    BY AttributedTypes DEF PresenceInv, PresenceTypeOK
  <1>2. BadgeInv' /\ SpotlightInv' /\ ForegroundInv' /\ presence' \in {"foreground", "background", "unknown"}
    BY ViewsKeepEvidence
  <1> QED
    BY <1>1, <1>2 DEF PresenceInv, PresenceTypeOK, OneRowPerPid, Unique

LEMMA PresenceStep == PresenceInv /\ [PresenceNext]_presenceVars => PresenceInv'
  <1> SUFFICES ASSUME PresenceInv, [PresenceNext]_presenceVars PROVE PresenceInv'
    OBVIOUS
  <1>0. /\ life \in [Pids -> Lives] /\ processes \in SUBSET Processes /\ Unique(processes)
        /\ usable \in BOOLEAN /\ visible \in BOOLEAN /\ focused \in BOOLEAN
        /\ selected \in Keys \cup {None} /\ (focused => selected \in Keys)
    BY DEF PresenceInv, PresenceTypeOK, OneRowPerPid, Unique
  <1>1. CASE UNCHANGED presenceVars
    BY <1>1 DEF presenceVars, PresenceInv, PresenceTypeOK, OneRowPerPid, BadgeInv, SpotlightInv,
                ForegroundInv
  <1>2. ASSUME NEW procs \in Enumerations, NEW available \in BOOLEAN, OnSnapshot(procs, available)
        PROVE  PresenceInv'
    <2>1. procs \in SUBSET Processes /\ Unique(procs)
      BY EnumerationTypes
    <2>2. /\ processes' = procs /\ usable' = available /\ attributed' = Attributed(procs)
          /\ UNCHANGED <<life, focused, visible>> /\ (Refresh \/ Invalidate)
      BY <1>2 DEF OnSnapshot, RefreshViews
    <2>3. selected' \in Keys \cup {None} /\ (focused => selected' = selected)
      BY <1>0, <1>2, <2>1, SendingTypes DEF OnSnapshot
    <2> QED
      BY <1>0, <2>1, <2>2, <2>3, ViewsKeepPresence
  <1>3. CASE SourceLost
    BY <1>0, <1>3, ViewsKeepPresence DEF SourceLost, RefreshViews
  <1>4. ASSUME NEW pid \in Pids, Reuse(pid) PROVE PresenceInv'
    BY <1>0, <1>4
    DEF Reuse, PresenceInv, PresenceTypeOK, OneRowPerPid, BadgeInv, SpotlightInv, ForegroundInv
  <1>5. ASSUME NEW key \in Keys, FollowKey(key) PROVE PresenceInv'
    BY <1>0, <1>5, ViewsKeepPresence DEF FollowKey, RefreshViews
  <1>6. CASE UnfollowKey
    <2>1. selected' \in Keys \cup {None} /\ focused' = FALSE
      BY <1>0, <1>6, SendingTypes DEF UnfollowKey
    <2> QED
      BY <1>0, <1>6, <2>1, ViewsKeepPresence DEF UnfollowKey, RefreshViews
  <1>7. ASSUME NEW pid \in Pids \cup {None}, Heartbeat(pid) PROVE PresenceInv'
    <2>1. CASE visible
      <3>1. Poll(pid) /\ UNCHANGED <<life, processes, usable, attributed, selected, focused, visible>>
        BY <1>7, <2>1 DEF Heartbeat
      <3> QED
        BY <3>1, PollKeepsEvidence DEF PresenceInv, PresenceTypeOK, OneRowPerPid
    <2>2. CASE ~visible
      BY <1>0, <1>7, <2>2, ViewsKeepPresence DEF Heartbeat
    <2> QED
      BY <2>1, <2>2
  <1>8. CASE Hide \/ Show
    <2>1. /\ UNCHANGED <<life, processes, usable, attributed, selected, focused>> /\ Invalidate
          /\ visible' \in BOOLEAN
      BY <1>8 DEF Hide, Show
    <2> QED
      BY <1>0, <2>1, ViewsKeepPresence
  <1> QED
    BY <1>1, <1>2, <1>3, <1>4, <1>5, <1>6, <1>7, <1>8 DEF PresenceNext

LEMMA PresenceInvariant == PresenceSpec => []PresenceInv
  BY PresenceStarts, PresenceStep, PTL DEF PresenceSpec

(* A badge that says something is about the members of the selection as     *)
(* they are, and about a pid that the last poll saw.                        *)
LEMMA BadgeFacts ==
  ASSUME PresenceInv, Badge # "unknown"
  PROVE  /\ context = Context(processes, selected) /\ presence = Badge
         /\ selected \in Keys /\ context.key = selected /\ Members(processes, selected) # {}
         /\ polled # None /\ polled.key = selected /\ polled.pid \in Pids
         /\ polled.members = {Identity(p) : p \in Members(processes, selected)}
         /\ Badge = Resolve(context, polled.pid)
  <1>1. context = Context(processes, selected) /\ presence = Badge
    BY DEF Badge
  <1>2. /\ polled # None /\ context.key \in Keys /\ polled.key = context.key
        /\ polled.members = context.members
        /\ polled.pid \in Pids /\ presence = Resolve(context, polled.pid)
    BY <1>1 DEF PresenceInv, BadgeInv
  <1>3. context.key # None /\ processes \in SUBSET Processes
    BY <1>2, NoneIsNoKey DEF PresenceInv, PresenceTypeOK
  <1> QED
    BY <1>1, <1>2, <1>3, ContextTypes

(* So is the foreground application of the spotlight.                       *)
LEMMA SpotlightFacts ==
  ASSUME PresenceInv, Spotlight.foreground # None
  PROVE  /\ polled # None
         /\ polled.front = {Identity(p) : p \in {q \in processes : q.pid = polled.pid}}
         /\ \E q \in processes : q.pid = polled.pid /\ q.born # 0 /\ Spotlight.foreground = KeyOf(q)
  <1>1. processes \in SUBSET Processes /\ Unique(processes)
    BY DEF PresenceInv, PresenceTypeOK, OneRowPerPid, Unique
  <1>2. Spotlight.foreground = FindForeground(processes, CachedForeground(processes, foreground))
    BY DEF Spotlight
  <1>3. FindForeground(processes, None) = None
    <2>1. \A p \in processes : p.pid # None
      BY <1>1, KeyTypes
    <2> QED
      BY <2>1 DEF FindForeground
  <1>4. /\ CachedForeground(processes, foreground) = foreground.pid
        /\ foreground.identity # {}
        /\ foreground.identity = ForegroundContext(processes, foreground.pid)
    BY <1>2, <1>3 DEF CachedForeground
  <1>5. /\ polled # None /\ foreground.pid = polled.pid
        /\ polled.front = {x[2] : x \in ForegroundContext(processes, polled.pid)}
    BY <1>4 DEF PresenceInv, SpotlightInv
  <1>6. ForegroundContext(processes, polled.pid) # {}
    BY <1>4, <1>5
  <1>7. /\ {Identity(p) : p \in {q \in processes : q.pid = polled.pid}} = polled.front
        /\ \E q \in processes :
             q.pid = polled.pid /\ q.born # 0 /\ FindForeground(processes, polled.pid) = KeyOf(q)
    BY <1>1, <1>5, <1>6, FrontOfContext
  <1>8. Spotlight.foreground = FindForeground(processes, polled.pid)
    BY <1>2, <1>4, <1>5
  <1> QED
    BY <1>5, <1>7, <1>8

(* What is shown about the foreground stems from a poll of the same         *)
(* selection, members and process: it is never carried over to another      *)
(* identity (micro_model.py).                                               *)
THEOREM EvidenceStaysCurrent == PresenceSpec => []EvidenceIsCurrent
  <1>1. PresenceInv => EvidenceIsCurrent
    BY BadgeFacts, SpotlightFacts DEF EvidenceIsCurrent
  <1> QED
    BY <1>1, PresenceInvariant, PTL

(* The badge, the spotlight and the state of the frame never contradict     *)
(* each other, although they are cached and checked apart.                  *)
THEOREM BadgeAndSpotlightAgree == PresenceSpec => []BadgeAgrees
  <1>1. PresenceInv => BadgeAgrees
    <2> SUFFICES ASSUME PresenceInv, usable PROVE BadgeAgrees
      BY DEF BadgeAgrees
    <2>1. processes \in SUBSET Processes /\ Unique(processes)
      BY DEF PresenceInv, PresenceTypeOK, OneRowPerPid, Unique
    <2>2. ASSUME Badge = "foreground" PROVE Spotlight.foreground = selected
      <3>1. /\ context = Context(processes, selected) /\ presence = "foreground"
            /\ polled.pid \in Pids /\ polled.pid \in Context(processes, selected).trusted
        BY <2>2, BadgeFacts DEF Resolve
      <3>2. /\ foreground.pid = polled.pid
            /\ foreground.identity
                 = {<<context.key, i>> : i \in {m \in context.members : m[1] = polled.pid}}
        BY <3>1 DEF PresenceInv, ForegroundInv
      <3>3. /\ ForegroundContext(processes, polled.pid) = foreground.identity
            /\ foreground.identity # {}
            /\ FindForeground(processes, polled.pid) = selected
        BY <2>1, <3>1, <3>2, TrustedForeground
      <3>4. CachedForeground(processes, foreground) = polled.pid
        BY <3>2, <3>3 DEF CachedForeground
      <3> QED
        BY <3>3, <3>4 DEF Spotlight
    <2>3. ASSUME Badge = "background" PROVE Spotlight.foreground # selected
      <3> SUFFICES ASSUME Spotlight.foreground = selected PROVE FALSE
        OBVIOUS
      <3>1. /\ context = Context(processes, selected) /\ selected \in Keys
            /\ polled.pid \notin context.trusted /\ context.complete
        BY <2>3, BadgeFacts DEF Resolve
      <3>2. PICK q \in processes : q.pid = polled.pid /\ q.born # 0 /\ KeyOf(q) = selected
        BY <3>1, SpotlightFacts, NoneIsNoKey
      <3>3. q \in Members(processes, selected)
        BY <3>2 DEF Members
      <3>4. polled.pid \in Context(processes, selected).trusted
        BY <3>2, <3>3 DEF Context
      <3> QED
        BY <3>1, <3>4
    <2>4. ASSUME Badge # "unknown" PROVE State \in {"active", "idle", "unknown"}
      BY <2>4, BadgeFacts DEF State
    <2>5. ASSUME State = "not_running" PROVE Spotlight.foreground # selected
      <3>1. Members(processes, selected) = {} /\ focused
        BY <2>5 DEF State
      <3>2. selected # None
        BY <3>1, NoneIsNoKey DEF PresenceInv
      <3>3. \A q \in processes : KeyOf(q) # selected
        BY <3>1 DEF Members
      <3> QED
        BY <3>2, <3>3, SpotlightFacts
    <2> QED
      BY <2>2, <2>3, <2>4, <2>5 DEF BadgeAgrees
  <1> QED
    BY <1>1, PresenceInvariant, PTL
=============================================================================
