--------------------------- MODULE MicroProjection ---------------------------
(***************************************************************************)
(* MicroProjection: which application the small window shows.  Without a   *)
(* followed one it is chosen automatically: a faster application replaces  *)
(* a sending one only after it led for ChallengerSeconds, and only         *)
(* received snapshots are evidence of that.  A group is its score: the sum *)
(* of its rates, or None if one of them is unknown.                        *)
(***************************************************************************)
EXTENDS SourceState, FiniteSets

CONSTANTS Apps,               (* keys, numbered in the order of names        *)
          Unstable,           (* keys made of a pid without creation time    *)
          MaxRate,            (* bound: the greatest score of a group        *)
          ChallengerSeconds   (* CHALLENGER_SECONDS                          *)

ASSUME ProjectionAssumption ==
    /\ Apps \subseteq Nat /\ Unstable \subseteq Apps
    /\ MaxRate \in Nat /\ ChallengerSeconds \in Nat \ {0}

VARIABLES groups,        (* _groups: the score of each application, 0 if it  *)
                         (* is not listed or has no rate                     *)
          auto,          (* _auto_key                                        *)
          challenger,    (* _challenger                                      *)
          since,         (* _challenger_since                                *)
          focus,         (* key of _focus                                    *)
          lead           (* history: since when each application has led in  *)
                         (* every snapshot, without a gap; see Leads         *)

choiceVars == <<auto, challenger, since>>
vars == <<sourceVars, groups, choiceVars, focus, lead>>

Scores == 0..MaxRate

Init ==
    /\ SourceInit
    /\ groups = [k \in Apps |-> 0] /\ focus = None
    /\ auto = None /\ challenger = None /\ since = 0
    /\ lead = [k \in Apps |-> None]

Sending(g) == {k \in Apps : g[k] # 0}

(* _ranked_groups()[0]: the fastest, and of these the first by name.        *)
Leader(g) ==
    CHOOSE k \in Sending(g) : \A other \in Sending(g) :
        g[other] < g[k] \/ (g[other] = g[k] /\ k <= other)

NewChallenger(ch, leader) == ch # leader

(* Faulty: the challenger has to wait for one snapshot more.                *)
LaterFaulty == now - since > ChallengerSeconds

Sustained == now - since >= ChallengerSeconds

Chosen(a, ch, t) == auto' = a /\ challenger' = ch /\ since' = t

NobodySends == Chosen(None, None, since)

(* _select_auto, when a is the current choice and ch its challenger.        *)
SelectAuto(g, a, ch) ==
    LET leader == Leader(g)
        sends  == a \in Sending(g)
        ahead  == leader # a /\ g[leader] > g[a]
    IN  \/ Sending(g) = {} /\ NobodySends
        \/ Sending(g) # {} /\ ~sends /\ Chosen(leader, None, since)
        \/ sends /\ ~ahead /\ Chosen(a, None, since)
        \/ sends /\ ahead /\ NewChallenger(ch, leader) /\ Chosen(a, leader, now)
        \/ /\ sends /\ ahead /\ ~NewChallenger(ch, leader)
           /\ IF Sustained THEN Chosen(leader, None, since) ELSE Chosen(a, ch, since)
-----------------------------------------------------------------------------
(* k is the leader of a snapshot in which the automatic choice sends less.  *)
Leads(g, k) ==
    auto \in Sending(g) /\ k = Leader(g) /\ k # auto /\ g[k] > g[auto]

Gap == received # None /\ Expired(received)

(* What a received snapshot adds to lead.                                   *)
LeadAfter(s, g) ==
    [k \in Apps |-> IF s = "available" /\ focus = None /\ Leads(g, k)
                    THEN IF lead[k] = None \/ Gap THEN now ELSE lead[k]
                    ELSE None]

NoLead == [k \in Apps |-> None]
-----------------------------------------------------------------------------
(* Faulty: a gap in the data does not interrupt the evidence.               *)
IgnoreGapFaulty == challenger

AfterGap == IF Gap THEN None ELSE challenger

(* receive: a source that is not available has rows without rates.          *)
Receive(s, g) ==
    /\ SourceReceive(s)
    /\ s # "available" => \A k \in Apps : g[k] = 0
    /\ groups' = g
    /\ \/ s = "available" /\ focus = None /\ SelectAuto(g, auto, AfterGap)
       \/ s = "available" /\ focus # None /\ Chosen(auto, AfterGap, since)
       \/ s # "available" /\ Chosen(auto, None, since)
    /\ lead' = LeadAfter(s, g)
    /\ UNCHANGED focus

AfterFailure == None

Fail ==
    /\ SourceFail
    /\ challenger' = AfterFailure
    /\ lead' = NoLead
    /\ UNCHANGED <<groups, auto, since, focus>>

(* Any listed application, or the account of one that exited.               *)
Follow(k) ==
    /\ k \notin Unstable
    /\ focus' = k /\ challenger' = None
    /\ lead' = NoLead
    /\ UNCHANGED <<sourceVars, groups, auto, since>>

Unfollow ==
    /\ focus' = None
    /\ IF Source = "active" THEN SelectAuto(groups, None, None)
                            ELSE Chosen(None, None, since)
    /\ lead' = NoLead
    /\ UNCHANGED <<sourceVars, groups>>

Next ==
    \/ \E s \in Statuses, g \in [Apps -> Scores] : Receive(s, g)
    \/ Fail
    \/ \E k \in Apps : Follow(k)
    \/ focus # None /\ Unfollow
    \/ Tick /\ UNCHANGED <<groups, choiceVars, focus, lead>>

Spec == Init /\ [][Next]_vars
-----------------------------------------------------------------------------
TypeOK ==
    /\ SourceTypeOK
    /\ groups \in [Apps -> Scores]
    /\ auto \in Apps \cup {None} /\ challenger \in Apps \cup {None}
    /\ since \in Nat /\ focus \in Apps \cup {None}
    /\ lead \in [Apps -> Nat \cup {None}]

(* A challenger is the leader of the latest snapshot, which is usable, and  *)
(* is faster than a choice that sends: no evidence outlives what it was     *)
(* collected on, a failure, a follow or a source that went away.            *)
ChallengerIsCurrent ==
    challenger # None =>
        /\ focus = None /\ failure = "no" /\ status = "available"
        /\ Leads(groups, challenger) /\ since <= received

(* A sending choice is replaced only by an application that led every       *)
(* snapshot of the last ChallengerSeconds, none of them failed, unusable or *)
(* separated from the one before by StaleSeconds or more.                   *)
SwitchNeedsEvidence ==
    [][auto' # auto /\ auto \in Sending(groups') /\ focus = None =>
        /\ auto' # None /\ lead'[auto'] # None
        /\ now - lead'[auto'] >= ChallengerSeconds]_vars

(* And it is replaced then: nobody waits longer than that.                  *)
SustainedLeaderIsChosen ==
    \A k \in Apps : lead[k] # None /\ received - lead[k] >= ChallengerSeconds => auto = k
-----------------------------------------------------------------------------
(* Why they hold: the only evidence kept is that of the challenger, or of   *)
(* the choice that just replaced it.                                        *)

EvidenceInv ==
    /\ challenger # None => lead[challenger] = since
    /\ \A k \in Apps : lead[k] # None =>
          /\ received # None /\ lead[k] <= received
          /\ \/ challenger = k /\ received - since < ChallengerSeconds
             \/ challenger = None /\ auto = k

IInv == TypeOK /\ SourceInv /\ ChallengerIsCurrent /\ EvidenceInv
=============================================================================
