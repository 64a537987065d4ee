------------------------------- MODULE UiViews -------------------------------
(***************************************************************************)
(* UiController: what the windows show.  A hidden window is not repainted, *)
(* so every call that shows one first brings it up to date, and snapshots  *)
(* are published as copies without rates once the source is not active.    *)
(* Events run one at a time in the GUI thread; each of their readings of   *)
(* the clock is a step, because the age of the data may cross its limit    *)
(* between two of them.                                                    *)
(***************************************************************************)
EXTENDS SourceState, FiniteSets

CONSTANT MaxSamples  (* bound: snapshots received                            *)

ASSUME ViewsAssumption == MaxSamples \in Nat

VARIABLES sample,    (* number of _latest_snapshot, 0 before the first       *)
          mode,      (* mode: the primary window                             *)
          visible,   (* the windows that are visible                         *)
          showing,   (* argument of _refresh_views, shown after it           *)
          step,      (* where the GUI thread is in an event                  *)
          seen,      (* the source state _publish_snapshot read first        *)
          published, (* _published_state, _published_snapshot (its number,   *)
                     (* its rates) and the rates of _published_groups        *)
          fresh,     (* windows whose _latest_snapshot is the published one  *)
          painted    (* the sample and the rates each window shows           *)

viewVars == <<mode, visible, showing>>
pubVars == <<published, fresh, painted>>
vars == <<sourceVars, sample, viewVars, step, seen, pubVars>>

Primaries == {"micro", "compact"}
Lists == {"compact", "detail"}    (* windows that show the published snapshot *)
Windows == Primaries \cup Lists \cup {"card"}

Live(state) == IF state = "active" THEN "live" ELSE "blank"

(* The constructor has published that no snapshot arrived yet.              *)
Init ==
    /\ SourceInit
    /\ sample = 0 /\ mode \in Primaries
    /\ visible = {} /\ showing = {} /\ step = "idle" /\ seen = "starting"
    /\ published = [state |-> "starting", sample |-> 0, rates |-> "blank", groups |-> "blank"]
    /\ fresh = {} /\ painted = [w \in Windows |-> [sample |-> 0, rates |-> "blank"]]
-----------------------------------------------------------------------------
(* Events                                                                   *)

OnSnapshot(s) ==
    /\ step = "idle" /\ sample < MaxSamples
    /\ SourceReceive(s)
    /\ sample' = sample + 1 /\ step' = "publish"
    /\ UNCHANGED <<viewVars, seen, pubVars>>

OnSamplingFailed ==
    /\ step = "idle"
    /\ SourceFail
    /\ step' = "publish"
    /\ UNCHANGED <<sample, viewVars, seen, pubVars>>

(* _refresh_views, after which the windows in W are shown.                  *)
RefreshFor(W) ==
    /\ step = "idle"
    /\ step' = "refresh" /\ showing' = W
    /\ UNCHANGED <<sourceVars, sample, seen, pubVars>>

Heartbeat == RefreshFor({}) /\ UNCHANGED <<mode, visible>>

ShowDetails == RefreshFor({"detail"}) /\ UNCHANGED <<mode, visible>>

ShowPrimary == RefreshFor({mode}) /\ UNCHANGED <<mode, visible>>

(* Pointing at the micro window or clicking it.                             *)
ShowCard ==
    /\ mode = "micro" /\ "micro" \in visible
    /\ RefreshFor({"card"}) /\ UNCHANGED <<mode, visible>>

HiddenBy(m) == {"card"} \cup (Primaries \ {m})

SetMode(m) ==
    /\ RefreshFor({m})
    /\ mode' = m /\ visible' = visible \ HiddenBy(m)

(* Changing the flag hides the micro window; it is shown again.             *)
SetMicroOnTop ==
    /\ mode = "micro" /\ "micro" \in visible
    /\ RefreshFor({"micro"})
    /\ visible' = visible \ {"micro"} /\ UNCHANGED mode

Hide(W) ==
    /\ step = "idle" /\ W \cap visible # {}
    /\ visible' = visible \ W
    /\ UNCHANGED <<sourceVars, sample, mode, showing, step, seen, pubVars>>

(* A primary window closes into the tray.                                   *)
ClosePrimary == Hide({"card", mode})

CollapseCard == Hide({"card"})

CloseDetail == Hide({"detail"})
-----------------------------------------------------------------------------
(* Steps of an event                                                        *)

(* _publish_snapshot reads the state for the groups ...                     *)
Publish ==
    /\ step \in {"publish", "republish"}
    /\ seen' = Source
    /\ step' = IF step = "publish" THEN "display" ELSE "redisplay"
    /\ UNCHANGED <<sourceVars, sample, viewVars, pubVars>>

(* The object itself is published while the source is active.               *)
SameObject(rates) ==
    published.sample = sample /\ rates = "live" /\ published.rates = "live"

(* ... and display_snapshot reads it again.                                 *)
Display ==
    /\ step \in {"display", "redisplay"}
    /\ LET rates == Live(Source) IN
       /\ published' = [state |-> seen, sample |-> sample, rates |-> rates, groups |-> Live(seen)]
       /\ fresh' = IF sample = 0 \/ SameObject(rates) THEN fresh ELSE {}
    /\ step' = IF step = "display" THEN "refresh" ELSE "paint"
    /\ UNCHANGED <<sourceVars, sample, viewVars, seen, painted>>

(* Faulty: publishes only what an event brought.                            *)
EventsOnlyFaulty == FALSE

OutOfDate == published.state # Source

Refresh ==
    /\ step = "refresh"
    /\ step' = IF OutOfDate THEN "republish" ELSE "paint"
    /\ UNCHANGED <<sourceVars, sample, viewVars, seen, pubVars>>

(* Faulty: paints what is visible before the window is shown.               *)
VisibleOnlyFaulty == visible

Targets == visible \cup showing

(* The total of the compact window needs a snapshot that is available, the  *)
(* detail window shows the groups, the others a frame of their own.         *)
Painting(w) ==
    CASE w = "compact" -> [sample |-> published.sample, rates |-> published.rates]
      [] w = "detail"  -> [sample |-> published.sample, rates |-> published.groups]
      [] OTHER         -> [sample |-> sample, rates |-> Live(Source)]

Paint ==
    /\ step = "paint"
    /\ painted' = [w \in Windows |->
           IF w \in Targets /\ (w \in Lists => sample > 0 /\ w \notin fresh)
           THEN Painting(w) ELSE painted[w]]
    /\ fresh' = IF sample > 0 THEN fresh \cup (Lists \cap Targets) ELSE fresh
    /\ visible' = visible \cup showing
    /\ showing' = {} /\ step' = "idle"
    /\ UNCHANGED <<sourceVars, sample, mode, seen, published>>

GuiStep == Publish \/ Display \/ Refresh \/ Paint

Next ==
    \/ \E s \in Statuses : OnSnapshot(s)
    \/ OnSamplingFailed \/ Heartbeat
    \/ ShowDetails \/ ShowPrimary \/ ShowCard \/ SetMicroOnTop
    \/ \E m \in Primaries : SetMode(m)
    \/ ClosePrimary \/ CollapseCard \/ CloseDetail
    \/ GuiStep
    \/ Tick /\ UNCHANGED <<sample, viewVars, step, seen, pubVars>>

Spec == Init /\ [][Next]_vars

(* Events end, and the heartbeat timer gets its turn among the others.      *)
FairSpec == Spec /\ WF_vars(GuiStep) /\ SF_vars(Heartbeat)
-----------------------------------------------------------------------------
States == {"starting", "stale", "active", "failed", "permission", "unavailable"}

TypeOK ==
    /\ SourceTypeOK
    /\ sample \in 0..MaxSamples /\ mode \in Primaries
    /\ visible \subseteq Windows /\ showing \subseteq Windows /\ fresh \subseteq Lists
    /\ step \in {"idle", "publish", "display", "refresh", "republish", "redisplay", "paint"}
    /\ seen \in States
    /\ published \in [state : States, sample : 0..MaxSamples,
                      rates : {"live", "blank"}, groups : {"live", "blank"}]
    /\ painted \in [Windows -> [sample : 0..MaxSamples, rates : {"live", "blank"}]]

(* Between two events every visible window shows the latest snapshot,       *)
(* however long it was hidden and whatever showed it.                       *)
ShowsLatest == step = "idle" => \A w \in visible : painted[w].sample = sample

(* It shows rates if they are live, and none once a sample failed or the    *)
(* source is known not to deliver.                                          *)
ShowsSource ==
    step = "idle" => \A w \in visible :
        /\ Source = "active" => painted[w].rates = "live"
        /\ Source \in {"failed", "permission", "unavailable"} => painted[w].rates = "blank"

(* One primary window at a time, and the card only beside the micro window. *)
OnePrimary ==
    step = "idle" =>
        /\ visible \cap Primaries \subseteq {mode}
        /\ "card" \in visible => "micro" \in visible

(* What the user sees between two events.                                   *)
ViewsAreCurrent == TypeOK /\ OnePrimary /\ ShowsLatest /\ ShowsSource

(* Rates that went stale do not stay in a visible window.                   *)
StaleIsBlanked ==
    \A w \in Windows :
        (w \in visible /\ painted[w].rates = "live" /\ Source = "stale")
        ~> (w \notin visible \/ painted[w].rates = "blank" \/ Source # "stale")
-----------------------------------------------------------------------------
(* Why they hold: only an event can make a source active or broken, and its *)
(* publication reads the source twice, so what is published afterwards has  *)
(* rates if the source still is active, and none if it is broken.  A window *)
(* counted as fresh shows what is published; the others are painted.        *)
Broken == {"failed", "permission", "unavailable"}

Told(rates) ==
    /\ Source = "active" => rates = "live"
    /\ Source \in Broken => rates = "blank"

PublishedInv ==
    /\ step \in {"display", "redisplay"} =>
          (Source = "active" => seen = "active") /\ (Source \in Broken => seen = Source)
    /\ step \notin {"publish", "display"} =>
          published.sample = sample /\ Told(published.rates) /\ Told(published.groups)
    /\ published.rates = "live" => published.groups = "live"

PaintedInv ==
    /\ sample = 0 <=> status = None
    /\ sample = 0 => fresh = {} /\ \A w \in Windows : painted[w] = [sample |-> 0, rates |-> "blank"]
    /\ \A w \in fresh : painted[w] = Painting(w)
    /\ step = "idle" => \A w \in visible : painted[w].sample = sample /\ Told(painted[w].rates)

WindowsInv ==
    /\ (visible \cup showing) \cap Primaries \subseteq {mode}
    /\ "card" \in visible \cup showing => "micro" \in visible \cup showing
    /\ step = "idle" => showing = {}

ViewsInv == TypeOK /\ SourceInv /\ PublishedInv /\ PaintedInv /\ WindowsInv
=============================================================================
