----------------------------- MODULE Views_proofs -----------------------------
(***************************************************************************)
(* Proofs that what is on screen is current: the windows of UiController,  *)
(* for any time limit and number of samples.                               *)
(***************************************************************************)
EXTENDS UiViews, TLAPS

(* The clock can only make an active source stale.                *)
LEMMA SourceIsState ==
  ASSUME SourceTypeOK, SourceInv
  PROVE  Source \in States /\ (status = None => Source # "active")
  BY SourceAssumption DEF SourceTypeOK, SourceInv, Source, States, Statuses, Broken

LEMMA ClockDecays ==
  ASSUME SourceTypeOK, SourceInv, Tick
  PROVE  /\ SourceTypeOK' /\ SourceInv'
         /\ Source' = "active" => Source = "active"
         /\ Source' \in Broken => Source' = Source
  <1>1. now \in Nat /\ now' = now + 1 /\ UNCHANGED <<status, received, valid, failure>>
    BY SourceAssumption DEF SourceTypeOK, Tick
  <1>2. SourceTypeOK' /\ SourceInv'
    BY <1>1, SourceAssumption DEF SourceTypeOK, SourceInv, Tick
  <1>3. status = "available" => valid \in Nat
    BY SourceAssumption DEF SourceTypeOK, SourceInv, Statuses
  <1>4. \A t \in Nat : now' - t < StaleSeconds => now - t < StaleSeconds
    BY <1>1, SourceAssumption
  <1>5. /\ Source' = "active" => Source = "active"
        /\ Source' \in Broken => Source' = Source
    BY <1>1, <1>3, <1>4, SourceAssumption
    DEF Source, Expired, Broken, SourceTypeOK, Statuses
  <1> QED
    BY <1>2, <1>5

LEMMA SourceKept ==
  ASSUME UNCHANGED sourceVars
  PROVE  Source' = Source /\ (SourceTypeOK <=> SourceTypeOK') /\ (SourceInv <=> SourceInv')
  BY DEF sourceVars, Source, Expired, SourceTypeOK, SourceInv

LEMMA ViewsStart == Init => ViewsInv
  <1> SUFFICES ASSUME Init PROVE ViewsInv
    OBVIOUS
  <1>1. SourceTypeOK /\ SourceInv /\ failure = "no" /\ status = None
    BY SourceAssumption DEF Init, SourceInit, SourceTypeOK, SourceInv, Statuses
  <1>2. Source \notin {"active"} \cup Broken
    <2>1. status \notin {"available", "permission", "unavailable"}
      BY <1>1, SourceAssumption DEF Statuses
    <2> QED
      BY <1>1, <2>1 DEF Source, Broken
  <1>3. TypeOK /\ WindowsInv
    BY <1>1, ViewsAssumption DEF Init, TypeOK, WindowsInv, States, Windows, Primaries, Lists
  <1>4. PublishedInv /\ PaintedInv
    BY <1>1, <1>2 DEF Init, PublishedInv, PaintedInv, Told
  <1> QED
    BY <1>1, <1>3, <1>4 DEF ViewsInv

(* An event that brings something is published next.                        *)
LEMMA EventKeepsViews ==
  ASSUME ViewsInv, OnSamplingFailed \/ \E s \in Statuses : OnSnapshot(s)
  PROVE  ViewsInv'
  <1>1. SourceTypeOK' /\ SourceInv' /\ (status' = None <=> sample' = 0) /\ sample' \in 0..MaxSamples
        /\ (sample' = 0 => sample = 0)
    <2>1. CASE OnSamplingFailed
      BY <2>1 DEF OnSamplingFailed, SourceFail, SourceTypeOK, SourceInv, ViewsInv, TypeOK, PaintedInv
    <2>2. ASSUME NEW s \in Statuses, OnSnapshot(s) PROVE <1>1!1 /\ sample' # 0
      BY <2>2, SourceAssumption, ViewsAssumption
      DEF OnSnapshot, SourceReceive, MayFollow, SourceTypeOK, SourceInv, Statuses, FailureAfter,
          ViewsInv, TypeOK, PaintedInv
    <2> QED
      BY <2>1, <2>2
  <1>2. step' = "publish" /\ UNCHANGED <<viewVars, seen, pubVars>>
    BY DEF OnSamplingFailed, OnSnapshot
  <1>3. TypeOK' /\ WindowsInv' /\ PublishedInv'
    BY <1>1, <1>2 DEF ViewsInv, TypeOK, WindowsInv, PublishedInv, viewVars, pubVars
  <1>4. PaintedInv'
    <2>1. \A w \in fresh : w \in Lists
      BY DEF ViewsInv, TypeOK
    <2>2. \A w \in fresh : Painting(w)' = Painting(w)
      BY <1>2, <2>1 DEF Painting, pubVars, Lists
    <2> QED
      BY <1>1, <1>2, <2>2 DEF ViewsInv, PaintedInv, viewVars, pubVars
  <1> QED
    BY <1>1, <1>3, <1>4 DEF ViewsInv

(* An event that only shows or hides windows.                               *)
LEMMA WindowsKeepViews ==
  ASSUME ViewsInv, UNCHANGED <<sourceVars, sample, seen, pubVars>>,
         step = "idle", step' \in {"idle", "refresh"}, mode' \in Primaries,
         visible' \subseteq visible, showing' \subseteq Windows, WindowsInv'
  PROVE  ViewsInv'
  <1>1. Source' = Source /\ SourceTypeOK' /\ SourceInv' /\ UNCHANGED <<status, sample, seen>>
          /\ UNCHANGED <<published, fresh, painted>>
    BY SourceKept DEF ViewsInv, TypeOK, pubVars, sourceVars
  <1>2. TypeOK' /\ PublishedInv'
    BY <1>1 DEF ViewsInv, TypeOK, PublishedInv, Told
  <1>3. \A w \in fresh : Painting(w)' = Painting(w)
    BY <1>1 DEF Painting, ViewsInv, TypeOK, Lists
  <1>4. PaintedInv'
    BY <1>1, <1>3 DEF ViewsInv, PaintedInv, Told
  <1> QED
    BY <1>1, <1>2, <1>4 DEF ViewsInv

LEMMA ShowingKeepsViews ==
  ASSUME ViewsInv,
         \/ Heartbeat \/ ShowDetails \/ ShowPrimary \/ ShowCard \/ SetMicroOnTop
         \/ \E m \in Primaries : SetMode(m)
         \/ ClosePrimary \/ CollapseCard \/ CloseDetail
  PROVE  ViewsInv'
  <1>1. mode \in Primaries /\ visible \subseteq Windows /\ showing \subseteq Windows
          /\ WindowsInv
    BY DEF ViewsInv, TypeOK
  <1>2. CASE Heartbeat \/ ShowDetails \/ ShowPrimary \/ ShowCard
    <2>1. PICK W \in SUBSET Windows :
            /\ RefreshFor(W) /\ UNCHANGED <<mode, visible>>
            /\ W \cap Primaries \subseteq {mode}
            /\ "card" \in W => "micro" \in visible
      BY <1>1, <1>2
      DEF Heartbeat, ShowDetails, ShowPrimary, ShowCard, Windows, Lists, Primaries
    <2>2. WindowsInv'
      BY <1>1, <2>1 DEF WindowsInv, RefreshFor, Primaries
    <2> QED
      BY <1>1, <2>1, <2>2, WindowsKeepViews DEF RefreshFor
  <1>3. CASE SetMicroOnTop \/ \E m \in Primaries : SetMode(m)
    <2>1. PICK m \in Primaries :
            /\ RefreshFor({m}) /\ mode' = m /\ visible' \subseteq visible
            /\ visible' \cap Primaries \subseteq {m}
            /\ "card" \in visible' => m = "micro"
      BY <1>1, <1>3 DEF SetMicroOnTop, SetMode, HiddenBy, Primaries, WindowsInv
    <2>2. WindowsInv'
      BY <1>1, <2>1 DEF WindowsInv, RefreshFor, Primaries
    <2>3. {m} \subseteq Windows
      BY <2>1 DEF Windows
    <2> QED
      BY <1>1, <2>1, <2>2, <2>3, WindowsKeepViews DEF RefreshFor
  <1>4. CASE ClosePrimary \/ CollapseCard \/ CloseDetail
    <2>1. /\ visible' \subseteq visible /\ UNCHANGED <<mode, showing, step>> /\ step = "idle"
          /\ UNCHANGED <<sourceVars, sample, seen, pubVars>>
          /\ "card" \in visible' /\ "micro" \in visible => "micro" \in visible'
      BY <1>1, <1>4 DEF ClosePrimary, CollapseCard, CloseDetail, Hide, WindowsInv, Primaries
    <2>2. WindowsInv'
      BY <1>1, <2>1 DEF WindowsInv
    <2> QED
      BY <1>1, <2>1, <2>2, WindowsKeepViews
  <1> QED
    BY <1>2, <1>3, <1>4

(* The two readings of the source.                                          *)
LEMMA PublishKeepsViews == ASSUME ViewsInv, Publish \/ Refresh PROVE ViewsInv'
  <1>1. Source' = Source /\ SourceTypeOK' /\ SourceInv' /\ status' = status
          /\ UNCHANGED <<sample, mode, visible, showing, published, fresh, painted>>
    BY SourceKept DEF ViewsInv, TypeOK, Publish, Refresh, sourceVars, pubVars, viewVars
  <1>2. Source \in States
    BY SourceIsState DEF ViewsInv, TypeOK
  <1>3. TypeOK' /\ WindowsInv' /\ step' # "idle"
    BY <1>1, <1>2 DEF ViewsInv, TypeOK, WindowsInv, Publish, Refresh
  <1>4. PublishedInv'
    BY <1>1 DEF ViewsInv, PublishedInv, Publish, Refresh, Told
  <1>5. \A w \in fresh : Painting(w)' = Painting(w)
    BY <1>1 DEF Painting, ViewsInv, TypeOK, Lists
  <1>6. PaintedInv'
    BY <1>1, <1>3, <1>5 DEF ViewsInv, PaintedInv
  <1> QED
    BY <1>1, <1>3, <1>4, <1>6 DEF ViewsInv

LEMMA DisplayKeepsViews == ASSUME ViewsInv, Display PROVE ViewsInv'
  <1>1. Source' = Source /\ SourceTypeOK' /\ SourceInv' /\ status' = status
          /\ UNCHANGED <<sample, mode, visible, showing, seen, painted>>
    BY SourceKept DEF ViewsInv, TypeOK, Display, sourceVars, viewVars
  <1>2. /\ step \in {"display", "redisplay"} /\ step' \in {"refresh", "paint"}
        /\ published' = [state |-> seen, sample |-> sample, rates |-> Live(Source),
                         groups |-> Live(seen)]
        /\ fresh' = IF sample = 0 \/ SameObject(Live(Source)) THEN fresh ELSE {}
    BY DEF Display
  <1>3. (Source = "active" => seen = "active") /\ (Source \in Broken => seen = Source)
    BY <1>2 DEF ViewsInv, PublishedInv
  <1>4. /\ Told(Live(Source)) /\ Told(Live(seen)) /\ Live(Source) \in {"live", "blank"}
        /\ Live(seen) \in {"live", "blank"}
        /\ Live(Source) = "live" => Live(seen) = "live"
    BY <1>3 DEF Told, Live, Broken
  <1>5. TypeOK' /\ WindowsInv'
    BY <1>1, <1>2, <1>4 DEF ViewsInv, TypeOK, WindowsInv
  <1>6. PublishedInv'
    <2>1. /\ published'.sample = sample' /\ published'.rates = Live(Source)
          /\ published'.groups = Live(seen) /\ step' \notin {"display", "redisplay"}
      BY <1>1, <1>2
    <2> QED
      BY <1>1, <1>4, <2>1 DEF PublishedInv, Told
  <1>7. PaintedInv'
    <2>1. ASSUME NEW w \in fresh' PROVE painted'[w] = Painting(w)'
      <3>1. sample # 0 /\ w \in fresh /\ w \in Lists /\ SameObject(Live(Source))
        BY <1>2, <2>1 DEF ViewsInv, PaintedInv, TypeOK
      <3>2. published.rates = "live" /\ published.groups = "live" /\ published.sample = sample
              /\ Live(Source) = "live" /\ Live(seen) = "live"
        BY <1>4, <3>1 DEF SameObject, ViewsInv, PublishedInv
      <3>3. published'.rates = "live" /\ published'.groups = "live" /\ published'.sample = sample
        BY <1>2, <3>2
      <3> QED
        BY <1>1, <3>1, <3>2, <3>3 DEF Painting, Lists, ViewsInv, PaintedInv
    <2> QED
      BY <1>1, <1>2, <2>1 DEF ViewsInv, PaintedInv
  <1> QED
    BY <1>1, <1>5, <1>6, <1>7 DEF ViewsInv

(* After the refresh whatever is visible has been brought up to date.       *)
LEMMA PaintKeepsViews == ASSUME ViewsInv, Paint PROVE ViewsInv'
  <1>1. Source' = Source /\ SourceTypeOK' /\ SourceInv' /\ status' = status
          /\ UNCHANGED <<sample, mode, seen, published>>
    BY SourceKept DEF ViewsInv, TypeOK, Paint, sourceVars
  <1>2. /\ step = "paint" /\ step' = "idle" /\ showing' = {} /\ visible' = Targets
        /\ Targets \subseteq Windows /\ Targets = visible \cup showing
        /\ fresh' = IF sample > 0 THEN fresh \cup (Lists \cap Targets) ELSE fresh
    BY DEF Paint, Targets, ViewsInv, TypeOK
  <1>3. /\ sample \in Nat /\ fresh \subseteq Lists /\ Source \in States
        /\ published \in [state : States, sample : 0..MaxSamples, rates : {"live", "blank"},
                          groups : {"live", "blank"}]
        /\ published.sample = sample /\ Told(published.rates) /\ Told(published.groups)
    BY <1>2, SourceIsState, ViewsAssumption DEF ViewsInv, TypeOK, PublishedInv
  <1>4. Live(Source) \in {"live", "blank"} /\ Told(Live(Source))
    BY DEF Live, Told, Broken
  <1>5. \A w \in Windows : /\ Painting(w) \in [sample : 0..MaxSamples, rates : {"live", "blank"}]
                           /\ Painting(w).sample = sample /\ Told(Painting(w).rates)
    BY <1>3, <1>4 DEF Painting, ViewsInv, TypeOK
  <1>6. /\ painted' \in [Windows -> [sample : 0..MaxSamples, rates : {"live", "blank"}]]
        /\ \A w \in Windows :
             painted'[w] = IF w \in Targets /\ (w \in Lists => sample > 0 /\ w \notin fresh)
                           THEN Painting(w) ELSE painted[w]
    BY <1>5 DEF Paint, ViewsInv, TypeOK
  <1>7. TypeOK' /\ WindowsInv'
    BY <1>1, <1>2, <1>3, <1>6 DEF ViewsInv, TypeOK, WindowsInv
  <1>8. PublishedInv'
    BY <1>1, <1>2, <1>3 DEF ViewsInv, PublishedInv, Told
  <1>9. PaintedInv'
    <2>1. Lists \subseteq Windows
      BY DEF Lists, Windows
    <2>2. \A w \in Lists : Painting(w)' = Painting(w)
      BY <1>1 DEF Painting, Lists
    <2>3. \A w \in fresh : painted[w] = Painting(w)
      BY DEF ViewsInv, PaintedInv
    <2>4. \A w \in fresh' : painted'[w] = Painting(w)'
      BY <1>2, <1>3, <1>6, <2>1, <2>2, <2>3
    <2>5. ASSUME sample = 0, NEW w \in Windows
          PROVE  fresh = {} /\ painted[w] = [sample |-> 0, rates |-> "blank"] /\ Source # "active"
      BY <2>5, SourceIsState DEF ViewsInv, TypeOK, PaintedInv
    <2>6. ASSUME sample = 0, NEW w \in Windows
          PROVE  painted'[w] = [sample |-> 0, rates |-> "blank"] /\ Told("blank")
      <3>1. w \notin Lists => Painting(w) = [sample |-> 0, rates |-> "blank"]
        BY <2>5, <2>6 DEF Painting, Lists, Live
      <3>2. w \in Lists => painted'[w] = painted[w]
        BY <1>3, <1>6, <2>6
      <3> QED
        BY <1>6, <2>5, <2>6, <3>1, <3>2 DEF Told
    <2>7. ASSUME NEW w \in Targets PROVE painted'[w].sample = sample /\ Told(painted'[w].rates)
      <3>1. CASE sample = 0
        BY <1>2, <2>6, <3>1
      <3>2. CASE sample # 0
        BY <1>2, <1>3, <1>5, <1>6, <2>1, <2>3, <3>2
      <3> QED
        BY <3>1, <3>2
    <2>8. sample = 0 => fresh' = {}
      BY <1>2, <1>3 DEF ViewsInv, PaintedInv
    <2> QED
      BY <1>1, <1>2, <2>4, <2>6, <2>7, <2>8 DEF ViewsInv, PaintedInv, Told
  <1> QED
    BY <1>1, <1>7, <1>8, <1>9 DEF ViewsInv

LEMMA TimeKeepsViews ==
  ASSUME ViewsInv, Tick, UNCHANGED <<sample, viewVars, step, seen, pubVars>>
  PROVE  ViewsInv'
  <1>1. /\ SourceTypeOK' /\ SourceInv' /\ status' = status
        /\ Source' = "active" => Source = "active"
        /\ Source' \in Broken => Source' = Source
        /\ UNCHANGED <<sample, mode, visible, showing, step, seen, published, fresh, painted>>
    BY ClockDecays DEF ViewsInv, TypeOK, Tick, viewVars, pubVars
  <1>2. \A rates : Told(rates) => Told(rates)'
    BY <1>1 DEF Told
  <1>3. TypeOK' /\ WindowsInv'
    BY <1>1 DEF ViewsInv, TypeOK, WindowsInv
  <1>4. PublishedInv'
    BY <1>1, <1>2 DEF ViewsInv, PublishedInv
  <1>5. \A w \in fresh : Painting(w)' = Painting(w)
    BY <1>1 DEF Painting, ViewsInv, TypeOK, Lists
  <1>6. PaintedInv'
    BY <1>1, <1>2, <1>5 DEF ViewsInv, PaintedInv
  <1> QED
    BY <1>1, <1>3, <1>4, <1>6 DEF ViewsInv

LEMMA ViewsStep == ViewsInv /\ [Next]_vars => ViewsInv'
  <1> SUFFICES ASSUME ViewsInv, [Next]_vars PROVE ViewsInv'
    OBVIOUS
  <1>1. CASE UNCHANGED vars
    <2>1. Source' = Source /\ SourceTypeOK' /\ SourceInv' /\ status' = status
            /\ UNCHANGED <<sample, mode, visible, showing, step, seen, published, fresh, painted>>
      BY <1>1, SourceKept DEF vars, sourceVars, viewVars, pubVars, ViewsInv, TypeOK
    <2>2. \A w \in fresh : Painting(w)' = Painting(w)
      BY <2>1 DEF Painting, ViewsInv, TypeOK, Lists
    <2> QED
      BY <2>1, <2>2 DEF ViewsInv, TypeOK, WindowsInv, PublishedInv, PaintedInv, Told
  <1>2. CASE Next
    BY <1>2, EventKeepsViews, ShowingKeepsViews, PublishKeepsViews, DisplayKeepsViews,
       PaintKeepsViews, TimeKeepsViews
    DEF Next, GuiStep
  <1> QED
    BY <1>1, <1>2

(* Between two events every visible window shows the latest snapshot, with  *)
(* rates if the source is active and without if it is broken, however long  *)
(* it was hidden (controller.py:474-523).                                   *)
THEOREM ViewsStayCurrent == Spec => []ViewsAreCurrent
  <1>1. ViewsInv => ViewsAreCurrent
    BY DEF ViewsInv, ViewsAreCurrent, WindowsInv, PaintedInv, OnePrimary, ShowsLatest, ShowsSource,
           Told, Broken
  <1> QED
    BY <1>1, ViewsStart, ViewsStep, PTL DEF Spec
=============================================================================
