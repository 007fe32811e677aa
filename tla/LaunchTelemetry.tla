--------------------------- MODULE LaunchTelemetry ---------------------------
(***************************************************************************)
(* How a running model is doing, as the pages of one agent poll it         *)
(* (crates/atlasctl/src/launchtelemetry/mod.rs, atlasctl-agent's           *)
(* launchstats.rs, atlasctl-core's metrics.rs).  A rate is the difference  *)
(* of two scrapes, so the agent keeps the previous one: one for all pages, *)
(* behind a lock of its own, and beside it, behind another, the recipe it  *)
(* is of.                                                                  *)
(***************************************************************************)
EXTENDS Integers

CONSTANTS Absent,     \* no value
          Recipes, Pages,
          EnginePort, \* ports a model may serve on
          MAX_WINDOW, \* launchstats.rs MAX_WINDOW, in ticks
          MaxTime, MaxLaunches   \* BOUNDS

TelemetryAssumption ==
  /\ Absent \notin Recipes
  /\ {MAX_WINDOW, MaxTime, MaxLaunches} \subseteq Nat

VARIABLES
  engine,   \* the engine each recipe's container runs: its port and counters
  current,  \* LocalLaunchTelemetry.current: the recipe last asked for
  last,     \* LaunchSampler.last: the previous scrape and when it was asked for
  poll,     \* the request of each page and how far it is
  shown,    \* history: the reading just given, with the two scrapes it is of
  now,      \* Instant::now
  launches  \* engines started so far

telemetryVars == <<engine, current, last, poll, shown, now, launches>>

Quiet == [at |-> "idle", recipe |-> Absent, port |-> Absent, when |-> 0,
          scrape |-> Absent, crossed |-> FALSE]
Nothing == [rate |-> Absent, window |-> 0, of |-> {}]

TelemetryInit ==
  /\ engine = [r \in Recipes |-> Absent]
  /\ current = Absent /\ last = Absent
  /\ poll = [p \in Pages |-> Quiet] /\ shown = Nothing
  /\ now = 0 /\ launches = 0

\* No reading is given in this step.
NoAnswer == shown' = Nothing

Running == {r \in Recipes : engine[r] # Absent}

-----------------------------------------------------------------------------
(* Engines *)

Launched(r, port) ==
  /\ engine[r] = Absent /\ launches < MaxLaunches
  /\ \A q \in Running : engine[q].port # port
  /\ engine' = [engine EXCEPT ![r] =
                  [id |-> launches, port |-> port, born |-> now,
                   tokens |-> 0]]
  /\ launches' = launches + 1
  /\ NoAnswer /\ UNCHANGED <<current, last, poll, now>>

Stopped(r) ==
  /\ r \in Running
  /\ engine' = [engine EXCEPT ![r] = Absent]
  /\ NoAnswer /\ UNCHANGED <<current, last, poll, now, launches>>

\* Time passes, and the models that are asked something count tokens.
Tick(busy) ==
  /\ now < MaxTime /\ now' = now + 1
  /\ engine' = [r \in Recipes |-> IF r \in busy THEN [engine[r] EXCEPT !.tokens = @ + 1]
                                                ELSE engine[r]]
  /\ NoAnswer /\ UNCHANGED <<current, last, poll, launches>>

-----------------------------------------------------------------------------
(* The arithmetic *)

\* metrics::rate, over whole ticks: what was counted and how long it took.
Rate(previous, this, elapsed) ==
  IF elapsed <= 0 \/ this < previous THEN Absent
  ELSE [counted |-> this - previous, over |-> elapsed]

\* Not across a gap nobody watched.
Window(previous, when) ==
  LET elapsed == IF when > previous.when THEN when - previous.when ELSE 0
  IN  IF elapsed <= MAX_WINDOW THEN elapsed ELSE 0

-----------------------------------------------------------------------------
(* A poll *)

InFlight(p) == poll[p].at # "idle"
Answer(p, reading) == poll' = [poll EXCEPT ![p] = Quiet] /\ shown' = reading

\* Whether a sample of another recipe is under way.
Crossing(r) == {q \in Pages : InFlight(q) /\ poll[q].recipe # r}

\* Mutant: the previous scrape is kept whoever is asked for.
AskKeepsTheScrape(p, r) ==
  /\ ~InFlight(p)
  /\ current' = r /\ UNCHANGED last
  /\ poll' = [q \in Pages |->
       IF q = p THEN [Quiet EXCEPT !.at = "asked", !.recipe = r,
                                   !.crossed = Crossing(r) # {}]
       ELSE IF q \in Crossing(r) THEN [poll[q] EXCEPT !.crossed = TRUE]
       ELSE poll[q]]
  /\ NoAnswer /\ UNCHANGED <<engine, now, launches>>

\* sample's first lock: another engine's counters are no baseline for this one.
Ask(p, r) ==
  /\ ~InFlight(p)
  /\ IF current = r THEN UNCHANGED <<current, last>>
     ELSE current' = r /\ last' = Absent
  /\ poll' = [q \in Pages |->
       IF q = p THEN [Quiet EXCEPT !.at = "asked", !.recipe = r,
                                   !.crossed = Crossing(r) # {}]
       ELSE IF q \in Crossing(r) THEN [poll[q] EXCEPT !.crossed = TRUE]
       ELSE poll[q]]
  /\ NoAnswer /\ UNCHANGED <<engine, now, launches>>

\* The port the container names, and the time of the sample.
FindPort(p) ==
  /\ poll[p].at = "asked"
  /\ LET r == poll[p].recipe
     IN IF r \in Running
        THEN poll' = [poll EXCEPT ![p].at = "found", ![p].port = engine[r].port,
                                  ![p].when = now]
             /\ NoAnswer
        ELSE Answer(p, Nothing)
  /\ UNCHANGED <<engine, current, last, now, launches>>

\* Whoever serves on the port now; a model that still loads does not answer.
ScrapeIt(p) ==
  /\ poll[p].at = "found"
  /\ \/ \E r \in Running :
          /\ engine[r].port = poll[p].port
          /\ poll' = [poll EXCEPT ![p].at = "scraped", ![p].scrape = engine[r]]
          /\ NoAnswer
     \/ Answer(p, Nothing)
  /\ UNCHANGED <<engine, current, last, now, launches>>

\* sampler.last's lock: the rates against the previous scrape, and this one kept.
Sample(p) ==
  /\ poll[p].at = "scraped"
  /\ LET this == [scrape |-> poll[p].scrape, when |-> poll[p].when,
                  crossed |-> poll[p].crossed]
         secs == IF last = Absent THEN 0 ELSE Window(last, this.when)
     IN /\ Answer(p, IF secs = 0 THEN Nothing
                     ELSE [rate |-> Rate(last.scrape.tokens, this.scrape.tokens, secs),
                           window |-> secs, of |-> {last, this}])
        /\ last' = this
  /\ UNCHANGED <<engine, current, now, launches>>

TelemetryNext ==
  \/ \E r \in Recipes :
       \/ Stopped(r)
       \/ \E port \in EnginePort : Launched(r, port)
       \/ \E p \in Pages : Ask(p, r)
  \/ \E p \in Pages : FindPort(p) \/ ScrapeIt(p) \/ Sample(p)
  \/ \E busy \in SUBSET Running : Tick(busy)

TelemetrySpec == TelemetryInit /\ [][TelemetryNext]_telemetryVars

-----------------------------------------------------------------------------
(* Properties *)

TelemetryTypeOK ==
  /\ \A r \in Running : engine[r].port \in EnginePort /\ engine[r].tokens <= now
  /\ current \in Recipes \cup {Absent} /\ now \in 0..MaxTime
  /\ \A p \in Pages : poll[p].recipe \in Recipes \cup {Absent}

\* A rate that is shown was taken between two scrapes of one engine, unless one
\* was started since the first of them was asked for, or a page asked for another
\* recipe while one of the two was being taken.  Both exceptions are
\* real: the first is what launchstats.rs says reset is called for at a stop,
\* which nothing does; the second falls between the two locks.
RateIsOfOneEngine ==
  shown.rate # Absent =>
    \/ \A x, y \in shown.of : x.scrape.id = y.scrape.id
    \/ \E x, y \in shown.of : x.scrape.born >= y.when
    \/ \E x \in shown.of : x.crossed
=============================================================================
