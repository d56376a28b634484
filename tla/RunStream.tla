------------------------------- MODULE RunStream -------------------------------
(***************************************************************************)
(* The runs of one session and one page that follows them: the registry    *)
(* and each run's ring of frames (apps/orchestrate/runs.go), the two       *)
(* streams a page can have (runner_sse.go, runs_http.go), and the page's   *)
(* own bookkeeping (core/ui/assets/runtime/30_agent_loop_panel.js): what   *)
(* it has counted, whether it takes the turn for running, and the requests *)
(* it has under way.                                                       *)
(*                                                                         *)
(* A frame is its place in the run's log; what the page has drawn of a run *)
(* is the sequence of places it handled since its panes were last cleared. *)
(* "done" stands for the error frame too, which ends a turn the same way.  *)
(* The answer to the page's own send is read as it is written: a frame     *)
(* still on the way when the connection breaks is one that was written     *)
(* after the break.                                                        *)
(*                                                                         *)
(* Left out: other sessions, notes during a turn, background runs (which   *)
(* have their own index), thread loads that fail, and giving up after ten  *)
(* failed probes.                                                          *)
(***************************************************************************)
EXTENDS Integers, Sequences, FiniteSets, SequencesExt, FiniteSetsExt

CONSTANTS
    Runs,      \* how many runs the session has; they are 1..Runs
    MaxFrames, \* bound on the frames of a run
    Ring,      \* tune_run_max_events
    Buffer,    \* the capacity of a subscriber's channel
    Card,      \* cards a run draws and updates
    Chunk,     \* other frames of what a turn says
    MaxBreaks, \* bound on broken connections, failed probes and restarts
    MaxOps,    \* bound on what the person does besides sending, and on sweeps
    None       \* no run, no stream

ASSUME RunStreamAssumption ==
    /\ Runs \in Nat \ {0} /\ Ring \in Nat \ {0} /\ Buffer \in Nat \ {0}
    /\ MaxFrames \in Nat /\ MaxBreaks \in Nat /\ MaxOps \in Nat
    /\ None \notin Nat /\ (Card \cup Chunk) \cap {"session", "run", "done"} = {}

VARIABLES
    log,     \* each run's frames, in order
    status,  \* "new", "running", "closed", "swept"
    cancels, \* runs whose `go prev.Cancel()` is pending, and running ones whose
             \* context is done
    bySess,  \* the registry's run of this session
    page,    \* activeRunId, runSeqReceived, turnLive, sawTurnEnd
    sse,     \* activeStream: the answer to this page's own send
    es,      \* activeEventSource: a subscription to a run
    probes,  \* requests under way: opens of the thread, questions for the run
    breaks,  \* how much of MaxBreaks is left
    ops,     \* how much of MaxOps is left
    \* Auxiliary history, never in a guard of the code's actions.
    drawn,   \* what the page has drawn of each run
    owner,   \* the run whose frames runSeqReceived counts, unless it is several
    lapses   \* "astray", "ahead", "trimmed", "overflow": see the properties

serverVars == <<log, status, cancels, bySess>>
bounds     == <<breaks, ops>>
pageVars   == <<page, sse, es, probes>>
histVars   == <<drawn, owner, lapses>>
vars       == <<serverVars, pageVars, bounds, histVars>>

Run   == 1..Runs
Kind  == {"session", "run", "done"} \cup Card \cup Chunk
Probe == [kind : {"open", "recheck"}, at : {"load", "ask", "retry"}, ans : {None}]
         \cup [kind : {"open", "recheck"}, at : {"reply"}, ans : Run \cup {None}]

TypeOK ==
    /\ log \in [Run -> Seq(Kind)] /\ \A r \in Run : Len(log[r]) <= MaxFrames
    /\ status \in [Run -> {"new", "running", "closed", "swept"}]
    /\ cancels \in [pending : SUBSET Run, done : SUBSET Run]
    /\ bySess \in Run \cup {None}
    /\ page \in [run : Run \cup {None}, count : Nat, turn : BOOLEAN, end : BOOLEAN]
    /\ sse = None \/ sse \in [run : Run, closed : BOOLEAN]
    /\ es = None \/ /\ es \in [run : Run, back : Seq(1..MaxFrames), chan : Seq(1..MaxFrames),
                              closed : BOOLEAN]
                    /\ Len(es.chan) <= Buffer
    /\ probes \subseteq Probe
    /\ breaks \in Nat /\ ops \in Nat
    /\ drawn \in [Run -> Seq(1..MaxFrames)]
    /\ owner \in Run \cup {None}
    /\ lapses \subseteq {"astray", "ahead", "trimmed", "overflow"}

Init ==
    /\ log = [r \in Run |-> <<>>] /\ status = [r \in Run |-> "new"]
    /\ cancels = [pending |-> {}, done |-> {}] /\ bySess = None
    /\ page = [run |-> None, count |-> 0, turn |-> FALSE, end |-> FALSE]
    /\ sse = None /\ es = None /\ probes = {}
    /\ breaks = MaxBreaks /\ ops = MaxOps
    /\ drawn = [r \in Run |-> <<>>] /\ owner = None /\ lapses = {}

-----------------------------------------------------------------------------
(* The run's buffer *)

Oldest(r) == Max({1, Len(log[r]) - Ring + 1})

\* Run.cards: each card's latest frame.
CardFrames(r) ==
    {n \in 1..Len(log[r]) :
        log[r][n] \in Card /\ \A k \in n+1..Len(log[r]) : log[r][k] # log[r][n]}

\* The numbers of S in ascending order.
Sorted(S) ==
    CHOOSE s \in [1..Cardinality(S) -> S] :
        /\ S = {s[i] : i \in DOMAIN s}
        /\ \A i, j \in DOMAIN s : i < j => s[i] < s[j]

\* Variant: the cards that left the ring are not handed back.
BacklogRingOnly(r, since) == Sorted({n \in Oldest(r)..Len(log[r]) : n > since})

\* What Subscribe replays: the cards whose latest frame has left the ring,
\* then the ring, as far as they are past since.
Backlog(r, since) ==
    Sorted({n \in CardFrames(r) : n > since /\ n < Oldest(r)})
    \o Sorted({n \in Oldest(r)..Len(log[r]) : n > since})

-----------------------------------------------------------------------------
\* History: of a page that went astray nothing is recorded any more.
Lapse(new) ==
    /\ lapses' = lapses \cup new
    /\ drawn' = IF "astray" \in lapses \cup new THEN [r \in Run |-> <<>>] ELSE drawn

Break == breaks > 0 /\ breaks' = breaks - 1 /\ UNCHANGED ops
Op    == ops > 0 /\ ops' = ops - 1 /\ UNCHANGED breaks

(* The server *)

\* RunRegistry.Create: the session's run before it is cancelled on a
\* goroutine of its own, finished or not.
Create(r) ==
    /\ status' = [status EXCEPT ![r] = "running"]
    /\ cancels' = IF bySess = None THEN cancels
                  ELSE [cancels EXCEPT !.pending = @ \cup {bySess}]
    /\ bySess' = r
    /\ UNCHANGED log

NextRun(r) == status[r] = "new" /\ \A k \in Run : k < r => status[k] # "new"

\* A send from another page or device of the same person.
CreateElsewhere(r) ==
    /\ NextRun(r) /\ Create(r)
    /\ UNCHANGED <<pageVars, bounds, histVars>>

CancelPrev(r) ==
    /\ r \in cancels.pending
    /\ cancels' = [pending |-> cancels.pending \ {r},
                   done |-> IF status[r] = "running" THEN cancels.done \cup {r} ELSE cancels.done]
    /\ UNCHANGED <<log, status, bySess, pageVars, bounds, histVars>>

\* The Cancel button.
Cancel(r) ==
    /\ status[r] = "running" /\ r \notin cancels.done
    /\ Op
    /\ cancels' = [cancels EXCEPT !.done = @ \cup {r}]
    /\ UNCHANGED <<log, status, bySess, pageVars, histVars>>

\* The order of a turn's frames: its session, its run, then what it says.
Follows(r, k) ==
    LET n == Len(log[r])
    IN CASE n = 0 -> k = "session"
         [] n = 1 -> k = "run"
         [] OTHER -> /\ log[r][n] # "done" /\ k \in {"done"} \cup Card \cup Chunk
                     /\ n + 1 = MaxFrames => k = "done"

\* The turn returns: with its last frame sent, or cancelled.  Complete closes
\* the subscribers' channels and the handler's answer ends.
Complete(r) ==
    /\ status[r] = "running" /\ Len(log[r]) >= 2
    /\ (r \in cancels.done \/ Last(log[r]) = "done")
    /\ status' = [status EXCEPT ![r] = "closed"]
    /\ sse' = IF sse # None /\ sse.run = r THEN [sse EXCEPT !.closed = TRUE] ELSE sse
    /\ es' = IF es # None /\ es.run = r THEN [es EXCEPT !.closed = TRUE] ELSE es
    /\ cancels' = [cancels EXCEPT !.done = @ \ {r}]
    /\ UNCHANGED <<log, bySess, page, probes, bounds, histVars>>

\* Variant: the session's entry goes with any of its runs.
SweepSession(r) ==
    /\ status[r] = "closed"
    /\ Op
    /\ status' = [status EXCEPT ![r] = "swept"]
    /\ bySess' = None
    /\ UNCHANGED <<log, cancels, pageVars, histVars>>

\* RunRegistry.sweep, for a run that is past its retention.
Sweep(r) ==
    /\ status[r] = "closed"
    /\ Op
    /\ status' = [status EXCEPT ![r] = "swept"]
    /\ bySess' = IF bySess = r THEN None ELSE bySess
    /\ UNCHANGED <<log, cancels, pageVars, histVars>>

\* The server restarts: the runs are gone and the connections break.
Crash ==
    /\ Break
    /\ status' = [r \in Run |-> IF status[r] = "new" THEN "new" ELSE "swept"]
    /\ cancels' = [cancels EXCEPT !.pending = {}]
    /\ bySess' = None
    /\ sse' = IF sse = None THEN None ELSE [sse EXCEPT !.closed = TRUE]
    /\ es' = IF es = None THEN None
             ELSE [es EXCEPT !.back = <<>>, !.chan = <<>>, !.closed = TRUE]
    /\ UNCHANGED <<log, page, probes, histVars>>

\* RunRegistry.BySession.
BySession == IF bySess # None /\ status[bySess] = "running" THEN bySess ELSE None

-----------------------------------------------------------------------------
(* The page *)

\* recheckInFlight.
InFlight(ps) == \E p \in ps : p.kind = "recheck" /\ p.at # "retry"

Ask(kind, at) == [kind |-> kind, at |-> at, ans |-> None]

\* enableInput.
Idle(pg) == page' = [pg EXCEPT !.turn = FALSE] /\ sse' = None /\ es' = None

\* recheckRun, with the probe it replaces, if any.
Recheck(old) ==
    probes' = (probes \ old)
              \cup IF InFlight(probes \ old) THEN {} ELSE {Ask("recheck", "ask")}

\* streamLost.
StreamLost == sse' = None /\ es' = None /\ UNCHANGED page /\ Recheck({})

\* Variant: a stream that ends is taken for the end of the turn.
StreamGoneIdle(started) == Idle(page) /\ UNCHANGED probes

\* Variant: a stream that ends is left alone.
StreamGoneQuiet(started) == sse' = None /\ es' = None /\ UNCHANGED <<page, probes>>

\* What a stream that is gone does to the page.
StreamGone(started) ==
    IF page.end \/ ~started THEN Idle(page) /\ UNCHANGED probes ELSE StreamLost

\* sendMessage with no turn running.
Send(r) ==
    /\ ~page.turn /\ NextRun(r) /\ Create(r)
    /\ page' = [page EXCEPT !.turn = TRUE, !.end = FALSE, !.run = None]
    /\ sse' = [run |-> r, closed |-> FALSE]
    /\ UNCHANGED <<es, probes, bounds, histVars>>

\* What a subscription has still to read: the replay, then its channel.
Coming(e) == e.back \o e.chan

\* Variant: the run frame does not restart the count.
CountKept(kind) == page.count + 1

\* runSeqReceived after a frame.
Count(kind) == IF kind = "run" THEN 2 ELSE page.count + 1

\* handleEvent, and what becomes of the streams when the turn goes on: the
\* last frame ends the turn and both of them.
Frame(r, n, kind, sse1, es1) ==
    /\ drawn' = IF "astray" \in lapses THEN drawn ELSE [drawn EXCEPT ![r] = Append(@, n)]
    /\ owner' = IF kind = "run" \/ page.count = 0 \/ owner = r THEN r ELSE None
    /\ LET counted == [page EXCEPT !.count = Count(kind)]
       IN CASE kind = "done" -> Idle([counted EXCEPT !.end = TRUE])
            [] kind = "run"  -> page' = [counted EXCEPT !.run = r] /\ sse' = sse1 /\ es' = es1
            [] OTHER         -> page' = counted /\ sse' = sse1 /\ es' = es1

\* Variant: a subscriber's channel takes any number of frames.
EmitUnbounded(r, k) ==
    /\ status[r] = "running" /\ Len(log[r]) < MaxFrames /\ Follows(r, k)
    /\ log' = [log EXCEPT ![r] = Append(@, k)]
    /\ LET n == Len(log[r]) + 1
           tailed == es # None /\ es.run = r
           room   == tailed
           es1    == IF room THEN [es EXCEPT !.chan = Append(@, n)] ELSE es
       IN /\ IF sse # None /\ sse.run = r THEN Frame(r, n, k, sse, es1)
             ELSE es' = es1 /\ UNCHANGED <<page, sse, drawn, owner>>
          /\ lapses' = IF tailed /\ ~room THEN lapses \cup {"overflow"} ELSE lapses
    /\ UNCHANGED <<status, cancels, bySess, probes, bounds>>

\* sseWriter.emit: the frame goes out on the send's own answer, and
\* Run.Append puts it in the ring and offers it to the subscribers; a channel
\* that is full goes without.
Emit(r, k) ==
    /\ status[r] = "running" /\ Len(log[r]) < MaxFrames /\ Follows(r, k)
    /\ log' = [log EXCEPT ![r] = Append(@, k)]
    /\ LET n == Len(log[r]) + 1
           tailed == es # None /\ es.run = r
           room   == tailed /\ Len(es.chan) < Buffer
           es1    == IF room THEN [es EXCEPT !.chan = Append(@, n)] ELSE es
       IN /\ IF sse # None /\ sse.run = r THEN Frame(r, n, k, sse, es1)
             ELSE es' = es1 /\ UNCHANGED <<page, sse, drawn, owner>>
          /\ lapses' = IF tailed /\ ~room THEN lapses \cup {"overflow"} ELSE lapses
    /\ UNCHANGED <<status, cancels, bySess, probes, bounds>>

\* A frame of the subscription.
ReadEs ==
    /\ es # None /\ Coming(es) # <<>>
    /\ LET n == Head(Coming(es))
       IN Frame(es.run, n, log[es.run][n], sse,
                IF es.back # <<>> THEN [es EXCEPT !.back = Tail(@)]
                ELSE [es EXCEPT !.chan = Tail(@)])
    /\ UNCHANGED <<serverVars, probes, bounds, lapses>>

\* The answer to the send ends, or breaks: a turn that had started is
\* rejoined.
SseEnds ==
    /\ sse # None
    /\ \/ sse.closed /\ UNCHANGED bounds
       \/ Break
    /\ StreamGone(page.run # None)
    /\ UNCHANGED <<serverVars, histVars>>

EsEnds ==
    /\ es # None
    /\ \/ es.closed /\ Coming(es) = <<>> /\ UNCHANGED bounds
       \/ Break
    /\ StreamGone(TRUE)
    /\ UNCHANGED <<serverVars, histVars>>

\* subscribeRunStream, and Run.Subscribe on the server.  A run that has been
\* swept is not found, and the stream ends at once.
Subscribe(r) ==
    LET since == page.count
        had   == IF drawn[r] = <<>> THEN 0 ELSE Max(Range(drawn[r]))
        back  == IF status[r] = "swept" THEN <<>> ELSE Backlog(r, since)
        missed == {n \in 3..Len(log[r]) : had < n /\ n <= since}
        stray == \/ sse # None \/ (since # 0 /\ owner # r)
                 \/ \E p \in probes : p.at = "load"
    IN /\ es' = [run |-> r, back |-> back, chan |-> <<>>, closed |-> status[r] # "running"]
       /\ page' = [page EXCEPT !.run = r, !.turn = TRUE, !.end = FALSE]
       /\ Lapse((IF stray THEN {"astray"} ELSE {})
                \cup (IF "astray" \notin lapses /\ BySession = r /\ missed # {} THEN {"ahead"} ELSE {})
                \cup (IF Oldest(r) > since + 1 THEN {"trimmed"} ELSE {}))
       /\ UNCHANGED <<sse, owner>>

\* openSession.
OpenSession(old) ==
    /\ sse' = None /\ es' = None
    /\ page' = [page EXCEPT !.run = None, !.count = 0, !.turn = FALSE]
    /\ probes' = (probes \ old) \cup {Ask("open", "load")}
    /\ owner' = None /\ UNCHANGED <<drawn, lapses>>

\* The thread is there: the panes are cleared and filled with it, and
\* tryResumeRun asks for its run.
Load(p) ==
    /\ p.kind = "open" /\ p.at = "load"
    /\ drawn' = [r \in Run |-> <<>>]
    /\ lapses' = IF page.count # 0 THEN lapses \cup {"astray"} ELSE lapses
    /\ probes' = (probes \ {p}) \cup {Ask("open", "ask")}
    /\ UNCHANGED <<serverVars, page, sse, es, bounds, owner>>

\* handleRunsActive.
Answer(p) ==
    /\ p.at = "ask"
    /\ probes' = (probes \ {p}) \cup {[p EXCEPT !.at = "reply", !.ans = BySession]}
    /\ UNCHANGED <<serverVars, page, sse, es, bounds, histVars>>

\* The answer to tryResumeRun.
Resume(p) ==
    /\ p.kind = "open" /\ p.at = "reply"
    /\ probes' = probes \ {p}
    /\ IF p.ans # None THEN Subscribe(p.ans)
       ELSE UNCHANGED <<page, sse, es, histVars>>
    /\ UNCHANGED <<serverVars, bounds>>

\* The answer to recheckRun: rejoin the run, or reload the thread for the
\* ending of one that is over.
Rejoin(p) ==
    /\ p.kind = "recheck" /\ p.at = "reply"
    /\ \/ /\ p.ans # None /\ sse = None /\ es = None
          /\ probes' = probes \ {p} /\ Subscribe(p.ans)
       \/ /\ p.ans = None /\ page.turn
          /\ OpenSession({p})
       \/ /\ IF p.ans # None THEN sse # None \/ es # None ELSE ~page.turn
          /\ probes' = probes \ {p}
          /\ UNCHANGED <<page, sse, es, histVars>>
    /\ UNCHANGED <<serverVars, bounds>>

\* A probe of recheckRun fails, and is made again after a while.
ProbeFails(p) ==
    /\ p.kind = "recheck" /\ p.at \in {"ask", "reply"}
    /\ Break
    /\ probes' = (probes \ {p}) \cup {Ask("recheck", "retry")}
    /\ UNCHANGED <<serverVars, page, sse, es, histVars>>

Retry(p) ==
    /\ p.at = "retry" /\ Recheck({p})
    /\ UNCHANGED <<serverVars, page, sse, es, bounds, histVars>>

\* backOnPage: a running turn is rejoined, after a long absence even from a
\* stream that seems alive, and an idle page looks for a turn.
BackOnPage(long) ==
    /\ Op
    /\ LET streams == sse # None \/ es # None
       IN \/ page.turn /\ (long \/ ~streams) /\ StreamLost
          \/ ~page.turn /\ ~streams /\ Recheck({}) /\ UNCHANGED <<page, sse, es>>
    /\ UNCHANGED <<serverVars, histVars>>

\* The person opens the thread again.
Reopen ==
    /\ Op
    /\ OpenSession({}) /\ UNCHANGED serverVars

-----------------------------------------------------------------------------
Serve ==
    \E r \in Run :
        \/ \E k \in Kind : Emit(r, k)
        \/ Complete(r) \/ CancelPrev(r)

PageStep ==
    \/ ReadEs \/ SseEnds \/ EsEnds
    \/ \E p \in probes : Load(p) \/ Answer(p) \/ Resume(p) \/ Rejoin(p) \/ Retry(p)

Next ==
    \/ Serve \/ PageStep
    \/ \E r \in Run : CreateElsewhere(r) \/ Cancel(r) \/ Sweep(r) \/ Send(r)
    \/ \E p \in probes : ProbeFails(p)
    \/ \E long \in BOOLEAN : BackOnPage(long)
    \/ Reopen \/ Crash

Spec == Init /\ [][Next]_vars

\* A turn ends: its rounds and the model's calls are bounded.  The page reads
\* what arrives and its requests are answered.  Nobody has to send, cancel,
\* sweep or come back to the page.
Fairness == WF_vars(Serve) /\ WF_vars(PageStep)

FairSpec == Spec /\ Fairness

-----------------------------------------------------------------------------
(* Properties *)

\* What a page shows of a run is every frame from the first, once and in
\* order, however often its stream broke and by whichever request it came
\* back: unless the ring or a full channel lost frames, or the page went
\* astray, which it does when it joins a run with the count of another, has
\* two streams at once, or clears its panes under one.
ShownInOrder ==
    lapses = {} =>
        \A r \in Run : drawn[r] = [i \in 1..Len(drawn[r]) |-> i]

CaughtUp(r) ==
    \/ sse # None /\ sse.run = r
    \/ es # None /\ es.run = r /\ Coming(es) = <<>> /\ status[r] # "swept"
    \/ drawn[r] # <<>> /\ log[r][Last(drawn[r])] = "done"

\* "Subscribe hands back any card whose latest frame left the ring": a page
\* that has read all there is shows every card of the run as it is now, also
\* when the ring has forgotten part of the run.
CardsCurrent ==
    lapses \cap {"astray", "overflow"} = {} =>
        \A r \in Run : CaughtUp(r) =>
            \A n \in CardFrames(r) :
                LET shown == {i \in DOMAIN drawn[r] : log[r][drawn[r][i]] = log[r][n]}
                IN shown # {} /\ drawn[r][Max(shown)] = n

\* The run a page is told of is the newest of the session as long as that one
\* runs, and each older run that still runs has been told to stop, or is
\* about to be.
RunningFound ==
    \A r \in Run : status[r] = "running" =>
        IF \E k \in Run : k > r /\ status[k] # "new"
           THEN r \in cancels.pending \cup cancels.done
           ELSE BySession = r

AtRest == ~page.turn /\ sse = None /\ es = None /\ probes = {}

\* "going idle here left the thread with no thinking line": a page at rest
\* shows how every turn ended that it was shown the start of.
EndingShown ==
    AtRest /\ "astray" \notin lapses =>
        \A r \in Run : Len(drawn[r]) >= 2 => log[r][Last(drawn[r])] = "done"

\* A page that takes a turn for running comes to know that it is over.
PageSettles == page.turn ~> ~page.turn

\* "A rejoin after a dropped stream asked for events past ones the new run
\* never had, and missed all it had sent so far": a page does not pass over
\* what a run has said by asking for frames after the ones it has of it.
RejoinsWhereItLeft == "ahead" \notin lapses
=============================================================================
