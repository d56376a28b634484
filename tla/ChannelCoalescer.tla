-------------------------- MODULE ChannelCoalescer --------------------------
(***************************************************************************)
(* The coalescer of inbound channel messages (core/channel_coalesce.go),   *)
(* for one session key.  Every message is a goroutine of the messaging     *)
(* transport that calls Dispatch.  The first one opens a batch and leads   *)
(* it; the same speaker's next ones are folded into it while it collects,  *)
(* and take it over when it is already being answered; another speaker     *)
(* waits for the slot.  Exactly one caller of a batch returns its reply.   *)
(*                                                                         *)
(* A step is one critical section of c.mu.  Deadlines are the flag due:    *)
(* the window of a batch elapses at any time.  What a turn says is left    *)
(* out, and so is the order of the texts in a batch: a batch is the set of *)
(* messages it answers, with the handle it runs under.  Coalescing is on   *)
(* (the window is positive); off, Dispatch is a plain call of the agent.   *)
(***************************************************************************)
EXTENDS Naturals

CONSTANTS
    Message,   \* inbound messages of one session, in the life of the model
    Handle,    \* the speakers' handles
    From,      \* whose message it is
    None       \* the session has no batch

Inbound == [text : SUBSET Message, handle : Handle]
State   == [pending : Inbound, due : BOOLEAN,
            phase : {"collecting", "running"}, gen : Nat,
            cancel : Message \cup {None}]

ASSUME CoalescerAssumption ==
    /\ From \in [Message -> Handle]
    /\ None \notin Message \cup State

VARIABLES
    slot,       \* c.sess[key]: a coalesceState, or None
    pc,         \* where each message's goroutine is
    turn,       \* the merged inbound a leader dispatched
    myGen,      \* the gen it dispatched it under
    cancelled,  \* its context was cancelled by somebody else
    reply,      \* the messages the reply a caller returned is an answer to
    \* Auxiliary history, in no guard.
    slipped     \* a run outlived the one that superseded it, or a wait ran out

vars == <<slot, pc, turn, myGen, cancelled, reply, slipped>>

TypeOK ==
    /\ slot \in State \cup {None}
    /\ pc \in [Message -> {"idle", "waiting", "leading", "running", "done"}]
    /\ turn \in [Message -> Inbound]
    /\ myGen \in [Message -> Nat]
    /\ cancelled \in [Message -> BOOLEAN]
    /\ reply \in [Message -> SUBSET Message]
    /\ slipped \in BOOLEAN
    /\ slot # None /\ slot.phase = "running" => slot.due /\ slot.cancel # None

Single(m) == [text |-> {m}, handle |-> From[m]]

\* A batch of one, its window just opened.
Fresh(m) == [pending |-> Single(m), due |-> FALSE, phase |-> "collecting",
             gen |-> 0, cancel |-> None]

\* mergeInbound: the identity stays the first message's.
MergeInbound(base, m) == [base EXCEPT !.text = @ \cup {m}]

SameSpeaker(base, m) == base.handle = From[m]

Collecting == slot # None /\ slot.phase = "collecting"
Running    == slot # None /\ slot.phase = "running"
Own(m)     == SameSpeaker(slot.pending, m)

Init ==
    /\ slot = None
    /\ pc = [m \in Message |-> "idle"]
    /\ turn = [m \in Message |-> Single(m)]
    /\ myGen = [m \in Message |-> 0]
    /\ cancelled = [m \in Message |-> FALSE]
    /\ reply = [m \in Message |-> {}]
    /\ slipped = FALSE

Goes(m, where) == pc' = [pc EXCEPT ![m] = where]

\* st.cancel, when a run has set it.
CancelRun == cancelled' = [m \in Message |-> cancelled[m] \/ slot.cancel = m]

-----------------------------------------------------------------------------
(* Dispatch and leadOwn *)

\* The slot is free: open a batch and lead it.  A waiting speaker's poll does
\* the same.
Open(m) ==
    /\ pc[m] \in {"idle", "waiting"} /\ slot = None
    /\ slot' = Fresh(m)
    /\ Goes(m, "leading")
    /\ UNCHANGED <<turn, myGen, cancelled, reply, slipped>>

\* A batch of one's own is open: merge, extend the window, stay silent.
Merge(m) ==
    /\ pc[m] \in {"idle", "waiting"} /\ Collecting /\ Own(m)
    /\ slot' = [slot EXCEPT !.pending = MergeInbound(@, m), !.due = FALSE]
    /\ Goes(m, "done")
    /\ UNCHANGED <<turn, myGen, cancelled, reply, slipped>>

\* Variant: the refused message leads whatever is in the slot.
DeferLeads(m) ==
    /\ pc[m] = "idle" /\ slot # None /\ ~Own(m)
    /\ slot' = [slot EXCEPT !.due = @ \/ Collecting]
    /\ Goes(m, "leading")
    /\ UNCHANGED <<turn, myGen, cancelled, reply, slipped>>

\* Variant: messages are merged whoever sent them.
DeferMerges(m) ==
    /\ pc[m] = "idle" /\ slot # None /\ ~Own(m)
    /\ slot' = [slot EXCEPT !.pending = MergeInbound(@, m)]
    /\ Goes(m, "done")
    /\ UNCHANGED <<turn, myGen, cancelled, reply, slipped>>

\* Somebody else's batch is there: close its window and wait for the slot.  A
\* turn that is running is left alone.
Defer(m) ==
    /\ pc[m] = "idle" /\ slot # None /\ ~Own(m)
    /\ slot' = [slot EXCEPT !.due = @ \/ Collecting]
    /\ Goes(m, "waiting")
    /\ UNCHANGED <<turn, myGen, cancelled, reply, slipped>>

\* Variant: the running turn is superseded and not cancelled.
SupersedeUncancelled(m) ==
    /\ pc[m] = "idle" /\ Running /\ Own(m)
    /\ slot' = [slot EXCEPT !.pending = MergeInbound(@, m), !.due = FALSE,
                            !.phase = "collecting", !.gen = @ + 1]
    /\ Goes(m, "leading")
    /\ UNCHANGED <<turn, myGen, cancelled, reply, slipped>>

\* One's own turn is running: fold the message into what it was answering,
\* supersede and cancel it, and lead the reopened batch.
Supersede(m) ==
    /\ pc[m] = "idle" /\ Running /\ Own(m)
    /\ slot' = [slot EXCEPT !.pending = MergeInbound(@, m), !.due = FALSE,
                            !.phase = "collecting", !.gen = @ + 1]
    /\ CancelRun
    /\ Goes(m, "leading")
    /\ UNCHANGED <<turn, myGen, reply, slipped>>

\* The wait ran out with the slot still taken: cancel what runs and replace
\* the batch by one's own.
TakeSlot(m) ==
    /\ pc[m] = "waiting" /\ slot # None /\ ~(Collecting /\ Own(m))
    /\ slot' = Fresh(m)
    /\ CancelRun
    /\ Goes(m, "leading")
    /\ slipped' = TRUE
    /\ UNCHANGED <<turn, myGen, reply>>

-----------------------------------------------------------------------------
(* lead *)

\* Time passes: the window of the batch is over.
WindowElapses ==
    /\ slot # None /\ ~slot.due
    /\ slot' = [slot EXCEPT !.due = TRUE]
    /\ UNCHANGED <<pc, turn, myGen, cancelled, reply, slipped>>

\* Variant: the run's cancel is not recorded.
PromoteUncancellable(m) ==
    /\ pc[m] = "leading" /\ slot # None /\ slot.due
    /\ turn' = [turn EXCEPT ![m] = slot.pending]
    /\ myGen' = [myGen EXCEPT ![m] = slot.gen]
    /\ slot' = [slot EXCEPT !.phase = "running"]
    /\ Goes(m, "running")
    /\ UNCHANGED <<cancelled, reply, slipped>>

\* Promote to running and dispatch what has been merged.
Promote(m) ==
    /\ pc[m] = "leading" /\ slot # None /\ slot.due
    /\ turn' = [turn EXCEPT ![m] = slot.pending]
    /\ myGen' = [myGen EXCEPT ![m] = slot.gen]
    /\ slot' = [slot EXCEPT !.phase = "running", !.cancel = m]
    /\ Goes(m, "running")
    /\ UNCHANGED <<cancelled, reply, slipped>>

\* "Ownership was taken and released by someone else."
LeadGone(m) ==
    /\ pc[m] = "leading" /\ slot = None
    /\ Goes(m, "done")
    /\ UNCHANGED <<slot, turn, myGen, cancelled, reply, slipped>>

\* The batch in the slot is the one m dispatched.
Current(m) == slot # None /\ slot.gen = myGen[m]

\* Variant: the batch stays in the slot.
ReturnKeepsSlot(m) ==
    /\ pc[m] = "running" /\ Current(m)
    /\ reply' = [reply EXCEPT ![m] = turn[m].text]
    /\ slipped' = (slipped \/ \E k \in Message \ {m} : pc[k] = "running")
    /\ Goes(m, "done")
    /\ UNCHANGED <<slot, turn, myGen, cancelled>>

\* run came back and the batch is still its own: clear the slot, return the
\* reply.
Return(m) ==
    /\ pc[m] = "running" /\ Current(m)
    /\ slot' = None
    /\ reply' = [reply EXCEPT ![m] = turn[m].text]
    /\ slipped' = (slipped \/ \E k \in Message \ {m} : pc[k] = "running")
    /\ Goes(m, "done")
    /\ UNCHANGED <<turn, myGen, cancelled>>

\* Variant: the result of a superseded run is returned all the same.
DiscardReplies(m) ==
    /\ pc[m] = "running" /\ ~Current(m)
    /\ reply' = [reply EXCEPT ![m] = turn[m].text]
    /\ Goes(m, "done")
    /\ UNCHANGED <<slot, turn, myGen, cancelled, slipped>>

\* run came back superseded: the newer leader owns the reply.
Discard(m) ==
    /\ pc[m] = "running" /\ ~Current(m)
    /\ Goes(m, "done")
    /\ UNCHANGED <<slot, turn, myGen, cancelled, reply, slipped>>

Lead(m) == Promote(m) \/ LeadGone(m)
Ran(m)  == Return(m) \/ Discard(m)
Poll(m) == pc[m] = "waiting" /\ (Open(m) \/ Merge(m))

Next ==
    \/ \E m \in Message : Open(m) \/ Merge(m) \/ Defer(m) \/ Supersede(m)
                          \/ TakeSlot(m) \/ Lead(m) \/ Ran(m)
    \/ WindowElapses

Spec == Init /\ [][Next]_vars

\* Clocks advance, goroutines wake from their sleeps, and a turn ends (its
\* context has a deadline).  Messages need not come.
FairSpec == Spec /\ WF_vars(WindowElapses)
                 /\ \A m \in Message : WF_vars(Lead(m)) /\ WF_vars(Ran(m))
                                       /\ WF_vars(Poll(m))

-----------------------------------------------------------------------------
(* Properties *)

Answered == UNION {reply[m] : m \in Message}

\* Whose business the slot is: the one caller that leads its batch or runs it.
Leads(m) == slot # None /\
    \/ pc[m] = "leading"
    \/ pc[m] = "running" /\ Current(m)

\* Nobody is silently dropped: a message whose Dispatch has returned was
\* answered, or is in the batch in the slot and somebody is driving it.  It
\* holds as long as every superseded run returns before the one that
\* superseded it and nobody's wait for the slot runs out.
Carried(m) ==
    \/ m \in Answered
    \/ slot # None /\ m \in slot.pending.text /\ \E l \in Message : Leads(l)

NobodyDropped ==
    ~slipped => \A m \in Message : pc[m] = "done" => Carried(m)

\* A message is answered once, by one reply, however often its turn was
\* superseded and reprocessed.
AnsweredOnce ==
    ~slipped => \A k, l \in Message : k # l => reply[k] \cap reply[l] = {}

\* No turn holds one person's words under another person's handle, not even
\* one that outlived its batch: the handle is what authority is derived from.
OneSpeaker ==
    \A l \in Message : \A m \in turn[l].text : From[m] = turn[l].handle

\* A session's turns take turns: of two that run, one was told to stop.
TurnsTakeTurns ==
    ~slipped => \A k, l \in Message :
        k # l /\ pc[k] = "running" /\ pc[l] = "running"
            => cancelled[k] \/ cancelled[l]

\* Every message that came in is answered: batches close, turns end, and the
\* speaker who waits gets the slot.
EveryoneAnswered ==
    \A m \in Message : pc[m] # "idle" ~> (m \in Answered \/ slipped)
=============================================================================
