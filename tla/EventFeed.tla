----------------------------- MODULE EventFeed -----------------------------
(***************************************************************************)
(* Events from the block that makes them to the client that reads them:    *)
(* the hash-linked log in the state (event.rs), its publication by Commit  *)
(* to a bounded broadcast channel (consensus.rs), the websocket that skips *)
(* what it was too slow for, and GET /v1/events (api.rs).                  *)
(*                                                                         *)
(* An event is its sequence number and the hash of its predecessor.  As    *)
(* hashes do not collide the predecessor is named by its sequence number,  *)
(* 0 when there is none.                                                   *)
(***************************************************************************)
EXTENDS Naturals, Sequences, SequencesExt, FiniteSets

CONSTANTS
    MaxRetainedEvents,   \* events the state keeps (1024 in the code)
    ChannelCapacity,     \* events a slow subscriber may be behind (4096)
    DefaultLimit,        \* events GET /v1/events returns (100)
    MaxPerBlock,         \* bound: sequence numbers one block uses
    MaxSequence,         \* bound: sequence numbers of a behaviour
    MaxCrashes           \* bound: restarts of the node

ASSUME FeedAssumption ==
    /\ MaxRetainedEvents \in Nat \ {0}
    /\ ChannelCapacity \in Nat \ {0}
    /\ DefaultLimit \in Nat \ {0}
    /\ MaxSequence \in Nat
    /\ MaxPerBlock \in Nat

VARIABLES
    committed,   \* the log and sequence counter of the committed state,
                 \* and for reference all its events, never pruned
    pending,     \* those of the block in progress, or the committed ones
    started,     \* the sequence number of the state the process started with
    channel,     \* every event sent since the process started
    position,    \* events of the channel the subscriber has passed
    connected,   \* the subscriber has an open websocket
    received,    \* what the subscriber has received
    crashes

vars == <<committed, pending, started, channel, position, connected, received,
          crashes>>

NewState == [log |-> <<>>, sequence |-> 0, all |-> <<>>]

prune(log) ==
    LET excess == IF Len(log) > MaxRetainedEvents
                  THEN Len(log) - MaxRetainedEvents ELSE 0
    IN  SubSeq(log, excess + 1, Len(log))

\* Mutant: every sequence number is taken for an event's.
append_numbered(log, sequence) ==
    prune(Append(log, [sequence |-> sequence, previous |-> sequence - 1]))

append(log, sequence) ==
    prune(Append(log, [sequence |-> sequence,
                       previous |-> IF log = <<>> THEN 0
                                    ELSE Last(log).sequence]))

after(log, sequence, limit) ==
    LET later[i \in 0 .. Len(log)] ==
            IF i = 0 THEN <<>>
            ELSE IF log[i].sequence > sequence /\ Len(later[i - 1]) < limit
                 THEN Append(later[i - 1], log[i])
                 ELSE later[i - 1]
    IN  later[Len(log)]

(* A retained window is anchored by the first event's own link. *)
verify(log) ==
    \A i \in DOMAIN log :
        i > 1 => /\ log[i].previous = log[i - 1].sequence
                 /\ log[i].sequence > log[i - 1].sequence

(* GET /v1/events after a sequence number, 0 without parameters. *)
events(log, last) == after(log, last, DefaultLimit)

-----------------------------------------------------------------------------
Init ==
    /\ committed = NewState
    /\ pending = NewState
    /\ started = 0
    /\ channel = <<>>
    /\ position = 0
    /\ connected = FALSE
    /\ received = <<>>
    /\ crashes = 0

next_sequence(s) == [s EXCEPT !.sequence = @ + 1]

append_event(s) ==
    LET numbered == next_sequence(s)
        event == Last(append(s.log, numbered.sequence))
    IN  [numbered EXCEPT !.log = append(@, numbered.sequence),
                         !.all = Append(@, event)]

(* finalize_block starts from the committed state, also when the block is  *)
(* executed again.  A command uses sequence numbers for its events and for *)
(* orders; the log is pruned at the end of an empty block too.             *)
FinalizeBlock(uses) ==
    LET executed[i \in 0 .. Len(uses)] ==
            IF i = 0 THEN committed
            ELSE IF uses[i] = "event" THEN append_event(executed[i - 1])
            ELSE next_sequence(executed[i - 1])
    IN  /\ committed.sequence + Len(uses) <= MaxSequence
        /\ pending' = [executed[Len(uses)] EXCEPT !.log = prune(@)]
        /\ UNCHANGED <<committed, started, channel, position, connected,
                       received, crashes>>

\* Mutant: the first event of the block is taken for the last of the one before.
CommitAfterFirst ==
    /\ pending # committed
    /\ committed' = pending
    /\ channel' = channel \o after(pending.log, committed.sequence + 1, MaxSequence)
    /\ UNCHANGED <<pending, started, position, connected, received, crashes>>

(* What is sent is read from the pruned log, so that the first events of a *)
(* block with more events than are retained are never sent.                *)
Commit ==
    /\ pending # committed
    /\ committed' = pending
    /\ channel' = channel \o after(pending.log, committed.sequence, MaxSequence)
    /\ UNCHANGED <<pending, started, position, connected, received, crashes>>

(* The process dies and opens the store again, which refuses a log that    *)
(* does not verify.  After the store's write the events of the block may   *)
(* not have been sent.                                                     *)
Crash ==
    /\ crashes < MaxCrashes
    /\ \E durable \in {committed, pending} :
          /\ verify(durable.log)
          /\ committed' = durable
          /\ pending' = durable
          /\ started' = durable.sequence
    /\ channel' = <<>>
    /\ position' = 0
    /\ connected' = FALSE
    /\ crashes' = crashes + 1
    /\ UNCHANGED received

(* websocket: a subscription starts at the end of the channel. *)
Subscribe ==
    /\ ~ connected
    /\ connected' = TRUE
    /\ position' = Len(channel)
    /\ UNCHANGED <<committed, pending, started, channel, received, crashes>>

Disconnect ==
    /\ connected
    /\ connected' = FALSE
    /\ UNCHANGED <<committed, pending, started, channel, position, received,
                   crashes>>

Lagging == Len(channel) - position > ChannelCapacity

(* stream_events hands on one event ... *)
Receive ==
    /\ connected
    /\ position < Len(channel)
    /\ ~ Lagging
    /\ received' = Append(received, channel[position + 1])
    /\ position' = position + 1
    /\ UNCHANGED <<committed, pending, started, channel, connected, crashes>>

\* Mutant: lag starts a new subscription.
LaggedResubscribe ==
    /\ connected
    /\ Lagging
    /\ position' = Len(channel)
    /\ UNCHANGED <<committed, pending, started, channel, connected, received,
                   crashes>>

(* ... and skips those the channel has dropped, without a word. *)
Lagged ==
    /\ connected
    /\ Lagging
    /\ position' = Len(channel) - ChannelCapacity
    /\ UNCHANGED <<committed, pending, started, channel, connected, received,
                   crashes>>

Next ==
    \/ \E uses \in BoundedSeq({"event", "order"}, MaxPerBlock) :
          FinalizeBlock(uses)
    \/ Commit \/ Crash
    \/ Subscribe \/ Disconnect \/ Receive \/ Lagged

(* The gateway's task keeps polling its receiver. *)
Fairness == WF_vars(Receive) /\ WF_vars(Lagged)

Spec == Init /\ [][Next]_vars /\ Fairness

-----------------------------------------------------------------------------
TypeOK ==
    /\ committed.sequence \in 0 .. MaxSequence
    /\ pending.sequence \in committed.sequence .. MaxSequence
    /\ Len(committed.log) <= MaxRetainedEvents
    /\ position \in 0 .. Len(channel)
    /\ connected \in BOOLEAN

(* A subscriber only ever sees committed events, each once and in order,   *)
(* over restarts, repeated blocks, reconnections and lag (commit,          *)
(* stream_events).                                                         *)
FeedIsOrdered ==
    /\ \A i \in DOMAIN received : received[i] \in Range(committed.all)
    /\ \A i, j \in DOMAIN received :
          i < j => received[i].sequence < received[j].sequence

(* After any prefix a client has read it can go on with GET /v1/events:    *)
(* as long as something follows, the answer starts with the next event, or *)
(* with the oldest retained one and a link that shows the gap (events,     *)
(* after).                                                                 *)
ReaderCanResume ==
    LET history == committed.all
    IN  \A k \in 0 .. Len(history) - 1 :
        LET last == IF k = 0 THEN 0 ELSE history[k].sequence
            page == events(committed.log, last)
        IN  /\ page # <<>>
            /\ \/ IsPrefix(page, SubSeq(history, k + 1, Len(history)))
               \/ /\ IsPrefix(page, committed.log)
                  /\ Head(page).previous # last

(* The links tell a client what it missed: two events of the feed or of    *)
(* the retained log are linked exactly when nothing was committed between  *)
(* them.  The feed is in order and without repeats, a client can go on     *)
(* reading after any event, and the log verifies wherever it was pruned,   *)
(* so that the store can always be opened again (append, prune, commit,    *)
(* stream_events).                                                         *)
LinksShowGaps ==
    LET history == committed.all
        seen == Range(received) \cup Range(committed.log)
        Between(x, y) == {i \in DOMAIN history :
                            /\ history[i].sequence > x.sequence
                            /\ history[i].sequence < y.sequence}
    IN  /\ TypeOK /\ FeedIsOrdered /\ ReaderCanResume
        /\ verify(committed.log) /\ verify(pending.log)
        /\ \A x, y \in seen :
              x.sequence < y.sequence
                  => (y.previous = x.sequence <=> Between(x, y) = {})

(* GET /v1/ws: "Live events published after commit".  What is sent has     *)
(* been committed, and what this process has committed and a client could  *)
(* still read has been sent, over blocks that are executed again, blocks   *)
(* without events, pruning in the middle of a block and restarts between   *)
(* the write and the sending.  Of a block with more events than the log    *)
(* retains the first are neither sent nor retained (prune, commit).        *)
PublishedAfterCommit ==
    /\ Range(channel) \subseteq Range(committed.all)
    /\ \A event \in Range(committed.log) :
          event.sequence > started => event \in Range(channel)

(* A subscriber that stays connected is brought up to the newest event,    *)
(* with or without gaps.                                                   *)
SubscriberCatchesUp ==
    \A n \in 1 .. MaxSequence :
        (connected /\ \E i \in position + 1 .. Len(channel) :
                          channel[i].sequence = n)
            ~> (\/ ~ connected
                \/ received # <<>> /\ Last(received).sequence >= n)
=============================================================================
