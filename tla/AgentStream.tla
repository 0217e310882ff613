------------------------------ MODULE AgentStream -----------------------------
(***************************************************************************)
(* The live stream of one agent request: the in-process hub                *)
(* (internal/service/agent_stream_hub.go), the goroutines that publish to  *)
(* it (the submitting read loop and the done-event consumer), and the SSE  *)
(* connections that follow it (internal/api/handler/agent_stream_handler). *)
(*                                                                         *)
(* The hub's lock makes Subscribe atomic and the first half of Publish,    *)
(* too; but Publish sends to the channels it copied after it has unlocked, *)
(* and unsubscribe closes its channel after it has unlocked.  A send on a  *)
(* closed channel panics, and neither publisher recovers: the API process  *)
(* dies.                                                                   *)
(***************************************************************************)
EXTENDS Naturals, Sequences, FiniteSets

CONSTANTS
    Streams,        \* GET /api/agent/stream requests for the request id
    Publishers,     \* goroutines that publish to it
    Scripts,        \* [Publishers -> Seq(Types)]: what each may publish, in order
    RecentMax,      \* events kept for replay (200)
    Cap,            \* capacity of a subscriber's channel (64)
    MaxLeaves       \* bound: clients that go away

Types == {"agent.start", "agent.step", "agent.done"}
Final == {"agent.done"}     \* agent.error ends a stream in the same way

ASSUME StreamAssumption ==
    /\ Scripts \subseteq [Publishers -> Seq(Types)]
    /\ RecentMax \in Nat \ {0} /\ Cap \in Nat \ {0} /\ MaxLeaves \in Nat

VARIABLES
    script,         \* what each publisher has yet to publish
    sending,        \* the event it is sending, and the channels it copied
    nextID,         \* h.nextID
    recent,         \* h.recent of the request
    subscribers,    \* streams whose channel is in h.subscribers
    pc,             \* where each stream's handler is
    replay,         \* the replay it has yet to write
    chan,           \* its channel
    out,            \* the events it has written to the client
    crashed,        \* the process died of a panic
    leaves,
    base,           \* history: last id the subscription does not owe the stream
    missed          \* history: ids dropped because the channel was full

vars == <<script, sending, nextID, recent, subscribers, pc, replay, chan, out,
          crashed, leaves, base, missed>>
hubVars == <<script, sending, nextID, recent, crashed>>

Phases == {"off", "replay", "live", "leaving", "closing", "closed"}
Events == [id : Nat, from : Publishers, type : Types]

\* A publisher between two events; NoEvent stands for no event.
NoEvent == [id |-> 0, from |-> CHOOSE p \in Publishers : TRUE, type |-> "agent.start"]
Idle == [event |-> NoEvent, to |-> {}]

Init ==
    /\ script \in Scripts
    /\ sending = [p \in Publishers |-> Idle]
    /\ nextID = 0 /\ recent = <<>> /\ subscribers = {}
    /\ pc = [s \in Streams |-> "off"]
    /\ replay = [s \in Streams |-> <<>>]
    /\ chan = [s \in Streams |-> <<>>]
    /\ out = [s \in Streams |-> <<>>]
    /\ crashed = FALSE /\ leaves = 0
    /\ base = [s \in Streams |-> 0]
    /\ missed = [s \in Streams |-> {}]

-----------------------------------------------------------------------------
LastOf(seq, n) == IF Len(seq) > n THEN SubSeq(seq, Len(seq) - n + 1, Len(seq)) ELSE seq

\* Mutant of Publish: the channels are looked up when sending, not under the
\* lock that records the event.
PublishToAll(p) ==
    /\ sending[p].to = {} /\ script[p] # <<>>
    /\ LET e == [id |-> nextID + 1, from |-> p, type |-> Head(script[p])] IN
       /\ recent' = LastOf(Append(recent, e), RecentMax)
       /\ sending' = [sending EXCEPT ![p] = [event |-> e, to |-> Streams]]
    /\ nextID' = nextID + 1
    /\ script' = [script EXCEPT ![p] = Tail(@)]
    /\ UNCHANGED <<subscribers, pc, replay, chan, out, crashed, leaves, base, missed>>

\* Publish up to the Unlock: number the event, keep it for replay, copy the
\* subscribers.
Publish(p) ==
    /\ sending[p].to = {} /\ script[p] # <<>>
    /\ LET e == [id |-> nextID + 1, from |-> p, type |-> Head(script[p])] IN
       /\ recent' = LastOf(Append(recent, e), RecentMax)
       /\ sending' = [sending EXCEPT ![p] = [event |-> e, to |-> subscribers]]
    /\ nextID' = nextID + 1
    /\ script' = [script EXCEPT ![p] = Tail(@)]
    /\ UNCHANGED <<subscribers, pc, replay, chan, out, crashed, leaves, base, missed>>

\* The non-blocking send to one of the copied channels: sent, or dropped when
\* the channel is full, or a panic when it is closed.
Send(p, s) ==
    /\ s \in sending[p].to
    /\ sending' = [sending EXCEPT ![p].to = @ \ {s}]
    /\ CASE pc[s] = "closed" ->
              crashed' = TRUE /\ UNCHANGED <<chan, missed>>
         [] pc[s] # "closed" /\ Len(chan[s]) < Cap ->
              /\ chan' = [chan EXCEPT ![s] = Append(@, sending[p].event)]
              /\ UNCHANGED <<crashed, missed>>
         [] OTHER ->
              /\ missed' = [missed EXCEPT ![s] = @ \cup {sending[p].event.id}]
              /\ UNCHANGED <<crashed, chan>>
    /\ UNCHANGED <<script, nextID, recent, subscribers, pc, replay, out, leaves, base>>

-----------------------------------------------------------------------------
\* Subscribe, and the handler's own agent.start (which has no id and is left
\* out of `out`).
Open(s) ==
    /\ pc[s] = "off"
    /\ subscribers' = subscribers \cup {s}
    /\ replay' = [replay EXCEPT ![s] = recent]
    /\ base' = [base EXCEPT ![s] = nextID - Len(recent)]
    /\ pc' = [pc EXCEPT ![s] = "replay"]
    /\ UNCHANGED <<hubVars, chan, out, leaves, missed>>

\* Mutant of Replay: the replay is skipped.
ReplaySkipped(s) ==
    /\ pc[s] = "replay"
    /\ pc' = [pc EXCEPT ![s] = "live"]
    /\ replay' = [replay EXCEPT ![s] = <<>>]
    /\ UNCHANGED <<hubVars, subscribers, chan, out, leaves, base, missed>>

\* The replay is written, whatever it holds, before the channel is read.
Replay(s) ==
    /\ pc[s] = "replay"
    /\ IF replay[s] = <<>>
       THEN pc' = [pc EXCEPT ![s] = "live"] /\ UNCHANGED <<replay, out>>
       ELSE /\ out' = [out EXCEPT ![s] = Append(@, Head(replay[s]))]
            /\ replay' = [replay EXCEPT ![s] = Tail(@)]
            /\ UNCHANGED pc
    /\ UNCHANGED <<hubVars, subscribers, chan, leaves, base, missed>>

\* Mutant of Follow: the handler stays after the final event.
FollowOn(s) ==
    /\ pc[s] = "live" /\ chan[s] # <<>>
    /\ out' = [out EXCEPT ![s] = Append(@, Head(chan[s]))]
    /\ chan' = [chan EXCEPT ![s] = Tail(@)]
    /\ UNCHANGED <<hubVars, subscribers, pc, replay, leaves, base, missed>>

\* An event from the channel is written; the final one ends the handler.
Follow(s) ==
    /\ pc[s] = "live" /\ chan[s] # <<>>
    /\ out' = [out EXCEPT ![s] = Append(@, Head(chan[s]))]
    /\ chan' = [chan EXCEPT ![s] = Tail(@)]
    /\ pc' = [pc EXCEPT ![s] = IF Head(chan[s]).type \in Final THEN "leaving" ELSE "live"]
    /\ UNCHANGED <<hubVars, subscribers, replay, leaves, base, missed>>

\* The client goes away: a write fails or the request's context is done.
Leave(s) ==
    /\ pc[s] \in {"replay", "live"} /\ leaves < MaxLeaves
    /\ leaves' = leaves + 1
    /\ pc' = [pc EXCEPT ![s] = "leaving"]
    /\ UNCHANGED <<hubVars, subscribers, replay, chan, out, base, missed>>

\* unsubscribe, under the lock and after it.
Unsubscribe(s) ==
    /\ pc[s] = "leaving"
    /\ subscribers' = subscribers \ {s}
    /\ pc' = [pc EXCEPT ![s] = "closing"]
    /\ UNCHANGED <<hubVars, replay, chan, out, leaves, base, missed>>

Close(s) ==
    /\ pc[s] = "closing"
    /\ pc' = [pc EXCEPT ![s] = "closed"]
    /\ UNCHANGED <<hubVars, subscribers, replay, chan, out, leaves, base, missed>>

PublisherStep(p) == ~crashed /\ (Publish(p) \/ \E s \in Streams : Send(p, s))
HandlerStep(s) == ~crashed /\ (Replay(s) \/ Follow(s) \/ Unsubscribe(s) \/ Close(s))

Next ==
    \/ \E p \in Publishers : PublisherStep(p)
    \/ \E s \in Streams : HandlerStep(s) \/ (~crashed /\ (Open(s) \/ Leave(s)))

Spec == Init /\ [][Next]_vars

\* The goroutines run; nobody has to open a stream or to go away.
FairSpec ==
    /\ Spec
    /\ \A p \in Publishers : WF_vars(PublisherStep(p))
    /\ \A s \in Streams : WF_vars(HandlerStep(s))

-----------------------------------------------------------------------------
Ids(seq) == {seq[i].id : i \in 1 .. Len(seq)}

TypeOK ==
    /\ script \in [Publishers -> Seq(Types)]
    /\ sending \in [Publishers -> [event : Events, to : SUBSET Streams]]
    /\ nextID \in Nat
    /\ recent \in Seq(Events) /\ Len(recent) <= RecentMax
    /\ subscribers \subseteq Streams
    /\ pc \in [Streams -> Phases]
    /\ replay \in [Streams -> Seq(Events)]
    /\ chan \in [Streams -> Seq(Events)] /\ \A s \in Streams : Len(chan[s]) <= Cap
    /\ out \in [Streams -> Seq(Events)]
    /\ crashed \in BOOLEAN /\ leaves \in Nat
    /\ base \in [Streams -> Nat]
    /\ missed \in [Streams -> SUBSET Nat]

\* An event reaches a client at most once: what the replay holds is never
\* sent on the channel as well.
NothingTwice ==
    \A s \in Streams :
        Cardinality(Ids(out[s]) \cup Ids(replay[s]) \cup Ids(chan[s]))
            = Len(out[s]) + Len(replay[s]) + Len(chan[s])

\* Between the replay and the channel no event falls through: one published
\* since the oldest replayed is written, on its way, or was dropped because
\* the client was Cap events behind.
NothingLost ==
    \A s \in Streams : pc[s] \in {"replay", "live"} =>
        \A id \in base[s] + 1 .. nextID :
            \/ id \in Ids(out[s]) \cup Ids(replay[s]) \cup Ids(chan[s]) \cup missed[s]
            \/ \E p \in Publishers : s \in sending[p].to /\ sending[p].event.id = id

\* A stream that was open when the final event was published and was not Cap
\* events behind ends.
FinalEventEndsStream ==
    \A s \in Streams :
        (/\ pc[s] \in {"replay", "live"}
         /\ \E i \in 1 .. Len(chan[s]) : chan[s][i].type \in Final)
        ~> (pc[s] = "closed" \/ crashed)

-----------------------------------------------------------------------------
(* What the documents promise and the code does not do.                     *)

\* "收到 agent.done 或 agent.error 后关闭连接" (documents/sse最小改造方案.md:25):
\* a stream that has shown the final event is closed.
DoneClosesStream ==
    \A s \in Streams :
        (\E i \in 1 .. Len(out[s]) : out[s][i].type \in Final) ~> (pc[s] = "closed" \/ crashed)

\* "按事件顺序持续推送" (documents/sse最小改造方案.md:23): a stream shows the
\* events in the order the hub numbered them.
EventsInOrder ==
    \A s \in Streams : \A i, j \in 1 .. Len(out[s]) : i < j => out[s][i].id < out[s][j].id

\* "不影响现有 WebSocket 聊天主链路" (documents/sse最小改造方案.md:134): streaming
\* does not take down the process that also serves the WebSocket chat.
ChatUnaffected == ~crashed
==============================================================================
