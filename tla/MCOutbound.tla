----------------------------- MODULE MCOutbound -----------------------------
(***************************************************************************)
(* Small instances of Outbound for TLC.                                    *)
(***************************************************************************)
EXTENDS Outbound, TLC

CONSTANTS m1, m2, r1, r2, d, f

\* retry_delays
OneRetry == <<1>>
TwoRetries == <<1, 1>>

\* one message to two recipients, two messages to two and to one
JustOne   == m1 :> {r1, r2}
OneAndTwo == m1 :> {r1, r2} @@ m2 :> {r1}

\* Time that no entry waits for is skipped, so that MaxClock never stops a
\* retry: two messages wait at most Len(Delays) times for one tick each.
LazyNext == Next /\ (Tick => \E e \in queue : e.next_ts > clock)

LiveSpec ==
    /\ Init /\ [][LazyNext]_vars
    /\ \A m \in Msgs : WF_vars(EnqueueStep(m))
    /\ \A s \in Senders : WF_vars(PassStep(s))
    /\ \A s \in Daemons : WF_vars(StartPass(s))
    /\ WF_vars(Tick /\ \E e \in queue : e.next_ts > clock)

=============================================================================
