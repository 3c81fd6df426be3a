--------------------------- MODULE DeliveryPromise ---------------------------
(***************************************************************************)
(* What the outbound path promises for each message a client has handed   *)
(* over, without folders, queue file, passes or retries: every recipient   *)
(* is settled at most once, the message is sent when all of them are       *)
(* settled or given up while one of them does not have it, never both, and *)
(* what is given up is reported.                                           *)
(***************************************************************************)
CONSTANTS Msgs, Rcpts, RcptsOf

VARIABLES
    accepted,  \* <<m, r>>: the server of r has m
    refused,   \* <<m, r>>: the server of r will not have m
    verdict,   \* what became of each message
    reported   \* messages the user was told about

vars == <<accepted, refused, verdict, reported>>

Init ==
    /\ accepted = {} /\ refused = {}
    /\ verdict = [m \in Msgs |-> "unsent"]
    /\ reported = {}

Submit(m) ==
    /\ verdict[m] = "unsent"
    /\ verdict' = [verdict EXCEPT ![m] = "pending"]
    /\ UNCHANGED <<accepted, refused, reported>>

Settle(m, r) ==
    /\ verdict[m] = "pending"
    /\ r \in RcptsOf[m]
    /\ <<m, r>> \notin accepted \cup refused
    /\ \/ accepted' = accepted \cup {<<m, r>>} /\ UNCHANGED refused
       \/ refused' = refused \cup {<<m, r>>} /\ UNCHANGED accepted
    /\ UNCHANGED <<verdict, reported>>

Send(m) ==
    /\ verdict[m] = "pending"
    /\ \A r \in RcptsOf[m] : <<m, r>> \in accepted \cup refused
    /\ verdict' = [verdict EXCEPT ![m] = "sent"]
    /\ UNCHANGED <<accepted, refused, reported>>

GiveUp(m) ==
    /\ verdict[m] = "pending"
    /\ \E r \in RcptsOf[m] : <<m, r>> \notin accepted
    /\ verdict' = [verdict EXCEPT ![m] = "failed"]
    /\ UNCHANGED <<accepted, refused, reported>>

Report(m) ==
    /\ verdict[m] = "failed" /\ m \notin reported
    /\ reported' = reported \cup {m}
    /\ UNCHANGED <<accepted, refused, verdict>>

Next ==
    \E m \in Msgs :
        \/ Submit(m) \/ Send(m) \/ GiveUp(m) \/ Report(m)
        \/ \E r \in Rcpts : Settle(m, r)

Spec == Init /\ [][Next]_vars

FairSpec ==
    /\ Spec
    /\ \A m \in Msgs : WF_vars(Send(m) \/ GiveUp(m)) /\ WF_vars(Report(m))
=============================================================================
