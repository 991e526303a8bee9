-------------------------- MODULE MCPaymentLedger ---------------------------
(* MCPaymentSaga with a history: the payments that two threads have ever    *)
(* worked on at the same time.                                              *)
EXTENDS MCPaymentSaga

VARIABLE overlapped

WorkedOnTwice == {p \in Payments : \E v, w \in Workers : v # w /\ Of(v) = p /\ Of(w) = p}

WatchedInit == Init /\ overlapped = {}
WatchedNext == Next /\ overlapped' = overlapped \cup WorkedOnTwice'
WatchedSpec == WatchedInit /\ [][WatchedNext]_<<vars, overlapped>>

FairWatchedSpec ==
    /\ WatchedSpec
    /\ \A w \in Workers : WF_vars(WorkerStep(w))
    /\ WF_vars(RetryStep)

\* As long as no two requests work on a payment at once, no outage of the PG or
\* of booking-app makes the table and the PG disagree about it between
\* operations, whatever happens to other payments: money is held exactly for
\* APPROVED and CANCEL_FAILED, it has been returned exactly for REFUNDED, and an
\* APPROVED payment has its seat (confirmPayment, initiateRefund, retryCancel).
LedgerUntilOverlap ==
    \A p \in Payments \ overlapped : ~InFlight(p) => Agrees(p)

\* Nobody's money is kept without a seat: when calls may only fail to arrive, a
\* captured order gets its reservation or its money back, if need be by the
\* scheduler once the outage is over, unless two requests have worked on it at
\* once.
MoneyIsNotKept ==
    \A p \in Payments :
        pg[p] = "done" ~> pg[p] = "canceled" \/ Booked(p) \/ p \in overlapped
=============================================================================
