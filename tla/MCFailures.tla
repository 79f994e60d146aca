----------------------------- MODULE MCFailures -----------------------------
EXTENDS Failures

AllTypes == {"user.created", "user.updated", "order.created",
             "payment.processed", "notification.sent", "other"}
AllIds == {"error", "timeout", "plain", "missing"}

\* Already expired (a negative one parses), shorter than some handlers and equal
\* to one, the default, equal to the end of a simulated pause, and longer than
\* all of them.
Timeouts == {-1, 0, 8, 1200, 2408, 3600}

\* No attempt, no retry, some, and enough for the delay to overflow.
MCRetries == {-1, 0, 2, 20}

\* RETRY_DELAY: negative, none, one unit, an odd number and the default of 1 s.
MCDelays == {-7, 0, 1, 7, 40}
=============================================================================
