---- MODULE MCSummaryRefreshPool ----
\* Three repositories, two workers: one job always waits for a slot, and the
\* slots are given back in either order.
EXTENDS SummaryRefreshPool
====
