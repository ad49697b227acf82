--------------------------- MODULE GatewayMessages ---------------------------
(* What GatewaySync takes for granted about reports and timestamps.  The    *)
(* functions are checked in the states of one scope only.                   *)
EXTENDS GatewayContract, UtcTimestamp

VARIABLE scope   \* the part of the system that a behaviour is about

-----------------------------------------------------------------------------

(* A report is answered by what it says, not by how it is written down: the *)
(* order of its interfaces makes no difference, and of two contradicting    *)
(* entries for wg-users none is believed.                                   *)
PollIgnoresListOrder ==
    scope = "messages" =>
        \A manifest \in Manifest, report \in Report :
            poll(manifest, report)
                = poll(manifest, [report EXCEPT !.applied = Reverse(report.applied)])

(* valid_utc_timestamp accepts exactly the seconds of the days that the     *)
(* calendar counts, from year 1 on, in leap and in common years and         *)
(* centuries; it has no leap seconds.                                       *)
AcceptsExactlyInstants ==
    scope = "messages" =>
        \A t \in Timestamps : valid_utc_timestamp(t) <=> IsInstant(t)

=============================================================================
