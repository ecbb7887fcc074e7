---------------------------- MODULE MCTimeWindows ----------------------------
(***************************************************************************)
(* Instances of TimeWindows for TLC.                                       *)
(***************************************************************************)
EXTENDS TimeWindows

Setup(windows, last, forced, dies, raises) ==
    [windows |-> windows, lastHour |-> last, forced |-> forced, dies |-> dies, raises |-> raises]

\* Any one window, asked for again and again, while processes die, ...
Dying == {Setup({w}, h, FALSE, TRUE, 0) : w \in Windows, h \in Hours}

\* ... while one write raises, ...
Raising == {Setup({w}, h, FALSE, FALSE, 1) : w \in Windows, h \in Hours}

\* ... and without failures, where the user may force the fetch.
Forced == {Setup({w}, h, TRUE, FALSE, 0) : w \in Windows, h \in Hours}

\* A window inside another that ends with it, or on a later day than any hour
\* fetched for the first.
Within(v, w) == /\ w.start <= v.start /\ v.end <= w.end
                /\ v.end = w.end \/ Day(w.end - 1) > Day(LastAsked(v))
Nested == {Setup({p[1], p[2]}, h, FALSE, FALSE, 0) :
              p \in {q \in Windows \X Windows : Within(q[1], q[2])}, h \in Hours}

Possible(S) == {s \in S : \A w \in s.windows : w.start <= s.lastHour}

MCSetups == Possible(Dying \cup Raising \cup Forced \cup Nested)

\* Whole days: a scenario that is made longer, or moved.
WholeDays == {w \in Windows : w.start % DayTicks = 0 /\ w.end % DayTicks = 0}
MCDays == {Setup({u, w}, Horizon, FALSE, FALSE, 0) : u \in WholeDays, w \in WholeDays}
=============================================================================
